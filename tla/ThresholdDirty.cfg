SPECIFICATION FairSpec
CONSTANTS
    Device = {d1}
    Limits = {2, 3}
    Values = {0, 2}
    ForPolls = 2
    MaxClock = 3
    Budget <- MCBudget
    Kinds = 3
    Edits = 1
    Resolves = 1
    Absorbs = 1
    Windows = 1
    Gates = 1
    Crashes = 1
    Faults = 1
INVARIANTS
    TypeOK
    NothingMissed
PROPERTIES
    ResolvedRunStaysClosed
    EditsReachEveryDevice
