SPECIFICATION FairSpec
CONSTANTS
    core = core
    access = access
    Device = {core, access}
    Above <- MCAbove
    Topology <- MCTopology
    Budget <- MCBudget
    Transitions = 3
    Samples = 0
    Resolves = 1
    Mutes = 0
    Rewires = 1
    Crashes = 0
    Faults = 0
INVARIANTS
    TypeOK
    OutageAccounted
    RecoveryClearsUnlessRaced
PROPERTIES
    OutageRowNeverVanishes
    StillDownIsReported
