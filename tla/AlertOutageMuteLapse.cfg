SPECIFICATION FairSpec
CONSTANTS
    core = core
    access = access
    Device = {core, access}
    Above <- MCAbove
    Topology <- MCTopology
    Budget <- MCBudget
    Transitions = 1
    Samples = 0
    Resolves = 0
    Mutes = 1
    Rewires = 0
    Crashes = 0
    Faults = 0
PROPERTY StillDownIsReported
