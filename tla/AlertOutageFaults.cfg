SPECIFICATION Spec
CONSTANTS
    core = core
    access = access
    Device = {core, access}
    Above <- MCAbove
    Topology <- MCTopology
    Budget <- MCBudget
    Transitions = 2
    Samples = 1
    Resolves = 1
    Mutes = 1
    Rewires = 0
    Crashes = 1
    Faults = 1
INVARIANTS
    OwnOutageSilencesLoss
    OutageAccounted
    RecoveryClearsUnlessRaced
