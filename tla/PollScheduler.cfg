SPECIFICATION FairSpec
CONSTANTS
    Device = {d1}
    Workers = 2
    Resizer = {save}
    Budget <- MCBudget
    Clicks = 1
    Resizes = 1
    Controls = 1
    Faults = 1
INVARIANTS
    TypeOK
    MarkerMeansPoll
    OnePollUnlessOrphaned
PROPERTY EveryDevicePolled
CHECK_DEADLOCK FALSE
