SPECIFICATION Spec
CONSTANTS
    Threads = 2
    Submitter = {engine}
    Jobs = 3
    Capacity = 2
    FailuresToOpen = 1
    Stops = 1
INVARIANTS
    TypeOK
    OneSenderUntilStopped
    StrandedOnlyIfDoomed
    ReportsMatchBreaker
    OneProbePerCooldown
PROPERTIES
    AcceptedIsSettled
    Promise
CHECK_DEADLOCK FALSE
