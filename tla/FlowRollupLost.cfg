SPECIFICATION Spec
CONSTANTS
    Horizon = 2
    PerHour = 2
    Flows = 2
    Touches = 2
    Crashes = 0
INVARIANT LateFlowsNotLost
CHECK_DEADLOCK FALSE
