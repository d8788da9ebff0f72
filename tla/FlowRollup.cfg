SPECIFICATION Spec
CONSTANTS
    Horizon = 2
    PerHour = 2
    Flows = 2
    Touches = 2
    Crashes = 1
INVARIANTS
    TypeOK
    StaleIsOwed
    AnswerCountsOnce
PROPERTIES
    NothingUncounted
CHECK_DEADLOCK FALSE
