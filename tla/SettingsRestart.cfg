SPECIFICATION Spec
CONSTANTS
    Handler = {browser, strip}
    Requests = 2
    Loops = 2
INVARIANTS
    TypeOK
    NoSaveLost
    OneLoop
    LastWord
PROPERTIES
    TakesEffect
    ShutdownEnds
CHECK_DEADLOCK FALSE
