SPECIFICATION Spec
CONSTANTS
    Versions = 2
    Presses = 1
    Faults = 0
    Crashes = 0
PROPERTY WaitCoversRestart
CHECK_DEADLOCK FALSE
