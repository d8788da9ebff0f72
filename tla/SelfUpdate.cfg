SPECIFICATION Spec
CONSTANTS
    Versions = 3
    Presses = 2
    Faults = 2
    Crashes = 1
INVARIANTS
    MarkersTell
    OldOrNew
    QuietSwap
    OneReplacement
PROPERTY ComesBack
CHECK_DEADLOCK FALSE
