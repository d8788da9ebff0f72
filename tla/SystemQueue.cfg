SPECIFICATION Spec
CONSTANTS
    Condition = {mail, sms}
    Cap = 2
    Budget <- MCBudget
    Flips = 5
    Faults = 2
    Crashes = 1
    RuleEdits = 1
    Resolves = 1
SYMMETRY Alike
INVARIANTS
    RowsFollowConditions
PROPERTY Promise
