SPECIFICATION Spec
CONSTANTS
    Functions <- FeeFunctions
    MaxEntries = 4
    MaxUpgraded = 0
CHECK_DEADLOCK FALSE
INVARIANTS
    EveryGetterAnswers
