SPECIFICATION Spec
CONSTANTS
    Functions <- AllFunctions
    MaxEntries = 5
    MaxUpgraded = 2
CHECK_DEADLOCK FALSE
INVARIANTS
    TypeOK
    DerivesTheConvention
    PlannedCallsAnswer
    AttributesSurvive
