SPECIFICATION Spec
CONSTANTS
    IntMin <- MinInt
    IntMax = 2
    ByteMax = 1
    Strings = {0, 1, 2}
    Composed <- Nfc
    Types <- AllTypes
    ChainValues <- ValuesOfType
    Declarations <- AllDeclarations
    MaxWrites = 1
CHECK_DEADLOCK FALSE
INVARIANTS
    TypeOK
    RefreshAccepts
    ImportedValueSurvives
    VerdictIsDeclared
PROPERTIES
    ExecutionSettles
