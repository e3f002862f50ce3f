SPECIFICATION Spec
CONSTANTS
    IntMin <- MinInt
    IntMax = 2
    ByteMax = 1
    Strings = {0, 1, 2}
    Composed <- Nfc
    Types <- OnlyUint256
    ChainValues <- ValuesOfType
    Declarations <- WideDeclarations
    MaxWrites = 0
CHECK_DEADLOCK FALSE
INVARIANTS
    DesiredIsDeclared
