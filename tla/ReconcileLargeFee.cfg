SPECIFICATION Spec
CONSTANTS
    core = core
    vault = vault
    Addr = {core, vault}
    Attr = {1, 2, 3}
    MaxRaw = 2
    Word = 2
    MaxArg = 1
    Getters = {1, 2, 3}
    Settable = {1, 3}
    Toggle = {3}
    ProtocolAttrs = {1, 3}
    Configs <- LargeFee
    Genesis <- SomeGenesis
    MaxHeads = 1
INVARIANTS
    NoDriftMeansDesired
