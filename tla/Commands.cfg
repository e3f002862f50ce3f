SPECIFICATION Spec
CONSTANTS
    core = core
    vault = vault
    NoAddr = NoAddr
    BadAddr = BadAddr
    Addr = {core, vault}
    Attr = {1, 2, 3, 4}
    MaxRaw = 2
    Word = 2
    MaxArg = 1
    Settable = {1, 3}
    Getters = {1, 2, 3}
    Toggle = {3}
    ProtocolAttrs = {1, 3}
    Documents <- AllDocuments
INVARIANTS
    TypeOK
    LoadsWhatIsDeclared
    
    ShowCoversPlan
