SPECIFICATION Spec
CONSTANTS
    core = core
    Addr = {core}
    Attr = {1, 2}
    MaxRaw = 2
    Word = 2
    MaxArg = 1
    Getters = {1, 2}
    Settable = {1, 2}
    Toggle = {2}
    ProtocolAttrs = {1, 2}
    Jobs <- AllJobs
    Genesis <- Deployed
INVARIANTS
    TypeOK
    OutputsHonest
    GreenMeansMatched
    JsonAgrees
    FilesAreThisUses
PROPERTIES
    DriftIsNoticed
