SPECIFICATION Spec
CONSTANTS
    core = core
    alice = alice
    bob = bob
    User = {alice, bob}
    Addr = {core}
    Attr = {1, 2}
    MaxRaw = 1
    Word = 2
    MaxArg = 1
    Getters = {1, 2}
    Settable = {1, 2}
    Toggle = {2}
    ProtocolAttrs = {1, 2}
    Configs <- Versions
    Genesis <- Deployed
    Elsewhere <- OtherChain
    MaxQueue = 2
    MaxFaults = 1
INVARIANTS
    TypeOK
    QueuedStillFits
PROPERTIES
    ExecutionSetsDeclared
    ExportReplaces
    Converges
