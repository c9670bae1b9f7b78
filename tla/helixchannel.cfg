SPECIFICATION Spec
CONSTANTS
    MaxFrame = 2
    Prefix = 2
    Sealing = 1
    WriteSizes = {0, 1, 3}
    BufferSizes = {1, 2}
    MaxBytes = 4
    MaxRecords = 3
    Kinds = {"connect", "socks5", "sse", "aes"}
    ReplyLen = 2
    Base = 2
    Callers = {c1, c2}
    MaxTunnels = 1
    NoLeg <- MCNoLeg
    Configs <- MCConfigs
    BridgeHosts <- MCBridgeHosts
INVARIANTS
    ResourcesReturned
    RemoteKeptOut
    AllowlistNamesNoLocal
    PoolFitsStore
PROPERTIES
    ImplementsStream
    AcceptedArrives
    FailureStopsGateway
CHECK_DEADLOCK FALSE
