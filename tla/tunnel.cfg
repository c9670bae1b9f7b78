SPECIFICATION TunnelSpec
CONSTANTS
    Idle = 2
    Linger = 1
    MaxChunks = 2
    SocketBuffer = 1
INVARIANTS
    HalfCloseIsComplete
PROPERTIES
    DeadlinesOnlyTighten
    SilentTunnelEnds
CHECK_DEADLOCK FALSE
