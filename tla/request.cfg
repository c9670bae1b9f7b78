SPECIFICATION RequestSpec
CONSTANTS
    Clients = {r1, r2, r3}
    Varied = r1
    Tiers = {"local", "cloud"}
    NoTier = NoTier
    MaxGeneration = 2
    MaxQueueDepth <- Growing
    MaxConcurrency <- Ones
    Policies <- MCPolicies
    Inputs <- MCInputs
    Nodes <- MCNodes
    PIILocalRule <- MCRule
    Smart <- MCSmart
    NoPolicy <- MCNoPolicy
    Incoming <- MCIncoming
    NoRequest = NoRequest
    EventBuffer = 1
INVARIANTS
    QueueConserved
    TierConserved
    PermitsConserved
    WorkingBodiesBounded
    PIILocalOnly
    DecisionsSound
PROPERTIES
    RequestsLeave
