SPECIFICATION GatewaySpec
CONSTANTS
    Keys = {k1}
    Leases = {r1, r2}
    NoKey = NoKey
    Window = 2
    Requests = 2
    Tokens = 9
    EstimateTokens = 2
    SoftPercent = 100
    LeaseTimeout = 2
    QuotaCooldown = 2
    MaxRetryAfter = 3
    MinRetryAfter = 1
    Reports = {0, 3}
    Cooldowns <- AnyCooldown
    MaxTime = 3
    MaxRequests = 9
    Responses <- Answers
    RouteTimeout = 1
    VendorRateCooldown = 1
    VendorBalanceCooldown = 2
    VendorQuotaFallback = 4
    ResetIn = 3
INVARIANTS
    ExactCap
    AuditReconciles
    ParkedUntilAsked
PROPERTIES
    UsesStoreLegally
    LeaseSettles
