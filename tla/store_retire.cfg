SPECIFICATION Spec
CONSTANTS
    Keys = {k1, k2}
    Leases = {l1, l2}
    NoKey = NoKey
    Window = 3
    Requests = 2
    Tokens = 0
    EstimateTokens = 0
    SoftPercent = 50
    LeaseTimeout = 3
    QuotaCooldown = 2
    MaxRetryAfter = 3
    MinRetryAfter = 1
    Reports = {0}
    Cooldowns = {0, 2, 4}
    MaxTime = 4
    MaxRequests = 4
SYMMETRY Symmetry
INVARIANTS
    RetryAfterTruthful
PROPERTIES
    RetirementNeverShortened
    LeavingIsReported
