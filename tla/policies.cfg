SPECIFICATION PolicySpec
CONSTANTS
    CursorPeriod = 6
    Keys = {1, 2, 3}
    Leases = {l1, l2}
    NoKey = NoKey
    Window = 1
    Requests = 0
    Tokens = 0
    EstimateTokens = 0
    SoftPercent = 100
    LeaseTimeout = 3
    QuotaCooldown = 2
    MaxRetryAfter = 3
    MinRetryAfter = 1
    Reports = {1}
    Cooldowns = {1}
    MaxTime = 1
    MaxRequests = 1
SYMMETRY Symmetry
INVARIANTS
    RotationIsFair
    TokenSkewBounded
PROPERTIES
    NoStampede
