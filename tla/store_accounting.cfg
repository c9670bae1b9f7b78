SPECIFICATION Spec
CONSTANTS
    Keys = {k1}
    Leases = {l1, l2, l3}
    NoKey = NoKey
    Window = 3
    Requests = 3
    Tokens = 4
    EstimateTokens = 2
    SoftPercent = 75
    LeaseTimeout = 2
    QuotaCooldown = 2
    MaxRetryAfter = 3
    MinRetryAfter = 1
    Reports = {0, 3}
    Cooldowns = {2}
    MaxTime = 5
    MaxRequests = 6
SYMMETRY Symmetry
INVARIANTS
    SlotConservation
    RequestCapBound
    NeverUndercounts
    TokenOvershootBound
