SPECIFICATION LimitsSpec
CONSTANTS
    Threshold = 3
    Cooldown = 3
    Callers = {c1, c2, c3, c4}
    Requesters = {r1, r2, r3}
    MaxRequests = 2
    Window = 3
    Burst = 1
    ProbeInterval = 2
    ProbeBurst = 2
INVARIANTS
    ClosedMeansBelowThreshold
    BucketsBounded
    RefusalIsEarned
PROPERTIES
    OpenIsLeft
