SPECIFICATION FailoverSpec
CONSTANTS
    r1 = r1
    r2 = r2
    a = a
    b = b
    Nodes = {a, b}
    NoNode = NoNode
    Place <- AFirst
    Priority <- SamePriority
    KeyCount <- TwoKeysOnA
    Probed = {a}
    Requests = {r1}
    Considered <- AllNodes
    Serving <- AllNodes
    MaxFailoverAttempts = 3
    HealthyThreshold = 1
    UnhealthyThreshold = 1
    Cancels = FALSE
    MaxOutages = 1
    Threshold = 2
    Cooldown = 1
    KeyCooldown = 1
INVARIANTS
    HeldBodyReadable
