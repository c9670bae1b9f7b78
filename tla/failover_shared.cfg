SPECIFICATION FailoverSpec
CONSTANTS
    r1 = r1
    r2 = r2
    a = a
    b = b
    Nodes = {a, b}
    NoNode = NoNode
    Place <- AFirst
    Priority <- SamePriority
    KeyCount <- NoKeys
    Probed = {a}
    Requests = {r1, r2}
    Considered <- AllNodes
    Serving <- AllNodes
    MaxFailoverAttempts = 2
    HealthyThreshold = 1
    UnhealthyThreshold = 1
    Cancels = TRUE
    MaxOutages = 0
    Threshold = 2
    Cooldown = 1
    KeyCooldown = 1
SYMMETRY Symmetry
INVARIANTS
    SteadyNodesTried
