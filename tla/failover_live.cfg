SPECIFICATION FailoverSpec
CONSTANTS
    r1 = r1
    r2 = r2
    a = a
    b = b
    Nodes = {a, b}
    NoNode = NoNode
    Place <- AFirst
    Priority <- Chain
    KeyCount <- TwoKeysOnA
    Probed = {a}
    Requests = {r1}
    Considered <- AllNodes
    Serving <- AllNodes
    MaxFailoverAttempts = 2
    HealthyThreshold = 1
    UnhealthyThreshold = 2
    Cancels = TRUE
    MaxOutages = 1
    Threshold = 1
    Cooldown = 2
    KeyCooldown = 1
INVARIANTS
    BodiesReleased
PROPERTIES
    RequestsFinish
    NodesRecover
