SPECIFICATION Spec
CONSTANTS
    n1 = n1
    n2 = n2
    w1 = w1
    w2 = w2
    k1 = k1
    k2 = k2
    Nodes = {n1}
    Edges = {}
    Work = {w1, w2}
    NodeOf <- PairNodeOf
    Workers = {k1, k2}
    Permits = 2
    AssignBound = 1
    ResultBound = 1
    MaxRedispatch = 1
    MaxWriterRetries = 1
    MaxAttempts = 1
    MaxPauses = 1
    MaxFence = 4
    MaxInstant = 0
    Disruptions = {"reject", "rollback", "unknown", "expire", "claim", "lifecycle", "cancel"}
INVARIANTS
    OnePlacePerWork
    ResultsAreCurrent
CHECK_DEADLOCK FALSE
