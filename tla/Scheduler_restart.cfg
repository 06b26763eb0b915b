SPECIFICATION SchedulerSpec
CONSTANTS
    n1 = n1
    n2 = n2
    n3 = n3
    w1 = w1
    w2 = w2
    w3 = w3
    Nodes = {n1, n2, n3}
    Edges <- TriangleEdges
    Work = {w1, w2, w3}
    NodeOf <- TriangleNodeOf
    MaxFence = 3
    MaxInstant = 4
    MaxRestarts = 2
INVARIANTS
    AncestorsSucceeded
    RefusedOnlyForLateRetry
CHECK_DEADLOCK FALSE
