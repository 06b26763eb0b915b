SPECIFICATION FairSpec
CONSTANTS
    n1 = n1
    n2 = n2
    w1 = w1
    w2 = w2
    k1 = k1
    k2 = k2
    Nodes = {n1, n2}
    Edges <- ChainEdges
    Work = {w1, w2}
    NodeOf <- ChainNodeOf
    Workers = {k1}
    Permits = 2
    AssignBound = 2
    ResultBound = 2
    MaxRedispatch = 1
    MaxWriterRetries = 1
    MaxAttempts = 2
    MaxPauses = 1
    MaxFence = 5
    MaxInstant = 1
    Disruptions = {"reject", "rollback", "unknown", "expire", "claim", "lifecycle", "cancel"}
INVARIANTS
    CapacityHeldUntilAcknowledged
    FrontierFollowsStore
    PausedIsQuiet
    PauseGateNotLeaked
    NeverStalls
    NoStepHalfAccepted
PROPERTIES
    ImplementsDurableRun
    PassEnds
CHECK_DEADLOCK FALSE
