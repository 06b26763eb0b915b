SPECIFICATION RecoverySpec
CONSTANTS
    w1 = w1
    w2 = w2
    n1 = n1
    n2 = n2
    Work = {w1, w2}
    Nodes = {n1, n2}
    NodeOf <- NodePerWork
    Edges <- NoEdges
    Policies = {"remain_recovery_required", "wait_for_expiry"}
    MaxFence = 6
    MaxInstant = 2
    MaxInteger = 5
INVARIANTS
    OnlyLiveLeasesInFlight
    FrontierTellsRows
CONSTRAINT RunBound
CHECK_DEADLOCK FALSE
