SPECIFICATION Spec
CONSTANTS
    w1 = w1
    w2 = w2
    n1 = n1
    Work = {w1, w2}
    Nodes = {n1}
    NodeOf <- TwoInOne
    MaxInstant = 3
    MaxInteger = 4
INVARIANTS
    DriftOnlyOfEndedEmpty
    NodeSpansWork
    AttemptsDisjoint
    LeaseHonoured
CONSTRAINT RunBound
SYMMETRY Symmetry
CHECK_DEADLOCK FALSE
