SPECIFICATION Spec
CONSTANTS
    o1 = o1
    o2 = o2
    o3 = o3
    n1 = n1
    n2 = n2
    Owners = {o1, o2, o3}
    Nodes = {n1, n2}
    GlobalLimit = 2
    StrategyLimit = 2
    NodeLimit = 1
    SubLimit = 1
    MaxInstant = 2
    None = None
INVARIANTS
    SlotsAccounted
    QueuesAgree
    SubordinateUnderParent
CONSTRAINT WaitBound
SYMMETRY Symmetry
CHECK_DEADLOCK FALSE
