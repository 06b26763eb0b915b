SPECIFICATION Spec
CONSTANTS
    k1 = k1
    k2 = k2
    k3 = k3
    None = None
    Calls = {k1, k2, k3}
    Kind <- MCKind
    Stamps <- MCStamps
    Analyses = {A}
    NumActions = 2
    MaxAttempts = 2
    MaxAmbiguous = 1
    MaxReplays = 2
    MaxFaults = 2
INVARIANTS OneEffectPerKey ParityWasTrue
PROPERTIES ImplementsPromise
CHECK_DEADLOCK FALSE
