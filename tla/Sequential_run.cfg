SPECIFICATION Spec
CONSTANTS
    Order <- MCOrder
    Deps <- MCDeps
    Works = {"w1"}
    NodeOf <- MCNodeOf
    Results = {"succeeded", "failed"}
    MaxSequence = 8
    MaxRequests = 2
    MaxFaults = 1
INVARIANTS
    StoppedIsQuiet
    PausedRunnerIsIdle
    MemoryTellsTruth
    OutcomeTellsWork
PROPERTIES
    FinishedIsFinal
CHECK_DEADLOCK FALSE
