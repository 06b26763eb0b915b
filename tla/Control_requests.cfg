SPECIFICATION FairSpec
CONSTANTS
    r1 = r1
    r2 = r2
    r3 = r3
    k1 = k1
    NoKey = NoKey
    Requests = {r1, r2, r3}
    Keys = {k1}
    KeyOf <- MCKeyOf
    BodyOf <- MCBodyOf
    ActionsOf <- MCActionsOf
    MaxCrashes = 1
    Deadlines = TRUE
    Faults = TRUE
INVARIANTS
    OneAnswerPerKey
    CleanShutdownLeavesNoPass
CHECK_DEADLOCK FALSE
PROPERTIES
    RequestsAnsweredOwnersRetired
