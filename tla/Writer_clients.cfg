SPECIFICATION FairSpec
CONSTANTS
    c1 = c1
    c2 = c2
    c3 = c3
    Commands = {c1, c2, c3}
    Async = {c1, c2}
    QueueCapacity = 1
    WaiterCapacity = 1
    NotificationCapacity = 2
    MaxContention = 2
    MaxSubmission = 2
    None = None
INVARIANTS
    DiagnosticsCoherent
    AnswersTellTruth
    NotificationsFollowCommits
    StoppedLeavesNobody
PROPERTIES
    EveryoneIsAnswered
CHECK_DEADLOCK FALSE
