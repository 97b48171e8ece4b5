SPECIFICATION FairSpec
CONSTANTS
    Callers = {worker, request1, request2}
    MinuteLen = 2
    DayLen = 4
    PerMinute = 1
    PerDay = 3
    MaxQueueDepth = 2
    Retries = 1
    BackoffBase = 1
INVARIANTS
    QueueAccounting
    QuotaRespected
    PaceHolds
PROPERTIES
    CallersLeave
