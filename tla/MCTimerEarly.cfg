CONSTANTS
    Event <- MCEvent
    Queue = {"timer"}
    QueueOf <- MCQueueOf
    Limit <- MCLimit
    MaxAttempts = 2
    BatchSize = 1
    Malformed = {}
    Null = Null
    MinDuration = 1
    MaxDuration = 2
    MaxTime = 4
    MaxVersion = 4
    Slot = {s1}
    Duration1 = 2
    MaxClock = 4
    MaxSetBack = 1
    MaxIssued = 3
SPECIFICATION Safe
PROPERTIES
    EarlyRunsKeepTheirAttempt
CHECK_DEADLOCK FALSE
