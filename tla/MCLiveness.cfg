CONSTANTS
    Event <- MCEvent
    Queue = {"timer"}
    QueueOf <- MCQueueOf
    Limit <- MCLimit
    MaxAttempts = 2
    BatchSize = 1
    Malformed = {}
    Null = Null
    MinDuration = 1
    MaxDuration = 2
    MaxTime = 3
    MaxVersion = 3
    Slot = {s1}
    Duration1 = 2
    MaxClock = 3
    MaxSetBack = 1
    MaxIssued = 3
SPECIFICATION MCSpec
INVARIANTS
    DeadlineKept
    TimeConserved
PROPERTIES
    NoRevival
    RunningEnds
    EventuallySettled
    ImplementsContract
    PlaybackGoesOn
CHECK_DEADLOCK FALSE
