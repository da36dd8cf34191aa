CONSTANTS
    Event <- MCEvent
    Queue = {"timer"}
    QueueOf <- MCQueueOf
    Limit <- MCLimit
    MaxAttempts = 2
    BatchSize = 1
    Malformed = {}
    Null = Null
    MaxTime = 4
    Item = {1, 2, 3}
    Revision = {"A", "B"}
    Playlist <- MCPlaylist
    Slot = {s1}
    MaxVersion = 3
    MaxClock = 2
    MaxUpsets = 1
SPECIFICATION Safe
INVARIANTS
    TypeOK
    ShowsItsItem
    ItemOnTime
    DueWhenItemEnds
    TransitionKept
CHECK_DEADLOCK FALSE
