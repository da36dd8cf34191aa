CONSTANTS
    Event = {1, 2}
    Queue = {"timer"}
    QueueOf <- MCOneQueue
    Limit <- MCLimit
    MaxAttempts = 2
    BatchSize = 1
    Dispatcher = {d1, d2}
    Slot = {s1, s2}
    Malformed = {2}
    None = None
    EffectKey = {"k1", "k2"}
    KeyOf <- MCSameKey
    Key = {k1, k2}
    Call = {c1, c2}
    Device = {"d1"}
    Null = Null
    PageSize = 1
    MaxRevision = 2
    MaxStamp = 2
    MaxEdits = 0
    s1 = s1
    s2 = s2
    k1 = k1
    k2 = k2
    c1 = c1
    c2 = c2
SYMMETRY Alike
SPECIFICATION MCSafe
INVARIANTS
    TypeOK
    BudgetRespected
    AppliedAtMostOnce
    DeliveredMeansApplied
    DeadLetterJustified
    PublishedOnce
    PublishedAsSeen
    ReferencedKept
PROPERTIES
    SettledIsFinal
    CleanWhenDone
CHECK_DEADLOCK FALSE
