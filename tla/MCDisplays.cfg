CONSTANTS
    Event = {1, 2}
    Queue = {"delivery"}
    QueueOf <- MCQueueOf
    Limit <- MCLimit
    MaxAttempts = 2
    BatchSize = 1
    Worker = {w1, w2}
    Malformed = {}
    Nil = Nil
    SequenceOf <- MCSameKey
    Consumer = {p1}
    Socket = {x1}
    PrepareBatch = 1
    w1 = w1
    w2 = w2
    p1 = p1
    x1 = x1
    s1 = s1
    s2 = s2
    c1 = c1
    c2 = c2
    Server = {s1, s2}
    Code = {c1, c2}
    HomeOf <- MCHomeOf
    Content = {1, 2, 3}
    ImageOf <- MCImageOf
    None = None
    CacheFails = FALSE
    MaxCrash = 2
SYMMETRY Executions
SPECIFICATION MCSafe
INVARIANTS
    NoLostUpdate
    IdentityStaysHome
    OfflineStartWorks
PROPERTIES
    RecipientsFrozen
CHECK_DEADLOCK FALSE
