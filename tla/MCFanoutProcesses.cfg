CONSTANTS
    Event = {1, 2}
    Queue = {"delivery"}
    QueueOf <- MCQueueOf
    Limit <- MCLimit
    MaxAttempts = 1
    BatchSize = 1
    Worker = {w1}
    Malformed = {}
    Nil = Nil
    SequenceOf <- MCSequence
    Consumer = {c1, c2}
    Socket = {x1}
    PrepareBatch = 1
    w1 = w1
    c1 = c1
    c2 = c2
    x1 = x1
SYMMETRY Processes
SPECIFICATION ProcessesSpec
INVARIANTS
    FanoutTypeOK
    NoLostUpdate
CHECK_DEADLOCK FALSE
