CONSTANTS
    Key = {k1}
    Call = {x1}
    Device = {}
    Null = Null
    PageSize = 1
    MaxRevision = 1
    MaxStamp = 1
    MaxEdits = 1
SPECIFICATION PublishSpec
INVARIANTS
    PublishedAsSeen
CHECK_DEADLOCK FALSE
