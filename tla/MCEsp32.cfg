CONSTANTS
    Half = 9
    MaxBlock = 2
    MaxRefresh = 3
    Hold = 3
    MaxOffline = 1
    LatePairing = FALSE
    s1 = s1
    c1 = c1
    Server = {s1}
    Code = {c1}
    HomeOf <- MCHomeOf
    Content = {1, 2, 3}
    ImageOf <- MCImageOf
    None = None
    CacheFails = TRUE
    MaxCrash = 1
SPECIFICATION MCSpec
INVARIANTS
    PollsOnTime
    HoldOpensOnce
PROPERTIES
    Converges
CHECK_DEADLOCK FALSE
