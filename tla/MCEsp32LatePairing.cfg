CONSTANTS
    Half = 16
    MaxBlock = 2
    MaxRefresh = 4
    Hold = 3
    MaxOffline = 4
    LatePairing = TRUE
SPECIFICATION ClockSafe
INVARIANTS
    PairingIsPolled
CHECK_DEADLOCK FALSE
