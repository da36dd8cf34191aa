CONSTANTS
    Conn = {x1, x2}
    MaxPerDevice = 1
    MaxPending = 2
    Heartbeat = 3
    PongTimeout = 2
    AuthTimeout = 2
    CheckInterval = 2
    OpTimeout = 1
    SlowestPush = 3
    Watchdog = 5
    MaxBackoff = 2
    Prompt = FALSE
    MaxPairs = 1
    MaxFaults = 0
    MaxSent = 2
    None = None
    Connection = {x1, x2}
    Newest = 2
    MaxFailures = 1
    MaxLeaves = 1
    MaxRevoked = 0
    Null = Null
    x1 = x1
    x2 = x2
    Instances = {"link"}
SPECIFICATION MCSafe
INVARIANTS
    ProtocolIsCompatible
