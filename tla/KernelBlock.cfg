SPECIFICATION Spec
CONSTANTS
    CAPACITY = 2
    MAX_PID = 3
    MAX_WAIT = 1
    DRAIN_TICKS = 2
    Payloads = {a}
    CHANNELS = 0
    ENDPOINT_HANDLES = 0
    HANDLES_PER_OWNER = 2
    HandleIdSpace = 2
    ChannelIdSpace = 3
    GRANTS = 1
    GRANTS_PER_OWNER = 1
    RECORDS = 1
    BlockIdSpace = 3
    MAX_ID = 3
    RightsGranted = {{"write"}}
    RequestPolls = 1
    RightsMoved = {{"read", "write"}}
PROPERTIES BlockWaitsEnd ShutdownEnds
INVARIANTS NoLostWakeup
