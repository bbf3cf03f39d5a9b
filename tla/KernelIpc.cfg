SPECIFICATION Spec
CONSTANTS
    CAPACITY = 2
    MAX_PID = 3
    MAX_WAIT = 1
    DRAIN_TICKS = 2
    Payloads = {a}
    CHANNELS = 1
    ENDPOINT_HANDLES = 2
    HANDLES_PER_OWNER = 2
    HandleIdSpace = 5
    ChannelIdSpace = 3
    GRANTS = 0
    GRANTS_PER_OWNER = 1
    RECORDS = 0
    BlockIdSpace = 2
    MAX_ID = 1
    RightsGranted = {{"write"}}
    RequestPolls = 1
    RightsMoved = {{"read", "write"}}
INVARIANTS NoLostWakeup
PROPERTIES TimedWaitsEnd
