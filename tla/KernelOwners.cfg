SPECIFICATION Spec
CONSTANTS
    CAPACITY = 2
    MAX_PID = 4
    MAX_WAIT = 0
    DRAIN_TICKS = 1
    Payloads = {}
    CHANNELS = 1
    ENDPOINT_HANDLES = 2
    HANDLES_PER_OWNER = 2
    HandleIdSpace = 5
    ChannelIdSpace = 3
    GRANTS = 1
    GRANTS_PER_OWNER = 1
    RECORDS = 1
    BlockIdSpace = 3
    MAX_ID = 2
    RightsGranted = {{"write"}}
    RequestPolls = 0
    RightsMoved = {{"read", "write"}}
INVARIANTS ShutdownReclaims OnlyTheLiveOwn
PROPERTIES AuthorityComesFromTheSupervisor
