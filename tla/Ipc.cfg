SPECIFICATION IpcSpec
CONSTANTS
    Owners = {1, 2}
    Payloads = {a}
    CHANNELS = 2
    ENDPOINT_HANDLES = 4
    HANDLES_PER_OWNER = 3
    HandleIdSpace = 6
    ChannelIdSpace = 4
INVARIANTS LiveHandleOwnsChannel RingsAreWindows
PROPERTIES StaleHandlesStayDead AuthorityOnlyShrinks RefinesPorts
