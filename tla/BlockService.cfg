SPECIFICATION BlockSpec
CONSTANTS
    Owners = {1, 2}
    GRANTS = 2
    GRANTS_PER_OWNER = 1
    RECORDS = 2
    BlockIdSpace = 4
    MAX_ID = 4
    RequestPolls = 1
    RightsGranted = {{"read", "write"}}
INVARIANTS DeviceServesTheActiveRequest RecordsBelongToLiveHandles EffectsAreHonest
PROPERTIES EveryRequestSettles
