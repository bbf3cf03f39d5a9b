SPECIFICATION Spec
CONSTANTS
    None = None
    file1 = file1
    c1 = c1
    c2 = c2
    CLIENTS = 2
    STAGES = 2
    RETAINED = 2
    SECTOR = 2
    MAX_FILE = 2
    LAST = 6
    Ends = {1, 2, 3}
    CAP = 1
    Prompt = {1, 3}
    Histories <- MCHistories
INVARIANTS
    RevocationAfterSettlement
    TransfersOwnStages
    AnswersTellTheTruth
    LostAuthorityIsFinal
    ReceiptsNameRetained
    RepliesReachTheirAsker
    PollerIdle
PROPERTIES
    EffectsNeedAuthority
    EveryoneIsAnswered
CHECK_DEADLOCK FALSE
