SPECIFICATION Spec
CONSTANTS
    None = None
    Zero = Zero
    Torn = Torn
    c1 = c1
    c2 = c2
    NODES = 2
    RETAINED = 2
    DATA = 3
    MAX_EXTENTS = 2
    STAGES = 2
    Histories <- MCHistories
INVARIANTS
    GenerationIntact
    StagesKeepTheirReservations
    PreflightSuffices
    ShownRecordsSurvive
PROPERTY
    RefinesAtomicVolume
CHECK_DEADLOCK FALSE
