SPECIFICATION Spec
CONSTANTS
    None = None
    Zero = Zero
    Torn = Torn
    OBJECTS = 1
    RETAINED = 1
    Envelope = TRUE
    Subjects = {s}
    Keys = {1}
    Payloads = {a, b}
    Histories <- FaultHistories
INVARIANTS FilesReadBack NoOlderFallback
PROPERTIES RefinesAtomicVolume
CHECK_DEADLOCK FALSE
