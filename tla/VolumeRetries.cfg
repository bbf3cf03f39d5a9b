SPECIFICATION Spec
CONSTANTS
    None = None
    Zero = Zero
    Torn = Torn
    OBJECTS = 1
    RETAINED = 2
    Envelope = TRUE
    Subjects = {s}
    Keys = {1}
    Payloads = {a, b}
    Histories <- RetryHistories
INVARIANTS EvidenceMatchesFiles
PROPERTIES OneOutcome
CHECK_DEADLOCK FALSE
