SPECIFICATION Spec
CONSTANTS
    MaxSeq = 7
    MaxSafe = 2
    MaxId = 2
    MaxSessions = 2
    MaxDirectors = 1
    Lossy = TRUE
INVARIANTS TypeOK AckIsProof AppliedOnceOnTime EventsNumbered BelievedIsInstalled
CHECK_DEADLOCK FALSE
