SPECIFICATION FairSpec
CONSTANTS
    MaxSeq = 12
    MaxSafe = 3
    MaxId = 2
    MaxSessions = 1
    MaxDirectors = 2
    Lossy = FALSE
INVARIANTS CleanRunsAreTrusted
PROPERTIES NeverOverwritesUnanswered PublishedIsAnswered
CHECK_DEADLOCK FALSE
