SPECIFICATION Spec
CONSTANTS
    Families = {W, F}
    Cap = 2
    MaxSeq = 6
    MaxSafe = 2
    MaxSaves = 1
    MaxRecords = 1
    Lossy = TRUE
SYMMETRY Alike
INVARIANTS JournalsAreHistories OriginsInOrder LifecycleIsReadable
PROPERTIES ProgramsInTurn
CHECK_DEADLOCK FALSE
