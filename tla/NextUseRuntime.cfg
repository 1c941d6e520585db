SPECIFICATION FairSpec
CONSTANTS
    Programs <- EveryKind
    Deadlines = {2, 9}
    Lifetime = 4
    WindowOpen = 1
    WindowEnd = 2
    DelayMoves = 1
    Callbacks = 3
    PrivateMax = 14
    Levels = {1, 2}
    Hangups = TRUE
    MaxTime = 4
INVARIANTS
    TypeOK
    AtRestSavable
    SeenSaveRestores
    GivesWhatWasDeclared
PROPERTIES
    WitnessInWindow
    TerminatedIsFinal
    ProgramEnds
CHECK_DEADLOCK FALSE
