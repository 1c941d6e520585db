SPECIFICATION Spec
CONSTANTS
    Explored = {"water_refreshed", "cannot_reach", "attention"}
    MaxSeq = 6
    MaxOrigins = 2
    MaxDepth = 2
    MaxMoves = 1
    Lossy = TRUE
INVARIANTS TypeOK OriginsAreWitnessed RootsAreTold
PROPERTIES NoticeIsOwn
CHECK_DEADLOCK FALSE
