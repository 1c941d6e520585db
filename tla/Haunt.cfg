SPECIFICATION FairSpec
CONSTANTS
    MaxSeq = 3
    MaxTurn = 2
    HuntTurns = 1
    Bindings <- Staged
    MaxRuns = 2
    Lossy = TRUE
INVARIANTS TypeOK HoundWasTried WindowNamesTheLook
PROPERTIES TrialReturns
CHECK_DEADLOCK FALSE
