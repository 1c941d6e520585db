SPECIFICATION FairSpec
CONSTANTS
    Surfaces = {"curio", "hound"}
    MaxStarts = 3
INVARIANTS FailedHasNoAnswer CandidateIsRecorded NeverConflicts
PROPERTIES AsksOnceOffersOnce RequestSettles HoundStillHappens
CHECK_DEADLOCK FALSE
