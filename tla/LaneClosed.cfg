SPECIFICATION Spec
CONSTANTS
    Surfaces = {"curio"}
    MaxStarts = 2
INVARIANTS ClosedIsUnpublished
CHECK_DEADLOCK FALSE
