SPECIFICATION Spec
CONSTANTS
    MaxDepth = 255
    SanityMax = 100
    BudgetBase = 2
    BudgetStep = 10
    BudgetCeiling = 12
    DescentFrom = 2
    DescentCap = 4
    LevelCap = 3
    WitnessedCap = 2
    CosmeticSpacing = 2
    ProgramCap = 1
    MaxCounter = 2
    Pacings = {1}
    Installed = {"whisper", "curio", "haunt", "next_use"}
    Requests <- OneDoor
    Sanities = {95}
    MaxId = 1
    MaxTurn = 1
    MaxReached = 3
    CurioMaxDepth = 2
    CurioExpireDepth = 3
INVARIANTS
    LevelAllowance
    CreditIsDelivery
PROPERTIES
    NoOverdraftNoRefund
