SPECIFICATION Spec
CONSTANTS
    MaxDepth = 255
    SanityMax = 100
    BudgetBase = 2
    BudgetStep = 10
    BudgetCeiling = 12
    DescentFrom = 2
    DescentCap = 4
    LevelCap = 3
    WitnessedCap = 2
    CosmeticSpacing = 2
    ProgramCap = 1
    MaxCounter = 3
    Pacings = {0, 1}
    Installed = {"whisper"}
    Requests <- RulesAndMessages
    Sanities = {40, 95}
    MaxId = 3
    MaxTurn = 4
    MaxReached = 1
    CurioMaxDepth = 2
    CurioExpireDepth = 3
INVARIANTS
    SaveIsAccepted
    CosmeticsArePaced
PROPERTIES
    EffectRunsItsTerm
    FreshIdPerEffect
