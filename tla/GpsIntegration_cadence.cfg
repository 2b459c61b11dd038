SPECIFICATION Spec
CONSTANTS
    AIROTRACK = AIROTRACK
    TRANSIGHT = TRANSIGHT
    Null = Null
    Providers <- OnlyTransight
    Listing <- OnlyTransight
    Seeds <- OnlyTransight
    Intervals <- SmallIntervals
    Edits <- SmallEdits
    Period = 1
    CacheTtl = 2
    InventoryTtl = 3
    RetryFloor = 2
    MaxTime = 5
    MaxEdits = 1
INVARIANTS
    CadenceKept
    InventoryBudget
    EditTakesEffect
CHECK_DEADLOCK FALSE
