SPECIFICATION FairGenerationSpec
CONSTANTS
    k1 = k1  k2 = k2  k3 = k3
    Keys = {k1, k2, k3}
    Outside = {x}
    Part = x
    Lists = {k2}
    Orders <- MCOrders
    MaxSelects = 3
    MaxBatch = 2
INVARIANTS ScheduleInv QuotesFinalValues AssembledWhole
PROPERTY GenerationEnds
CHECK_DEADLOCK FALSE
