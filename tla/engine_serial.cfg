SPECIFICATION SerialSpec
CONSTANTS
    MaxOrders = 3
    MaxLevel = 2
    SubTick = 1
    LimitPrices = {1, 2}
    Quantities = {1, 2}
    Sessions = {s1, s2}
    IsProduction = TRUE
    OrdersQueueCap = 1
    FillQueueCap = 2
INVARIANTS
    BestIsCurrent
    NotCrossed
PROPERTIES
    PriceTimePriority
    TradesWithinLimits
CHECK_DEADLOCK FALSE
SYMMETRY SessionSymmetry
