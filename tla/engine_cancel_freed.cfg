SPECIFICATION Spec
CONSTANTS
    MaxOrders = 2
    MaxLevel = 1
    SubTick = 1
    LimitPrices = {1}
    Quantities = {1}
    Sessions = {1}
    IsProduction = FALSE
    OrdersQueueCap = 2
    FillQueueCap = 2
INVARIANTS
    NoUseAfterFree
CHECK_DEADLOCK FALSE
