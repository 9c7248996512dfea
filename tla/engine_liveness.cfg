SPECIFICATION FairSpec
CONSTANTS
    MaxOrders = 2
    MaxLevel = 1
    SubTick = 1
    LimitPrices = {1}
    Quantities = {0, 1, 2}
    Sessions = {1, 2}
    IsProduction = TRUE
    OrdersQueueCap = 2
    FillQueueCap = 2
PROPERTIES
    MatchEnds
    OrdersAreTaken
    ShutdownEnds
CHECK_DEADLOCK FALSE
