SPECIFICATION Spec
CONSTANTS
    MaxOrders = 3
    MaxLevel = 1
    SubTick = 4
    LimitPrices = {3}
    Quantities = {1, 2}
    Sessions = {1}
    IsProduction = FALSE
    OrdersQueueCap = 2
    FillQueueCap = 2
INVARIANTS
    TypeOK
    BookSound
    LookupMatchesBook
    OwnedOnce
    QtyAccounting
    ReportsAgree
PROPERTIES
    LedgerSpec
CHECK_DEADLOCK FALSE
