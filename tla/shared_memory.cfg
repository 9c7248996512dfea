SPECIFICATION FairSpec
CONSTANTS
    MaxEras = 2
    MaxOrders = 1
    RingCap = 2
INVARIANTS
    NewsOfOwnEra
    DiesOnlyUncalm
 
CHECK_DEADLOCK FALSE
