SPECIFICATION Spec
CONSTANTS
    MaxCxns = 2
    MaxRequests = 2
    SessionModulus = 2
    RingCap = 1
    PoolThreads = {t1}
INVARIANTS
    CancelsOwnOnly
    AcksAreTrue
    NotificationsReachOwner
    
    
CHECK_DEADLOCK FALSE
