SPECIFICATION FairSpec
CONSTANTS
    MaxCxns = 2
    MaxMsgs = 2
    FdLimit = 2
    MaxRecvCalls = 2
    RecvBufferSize = 3
    QueueCap = 1
    PoolThreads = {t1}
PROPERTIES
    ConnectionsAccepted
    MessagesDelivered
    DestructorEnds
CHECK_DEADLOCK FALSE
