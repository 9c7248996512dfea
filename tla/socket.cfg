SPECIFICATION Spec
CONSTANTS
    MaxCxns = 3
    MaxMsgs = 2
    FdLimit = 2
    MaxRecvCalls = 2
    RecvBufferSize = 3
    QueueCap = 1
    PoolThreads = {t1, t2}
INVARIANTS
    OneHandler
PROPERTY StreamSpec
SYMMETRY ThreadSymmetry
CHECK_DEADLOCK FALSE
