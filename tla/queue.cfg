SPECIFICATION Spec
CONSTANTS
    Producers = {p1, p2}
    Consumers = {c1}
    PoolSize = 2
    BlockSize = 2
    IndexCapacity = 2
    MaxItems = 6
INVARIANTS
    BlockOnce
    ReadsRight
PROPERTY FifoSpec
SYMMETRY ThreadSymmetry
CHECK_DEADLOCK FALSE
