SPECIFICATION Spec
CONSTANTS
    Capacity = 3
    Items = {a, b}
    NoItem = none
    Producers = {p}
    Consumer = c
    Attached = {p, c}
INVARIANTS
    NoTornRead
PROPERTIES
    FifoSpec
