SPECIFICATION FairSpec
CONSTANTS
    MaxCxns = 2
    MaxMsgs = 1
    MaxRetries = 2
    QueueCap = 1
    MaxCalls = 2
INVARIANTS
    HeardUnless
PROPERTIES
    StreamSpec
    Reconnects
    MessagesArrive
    ProcessedUnlessMissed
    ShutdownEnds
CHECK_DEADLOCK FALSE
