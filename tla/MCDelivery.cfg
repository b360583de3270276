SPECIFICATION Spec
CONSTANTS
    Invocations = 2
    one = one
    two = two
    Lists <- MCLists
    Budget = 1
    AcceptTime = 1
    WorkTime = 1
    QueueSize = 1
    InitialWorkers = 1
    Workers = 1
    Slots = 1
    MaxTries = 2
    MaxSends = 2
    MaxTime = 2
INVARIANTS
    TypeOK
    AcknowledgedIsOut
PROPERTIES
    PoolsKeepPromise
    JobsEnd
CHECK_DEADLOCK FALSE
