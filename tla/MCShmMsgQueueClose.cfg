SPECIFICATION Spec
CONSTANTS
    p1 = p1
    p2 = p2
    c1 = c1
    c2 = c2
    NoMsg = NoMsg
    Nobody = Nobody
    Producers = {}
    Consumers = {c1, c2}
    Capacity = 2
    PoolSize = 8
    NumOrder = 2
    kMinBlockSize = 4
    Sizes = {3, 8}
    MsgsPerProducer = 0
    Blocking = {TRUE, FALSE}
    Timed = {TRUE, FALSE}
    MayCancel = TRUE
    PreducerCounts <- CountNotSet
    MayClose = TRUE
    MaxCrashes = 0
INVARIANTS CloseEndsWaiting
CHECK_DEADLOCK FALSE
