SPECIFICATION FairSpec
CONSTANTS
    p1 = p1
    p2 = p2
    c1 = c1
    c2 = c2
    NoMsg = NoMsg
    Nobody = Nobody
    Producers = {p1, p2}
    Consumers = {c1, c2}
    Capacity = 2
    PoolSize = 8
    NumOrder = 2
    kMinBlockSize = 4
    Sizes = {3, 8}
    MsgsPerProducer = 1
    Blocking = {TRUE}
    Timed = {FALSE}
    MayCancel = FALSE
    PreducerCounts = {2}
    MayClose = FALSE
    MaxCrashes = 0
PROPERTIES
    DeliversEverything
CHECK_DEADLOCK FALSE
