SPECIFICATION Spec
CONSTANTS
    p1 = p1
    p2 = p2
    c1 = c1
    c2 = c2
    NoMsg = NoMsg
    Nobody = Nobody
    Producers = {p1, p2}
    Consumers = {c1}
    Capacity = 2
    PoolSize = 8
    NumOrder = 3
    kMinBlockSize = 2
    Sizes = {2, 5}
    MsgsPerProducer = 2
    Blocking = {TRUE, FALSE}
    Timed = {TRUE, FALSE}
    MayCancel = TRUE
    PreducerCounts = {3}
    MayClose = TRUE
    MaxCrashes = 1
SYMMETRY Symmetry
INVARIANTS
    ListsSound
    MemorySound
    CloseEndsWaiting
    ClosedMeansDrained
PROPERTIES
    ImplementsMessageQueue
CHECK_DEADLOCK FALSE
