SPECIFICATION FairSpec
CONSTANTS
    p1 = p1
    p2 = p2
    c1 = c1
    c2 = c2
    Threads = {p1, p2, c1, c2}
    capacity_ = 1
    OpsOf <- AllOps
    Calls = 2
INVARIANTS
    WaitersJustified
    TasksKept
PROPERTIES
    CallsReturnOrAreBlocked
CHECK_DEADLOCK FALSE
