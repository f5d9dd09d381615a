SPECIFICATION FairSpec
CONSTANTS
    PoolSize = 8
    NumOrder = 3
    t1 = t1
    t2 = t2
    Threads = {t1, t2}
    Sizes = {1, 3, 8}
    MaxHeld = 2
INVARIANTS
    MutualExclusion
    BlocksDisjoint
    TreeExact
PROPERTIES
    LockReleased
