CONSTANTS
    Keys = {a, b}
    Buckets = {0, 1, 2}
    K = 2
    Max = 3
    MaxInserts = 4
    nullptr = nullptr
    NumElements = 6
SPECIFICATION SpecAll
INVARIANTS
    FilterIsSound
    RedBlackShape
    HeapsAreRight
    ClassesAreRight
    RangeSumsAreRight
    TrieIsRight
PROPERTIES
    RingIsLossyQueue
    ImplementsDictionary
    FixupTurnsShrink
CHECK_DEADLOCK FALSE
