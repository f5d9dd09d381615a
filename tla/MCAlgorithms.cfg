SPECIFICATION SpecAll
CONSTANTS
    Letters = {"a", "b"}
    MaxLen = 8
    MaxElements = 7
    Low = 1
    High = 1
INVARIANTS
    SortsInput
    PathsAreShortest
    GraphsAreOrdered
    QueryIsMaximum
    MatchesAreRight
    BitsAreRight
CHECK_DEADLOCK FALSE
