CONSTANTS
    MaxHeap = 21
    Sizes = {8, 40}
    Fills = {1}
    MaxTotal = 21
SPECIFICATION SpecAll
INVARIANTS
    HeapIsSound
    DriverIsRight
PROPERTIES
    ExtendsOnlyWhenNoRunFits
    SamplingIsRight
CHECK_DEADLOCK FALSE
