CONSTANTS
    Capacity = 5
    RecSize = 2
    Values = {1, 2}
    kA = kA
    kB = kB
    kC = kC
    d1 = d1
    c1 = c1
    c2 = c2
    pA = pA
    pB = pB
SPECIFICATION MCSpec
INVARIANTS
    RingFifo
    TablesReachRecords
    HeapKeepsItems
    MemoryKept
    BuffersInside
    ResultsInPlace
    JsonUnderstood
    TextRoundTrips
PROPERTIES
    TablesAreMaps
    FilesSurvive
    FileServesCurrent
SYMMETRY Symmetry
CHECK_DEADLOCK FALSE
