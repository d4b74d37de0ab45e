SPECIFICATION Spec
CONSTANTS
    Clients = {c1, c2}
    Delays = {1, 2}
    MaxStarts = 2
    MaxTime = 2
    NULL = NULL
    HeapItems = {1, 2, 3, 4, 5, 6}
    HeapRank <- MCHeapRank
    HeapSteps = 11
SYMMETRY Symmetry
CHECK_DEADLOCK FALSE

PROPERTIES NotEarly
