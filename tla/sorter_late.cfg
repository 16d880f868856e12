SPECIFICATION Spec
CONSTANTS
    Sample = {1, 2, 3, 4, 5}
    TimeTag <- TagsJump
    sorterLength = 2
    lateSampleCacheSize = 1
    Anomalous = {4}
    Length <- UnitLength
    Producer = {p1, p2}
    Flusher = {}
    HeapMax = 3
    heapBlock = TRUE
    realTime = FALSE
    SystemTime = {}
    FutureLimit = 0
    Spurious = TRUE
SYMMETRY Symmetry
INVARIANTS
    SortedWithinWindow
    DisorderIsCounted
    EqualTagsKeepOrder
    EverySampleAccounted
    HeapAccounting
CHECK_DEADLOCK FALSE
