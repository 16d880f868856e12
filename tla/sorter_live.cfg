SPECIFICATION FairSpec
CONSTANTS
    Sample = {1, 2, 3}
    TimeTag <- TagsEqual
    sorterLength = 1
    lateSampleCacheSize = 0
    Anomalous = {}
    Length <- MixedLength
    Producer = {p1, p2}
    Flusher = {f1, f2}
    HeapMax = 3
    heapBlock = FALSE
    realTime = TRUE
    SystemTime = {0, 5}
    FutureLimit = 1
    Spurious = TRUE
INVARIANTS
    TypeOK
    NoSampleLostOrRepeated
    FlushedMeansDrained
    HeapBounded
PROPERTIES
    InterruptStopsRun
    InterruptFreesFlush
    FlushCompletes
    AgedIsSent
CHECK_DEADLOCK FALSE
