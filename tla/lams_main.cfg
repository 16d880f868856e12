CONSTANTS
    IsrSize = 2
    OutSize = 2
    AvgLen = 3
    PeakLen = 2
    BufSize = 3
    DefaultNAvg = 4
    DefaultNPeaks = 4
    NAvg = 1
    NPeaks = 2
    MaxIrq = 2
    MaxOpens = 2
SPECIFICATION Spec
INVARIANTS TypeOK ScannedWhole SpectraConserved NoUseAfterFree
PROPERTIES RingsAreFifos EverythingIsRead
CHECK_DEADLOCK FALSE
