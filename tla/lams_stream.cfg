CONSTANTS
    IsrSize = 2
    OutSize = 2
    AvgLen = 3
    PeakLen = 2
    BufSize = 3
    DefaultNAvg = 4
    DefaultNPeaks = 4
    NAvg = 1
    NPeaks = 3
    MaxIrq = 3
    MaxOpens = 2
SPECIFICATION Spec
INVARIANT ReadsKeepSamplesWhole
CHECK_DEADLOCK FALSE
