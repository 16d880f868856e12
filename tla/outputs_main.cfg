SPECIFICATION FairSpec
CONSTANTS
    cl = cl
    mc = mc
    sv = sv
    raw = raw
    Output = {cl, mc, sv}
    Kind <- Kinds
    Clone = {k1, k2}
    Sorter = {raw}
    Source <- Sources
    None = None
    MaxRequests = 1
    MaxFailures = 1
    FailedAtClose = {mc}
INVARIANTS
    TypeOK
    ReceiveAlive
    DeletedOnce
    NothingLost
PROPERTIES
    ConnectsAgain
CHECK_DEADLOCK FALSE
