SPECIFICATION LiveSpec
CONSTANTS
    Sensor = {s1, s2}
    Conn = {c1}
    reopenOnIOException = {s1}
    Timed = {s1}
    AddFails = TRUE
    PollFails = TRUE
INVARIANTS
    TypeOK
    SensorInOnePlace
    PolledIsOpen
    PendingAlive
    ClosedAtEnd
PROPERTIES
    NewSensorPolled
    InterruptEnds
    ProblemRetried
CHECK_DEADLOCK FALSE
