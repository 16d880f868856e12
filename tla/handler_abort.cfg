SPECIFICATION Spec
CONSTANTS
    Sensor = {s1, s2}
    Conn = {}
    reopenOnIOException = {s1, s2}
    Timed = {s1}
    AddFails = FALSE
    PollFails = FALSE
INVARIANT
    RemoveAssertion
CHECK_DEADLOCK FALSE
