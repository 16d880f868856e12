SPECIFICATION Spec
CONSTANTS
    s1 = s1
    s2 = s2
    s3 = s3
    Sensor = {s1, s2, s3}
    Timeout <- Plain
    Second = 2
    Period = 12
    MaxChanges = 2
    MaxQuiet = 60
INVARIANT
    QuietNotForgotten
CHECK_DEADLOCK FALSE
