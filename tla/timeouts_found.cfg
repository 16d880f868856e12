SPECIFICATION Spec
CONSTANTS
    s1 = s1
    s2 = s2
    s3 = s3
    Sensor = {s1, s2, s3}
    Timeout <- Dividing
    Second = 2
    Period = 8
    MaxChanges = 3
    MaxQuiet = 34
INVARIANTS
    CountReachesMax
    QuietIsFound
    NotTooEarly
CHECK_DEADLOCK FALSE
