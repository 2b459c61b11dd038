SPECIFICATION Spec
CONSTANTS
    s1 = s1
    s2 = s2
    None = None
    Scans <- TwoScans
    Travel <- TravelTimes
    Deadline = 4
    Threshold = 2
    MaxClock = 4
PROPERTIES
    FlagComparedAndSet
CHECK_DEADLOCK FALSE
