SPECIFICATION Spec
CONSTANTS
    s1 = s1
    s2 = s2
    None = None
    Scans <- TwoScans
    Travel <- TravelTimes
    Deadline = 4
    Threshold = 2
    MaxClock = 4
INVARIANTS
    ClaimBacked
    OncePerEpisode
    ScanSettles
    EtaTracked
PROPERTIES
    MarkKept
SYMMETRY Symmetry
CHECK_DEADLOCK FALSE
