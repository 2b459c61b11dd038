SPECIFICATION Spec
CONSTANTS
    d1 = d1
    r1 = r1
    r2 = r2
    t1 = t1
    w1 = w1
    Null = Null
    Devices <- OneDevice
    Plated <- NoDevice
    Rows <- TwoRows
    Trips <- OneTrip
    Sweeps <- OneSweep
    Window = 1
    Skew = 0
    MaxTime = 2
    MaxFaults = 1
INVARIANTS
    OneRowPerDevice
    OfflineJustified
    CrumbsInTime
PROPERTIES
    FixNeverGoesBack
SYMMETRY Symmetry
CHECK_DEADLOCK FALSE
