SPECIFICATION Spec
CONSTANTS
    w1 = w1
    w2 = w2
    a = a
    b = b
    Workers <- TwoWorkers
    Places <- TwoPlaces
    MaxStops = 2
    MaxIds = 4
INVARIANTS
    CompletedPrefix
    StartRecorded
    NoticeTruthful
    CompletedServed
PROPERTIES
    LegalAlone
    StopsFrozen
    ArrivalsKept
SYMMETRY Symmetry
CHECK_DEADLOCK FALSE
