SPECIFICATION Spec
CONSTANTS
    r1 = r1
    r2 = r2
    t1 = t1
    t2 = t2
    w1 = w1
    w2 = w2
    w3 = w3
    NoRequest = NoRequest
    NoTrip = NoTrip
    Requests <- TwoRequests
    Trips <- TwoTrips
    Workers <- ThreeWorkers
    Interrupts = TRUE
    AckLost = FALSE
INVARIANTS
    ClaimExclusive
    AtMostOneTrip
    TripNeedsApproval
    OneVerdictAnnounced
PROPERTIES
    VerdictFinal
    RefinesLedger
SYMMETRY Symmetry
CHECK_DEADLOCK FALSE
