SPECIFICATION FairSpec
CONSTANTS
    r1 = r1
    r2 = r2
    t1 = t1
    t2 = t2
    w1 = w1
    w2 = w2
    w3 = w3
    NoRequest = NoRequest
    NoTrip = NoTrip
    Requests <- TwoRequests
    Trips <- TwoTrips
    Workers <- TwoWorkers
    Interrupts = FALSE
    AckLost = TRUE
INVARIANTS
    LinkIsOwn
    ApprovedAtRestIsLinked
PROPERTIES
    ClaimResolved
CHECK_DEADLOCK FALSE
