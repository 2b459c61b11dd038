SPECIFICATION Spec
CONSTANTS
    c1 = c1
    c2 = c2
    u1 = u1
    v1 = v1
    v2 = v2
    t1 = t1
    k1 = k1
    k2 = k2
    w1 = w1
    w2 = w2
    Null = Null
    Clients <- TwoClients
    Users <- OneUser
    Vehicles <- TwoVehicles
    Trips <- OneTrip
    Tokens <- TwoTokens
    Workers <- TwoWorkers
    MaxCalls = 4
INVARIANTS
    FullSet
    BrokenByHandOverOnly
    DeadLinksStayDead
    OneLiveLink
PROPERTIES
    NoTheft
SYMMETRY Symmetry
CHECK_DEADLOCK FALSE
