SPECIFICATION Spec
CONSTANTS
    t1 = t1
    t2 = t2
    v1 = v1
    d1 = d1
    w1 = w1
    w2 = w2
    None = None
    Keep = Keep
    Trips <- TwoTrips
    Vehicles <- OneVehicle
    Drivers <- OneDriver
    Workers <- TwoWorkers
    Bookings <- SmallBookings
    Patches <- SmallPatches
INVARIANTS
    BookedTwiceByRaceOnly
SYMMETRY Symmetry
CHECK_DEADLOCK FALSE
