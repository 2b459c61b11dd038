------------------------------ MODULE MCBooking ------------------------------
(* A small instance of Booking for TLC.                                    *)
EXTENDS Booking, TLC

CONSTANTS t1, t2, v1, d1, w1, w2

TwoTrips == {t1, t2}
OneVehicle == {v1}
OneDriver == {d1}
TwoWorkers == {w1, w2}

Wanted(v, d, a, b) == [vehicle |-> v, driver |-> d, from |-> a, to |-> b]

\* The vehicle, the driver or both, for windows that nest, touch and are apart.
SmallBookings ==
    {Wanted(v1, None, 0, 1), Wanted(v1, d1, 0, 2), Wanted(None, d1, 1, 2)}

\* Assign the vehicle, clear it, move the window.
SmallPatches ==
    {Wanted(v1, Keep, Keep, Keep), Wanted(None, Keep, Keep, Keep), Wanted(Keep, Keep, 1, 2)}

\* No action tells one worker or one trip id from another.
Symmetry == Permutations(Workers) \cup Permutations(Trips)
=============================================================================
