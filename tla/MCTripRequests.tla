--------------------------- MODULE MCTripRequests ---------------------------
(* Small instances of TripRequests for TLC.                                *)
EXTENDS TripRequests, TLC

CONSTANTS r1, r2, t1, t2, w1, w2, w3

OneRequest == {r1}
TwoRequests == {r1, r2}
TwoWorkers == {w1, w2}
ThreeWorkers == {w1, w2, w3}
TwoTrips == {t1, t2}

\* Handlers and Trip ids are interchangeable in every invariant.
Symmetry == Permutations(Workers) \cup Permutations(Trips) \cup Permutations(Requests)
=============================================================================
