----------------------------- MODULE MCFleetSync -----------------------------
(* A small instance of FleetSync for TLC.                                  *)
EXTENDS FleetSync, TLC

CONSTANTS d1, r1, r2, t1, w1

OneDevice == {d1}
NoDevice == {}
TwoRows == {r1, r2}
OneTrip == {t1}
OneSweep == {w1}

\* No action tells one row id from another.
Symmetry == Permutations(Rows)
=============================================================================
