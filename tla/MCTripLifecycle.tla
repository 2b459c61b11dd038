-------------------------- MODULE MCTripLifecycle --------------------------
(* Small instances of TripLifecycle for TLC.                               *)
EXTENDS TripLifecycle, TLC

CONSTANTS w1, w2, a, b

TwoWorkers == {w1, w2}
OnePlace == {a}
TwoPlaces == {a, b}

\* Handlers and places are interchangeable.
Symmetry == Permutations(Workers) \cup Permutations(Places)
=============================================================================
