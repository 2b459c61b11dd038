---------------------------- MODULE MCEtaMonitor ----------------------------
(* A small instance of EtaMonitor for TLC.                                 *)
EXTENDS EtaMonitor, TLC

CONSTANTS s1, s2

TwoScans == {s1, s2}

\* With a deadline of 4 and a threshold of 2 minutes these travel times give
\* arrivals before, at and after the deadline, and drifts below, at and above
\* the threshold in both directions.
TravelTimes == {1, 2, 4}

\* The database rows do not tell one scan from another.
Symmetry == Permutations(Scans)
=============================================================================
