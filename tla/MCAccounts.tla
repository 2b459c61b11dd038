------------------------------ MODULE MCAccounts ------------------------------
(* A small instance of Accounts for TLC.                                   *)
EXTENDS Accounts, TLC

CONSTANTS c1, c2, u1, v1, v2, t1, k1, k2, w1, w2

TwoClients == {c1, c2}
OneUser == {u1}
TwoVehicles == {v1, v2}
OneTrip == {t1}
TwoTokens == {k1, k2}
TwoWorkers == {w1, w2}

\* No action tells one id from another of its kind.
Symmetry ==
    Permutations(Clients) \cup Permutations(Vehicles) \cup Permutations(Tokens)
    \cup Permutations(Workers)
=============================================================================
