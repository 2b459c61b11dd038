--------------------------- MODULE MCGpsIntegration ---------------------------
(* A small instance of GpsIntegration for TLC.                             *)
EXTENDS GpsIntegration

CONSTANTS AIROTRACK, TRANSIGHT

OnlyTransight == {TRANSIGHT}
SmallIntervals == {1, 2}

Dto(active, credential, poll) == [active |-> active, credential |-> credential, poll |-> poll]
\* A shorter interval, and switching the provider off.
SmallEdits == {Dto(TRUE, FALSE, 1), Dto(FALSE, TRUE, 2)}
=============================================================================
