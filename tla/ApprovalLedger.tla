--------------------------- MODULE ApprovalLedger ---------------------------
(***************************************************************************)
(* What the trip-request workflow promises, without its handlers: every    *)
(* request has one decision, and the Trip it produces appears in the very  *)
(* step that accepts it.                                                   *)
(***************************************************************************)
CONSTANTS Requests, Trips, NoRequest

VARIABLES
    decision,   \* per request: where its review stands
    madeFor     \* per Trip: the request that produced it

ledgerVars == <<decision, madeFor>>

Decide(r, from, to) ==
    /\ decision[r] \in from
    /\ decision' = [decision EXCEPT ![r] = to]

Init ==
    /\ decision = [r \in Requests |-> "none"]
    /\ madeFor = [t \in Trips |-> NoRequest]

\* The client submits; an approver takes hold of the open request or lets go
\* of it again without a Trip; a reviewer refuses it.
Submit(r) == Decide(r, {"none"}, "open") /\ UNCHANGED madeFor
Hold(r) == Decide(r, {"open"}, "held") /\ UNCHANGED madeFor
Release(r) == Decide(r, {"held"}, "open") /\ UNCHANGED madeFor
Refuse(r) == Decide(r, {"open"}, "refused") /\ UNCHANGED madeFor

\* The request is deleted before it produced anything; a holder that is still
\* creating the Trip does not notice.
Withdraw(r) == Decide(r, {"open", "held", "refused"}, "gone") /\ UNCHANGED madeFor
WithdrawHeld(r) == Decide(r, {"held"}, "abandoned") /\ UNCHANGED madeFor
GiveUp(r) == Decide(r, {"abandoned"}, "gone") /\ UNCHANGED madeFor

\* The only step that produces a Trip, and it produces exactly one.
Accept(r, t) ==
    /\ Decide(r, {"held", "abandoned"}, "accepted")
    /\ madeFor[t] = NoRequest
    /\ madeFor' = [madeFor EXCEPT ![t] = r]

Next ==
    \E r \in Requests :
        \/ Submit(r) \/ Hold(r) \/ Release(r) \/ Refuse(r)
        \/ Withdraw(r) \/ WithdrawHeld(r) \/ GiveUp(r)
        \/ \E t \in Trips : Accept(r, t)

Spec == Init /\ [][Next]_ledgerVars
=============================================================================
