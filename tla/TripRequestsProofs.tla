------------------------- MODULE TripRequestsProofs -------------------------
(***************************************************************************)
(* Proofs about TripRequests, for every set of requests, Trip ids and      *)
(* concurrent handlers.                                                    *)
(***************************************************************************)
EXTENDS TripRequests, TLAPS

\* Every step keeps the types.
LEMMA TypeStep == TypeOK /\ [Next]_vars => TypeOK'
<1> SUFFICES ASSUME TypeOK, [Next]_vars PROVE TypeOK'
  OBVIOUS
<1> USE DEF TypeOK, rowVars, tripVars, RowStatus, PC, Verdicts
<1>1. ASSUME NEW r \in Requests, Submit(r) PROVE TypeOK'
  BY <1>1 DEF Submit
<1>2. ASSUME NEW w \in Workers, NEW r \in Requests, ApproveRead(w, r) PROVE TypeOK'
  BY <1>2 DEF ApproveRead, Begin
<1>3. ASSUME NEW w \in Workers, NEW r \in Requests, RejectRead(w, r) PROVE TypeOK'
  BY <1>3 DEF RejectRead, Begin
<1>4. ASSUME NEW w \in Workers, NEW r \in Requests, RemoveRead(w, r) PROVE TypeOK'
  BY <1>4 DEF RemoveRead, Begin, RowExists
<1>5. ASSUME NEW w \in Workers, ApproveClaim(w) PROVE TypeOK'
  BY <1>5 DEF ApproveClaim, Goto
<1>6. ASSUME NEW w \in Workers, LoseRace(w) PROVE TypeOK'
  BY <1>6 DEF LoseRace, Finish
<1>7. ASSUME NEW w \in Workers, NEW t \in Trips, CreateTrip(w, t) PROVE TypeOK'
  BY <1>7 DEF CreateTrip, InsertTrip
<1>8. ASSUME NEW w \in Workers, NEW t \in Trips, CreateUnacknowledged(w, t) PROVE TypeOK'
  BY <1>8 DEF CreateUnacknowledged, InsertTrip, Goto
<1>9. ASSUME NEW w \in Workers, CreateFails(w) PROVE TypeOK'
  BY <1>9 DEF CreateFails, Goto
<1>10. ASSUME NEW w \in Workers, Rollback(w) PROVE TypeOK'
  BY <1>10 DEF Rollback, Finish
<1>11. ASSUME NEW w \in Workers, Link(w) PROVE TypeOK'
  BY <1>11 DEF Link, Goto
<1>12. ASSUME NEW w \in Workers, LinkMissesRow(w) PROVE TypeOK'
  BY <1>12 DEF LinkMissesRow, Finish
<1>13. ASSUME NEW w \in Workers, Announce(w) PROVE TypeOK'
  BY <1>13 DEF Announce, Finish
<1>14. ASSUME NEW w \in Workers, RejectClaim(w) PROVE TypeOK'
  BY <1>14 DEF RejectClaim, Goto
<1>15. ASSUME NEW w \in Workers, RemoveCommit(w) PROVE TypeOK'
  BY <1>15 DEF RemoveCommit, Finish
<1>16. ASSUME NEW w \in Workers, RemoveMissesRow(w) PROVE TypeOK'
  BY <1>16 DEF RemoveMissesRow, Finish
<1>17. ASSUME NEW t \in Trips, DeleteTrip(t) PROVE TypeOK'
  BY <1>17 DEF DeleteTrip
<1>18. ASSUME NEW w \in Workers, Interrupt(w) PROVE TypeOK'
  BY <1>18 DEF Interrupt, Finish
<1>19. CASE UNCHANGED vars
  BY <1>19 DEF vars
<1> QED
  BY <1>1, <1>2, <1>3, <1>4, <1>5, <1>6, <1>7, <1>8, <1>9, <1>10, <1>11, <1>12,
     <1>13, <1>14, <1>15, <1>16, <1>17, <1>18, <1>19 DEF Next, Call, Step

\* Type correctness of the workflow: every column, local variable and pc keeps
\* its range, and a handler that is running has a request (and, at the link, a
\* Trip) to work on.
THEOREM TypeCorrect == Spec => []TypeOK
<1>1. Init => TypeOK
  BY DEF Init, TypeOK, PC, RowStatus, Verdicts
<1> QED
  BY <1>1, TypeStep, PTL DEF Spec

-----------------------------------------------------------------------------
(* What holds even when the acknowledgement of an insert is lost.          *)

\* Claims are exclusive and links stand, whatever fails.
LEMMA ClaimsStep == Claims /\ [Next]_vars => Claims'
<1> SUFFICES ASSUME Claims, [Next]_vars PROVE Claims'
  OBVIOUS
<1>0. TypeOK'
  BY TypeStep DEF Claims
<1> USE TripAssumption DEF Claims, TypeOK, ClaimHeld, ClaimExclusive, Approving, rowVars, tripVars
<1>1. ASSUME NEW r \in Requests, Submit(r) PROVE Claims'
  BY <1>0, <1>1 DEF Submit
<1>2. ASSUME NEW w \in Workers, NEW r \in Requests, Call(w, r) PROVE Claims'
  BY <1>0, <1>2 DEF Call, ApproveRead, RejectRead, RemoveRead, Begin
<1>3. ASSUME NEW w \in Workers, ApproveClaim(w) PROVE Claims'
  BY <1>0, <1>3 DEF ApproveClaim, Goto
<1>4. ASSUME NEW w \in Workers, Finish(w), UNCHANGED rowVars PROVE Claims'
  BY <1>0, <1>4 DEF Finish
<1>5. ASSUME NEW w \in Workers, NEW t \in Trips, CreateTrip(w, t) PROVE Claims'
  BY <1>0, <1>5 DEF CreateTrip
<1>6. ASSUME NEW w \in Workers, CreateFails(w) PROVE Claims'
  BY <1>0, <1>6 DEF CreateFails, Goto
<1>7. ASSUME NEW w \in Workers, NEW t \in Trips, CreateUnacknowledged(w, t) PROVE Claims'
  BY <1>0, <1>7 DEF CreateUnacknowledged, Goto
<1>8. ASSUME NEW w \in Workers, Rollback(w) PROVE Claims'
  BY <1>0, <1>8 DEF Rollback, Finish
<1>9. ASSUME NEW w \in Workers, Link(w) PROVE Claims'
  BY <1>0, <1>9 DEF Link, Goto, RowExists, RowStatus
<1>10. ASSUME NEW w \in Workers, RejectClaim(w) PROVE Claims'
  BY <1>0, <1>10 DEF RejectClaim, Goto
<1>11. ASSUME NEW w \in Workers, RemoveCommit(w) PROVE Claims'
  BY <1>0, <1>11 DEF RemoveCommit, Finish
<1>12. ASSUME NEW t \in Trips, DeleteTrip(t) PROVE Claims'
  BY <1>0, <1>12 DEF DeleteTrip
<1>13. CASE UNCHANGED vars
  BY <1>0, <1>13 DEF vars
<1> QED
  BY <1>1, <1>2, <1>3, <1>4, <1>5, <1>6, <1>7, <1>8, <1>9, <1>10, <1>11, <1>12, <1>13
     DEF Next, Step, LoseRace, LinkMissesRow, Announce, RemoveMissesRow, Interrupt

LEMMA ClaimsAlways == Spec => []Claims
<1>1. Init => Claims
  BY TripAssumption
     DEF Init, Claims, TypeOK, PC, RowStatus, Verdicts, ClaimHeld, ClaimExclusive, Approving
<1> QED
  BY <1>1, ClaimsStep, PTL DEF Spec

\* Two approvals never hold the claim on one request, whatever crashes, fails or
\* is not acknowledged: the rollback reverts its own claim only.
THEOREM ClaimsAreExclusive == Spec => []ClaimExclusive
<1>1. Claims => ClaimExclusive
  BY DEF Claims
<1> QED
  BY <1>1, ClaimsAlways, PTL

\* A verdict is final, whatever crashes, fails or is not acknowledged: no step
\* reopens a rejected request or moves the link of an approved one.
THEOREM VerdictsAreFinal == Spec => VerdictFinal
<1> DEFINE Final(r) ==
      /\ status[r] = "REJECTED" => status'[r] \in {"REJECTED", "DELETED"}
      /\ tripId[r] \in Trips =>
           \/ status'[r] = "DELETED"
           \/ status'[r] = status[r] /\ tripId'[r] = tripId[r]
<1>1. Claims /\ [Next]_vars => [\A r \in Requests : Final(r)]_vars
  <2> SUFFICES ASSUME Claims, Next, NEW r \in Requests
               PROVE  Final(r)
    OBVIOUS
  <2> USE TripAssumption DEF Claims, TypeOK
  <2>1. ASSUME NEW w \in Workers, ApproveClaim(w) PROVE Final(r)
    BY <2>1 DEF ApproveClaim
  <2>2. ASSUME NEW w \in Workers, RejectClaim(w) PROVE Final(r)
    BY <2>2 DEF RejectClaim
  <2>3. ASSUME NEW w \in Workers, Rollback(w) PROVE Final(r)
    BY <2>3 DEF Rollback
  <2>4. ASSUME NEW w \in Workers, Link(w) PROVE Final(r)
    BY <2>4 DEF Link, Approving
  <2>5. ASSUME NEW w \in Workers, RemoveCommit(w) PROVE Final(r)
    BY <2>5 DEF RemoveCommit
  <2>6. ASSUME NEW q \in Requests, Submit(q) PROVE Final(r)
    BY <2>6 DEF Submit
  <2>7. CASE UNCHANGED rowVars
    BY <2>7 DEF rowVars
  <2>8. \/ \E q \in Requests : Submit(q)
        \/ \E w \in Workers : \/ ApproveClaim(w) \/ RejectClaim(w) \/ Rollback(w)
                               \/ Link(w) \/ RemoveCommit(w)
        \/ UNCHANGED rowVars
    BY DEF Next, Call, Step, ApproveRead, RejectRead, RemoveRead, LoseRace, CreateTrip,
           CreateUnacknowledged, CreateFails, LinkMissesRow, Announce, RemoveMissesRow,
           DeleteTrip, Interrupt
  <2> QED
    BY <2>1, <2>2, <2>3, <2>4, <2>5, <2>6, <2>7, <2>8
<1> QED
  BY <1>1, ClaimsAlways, PTL DEF Spec, VerdictFinal

\* Links are to the Trip the request produced, whatever fails: a new Trip gets
\* an id no other row or handler holds.
LEMMA OwnLinksStep == OwnLinks /\ [Next]_vars => OwnLinks'
<1> SUFFICES ASSUME OwnLinks, [Next]_vars PROVE OwnLinks'
  OBVIOUS
<1>0. TypeOK'
  BY TypeStep DEF OwnLinks
<1> USE RequestAssumption, TripAssumption DEF OwnLinks, TypeOK, LinkIsOwn, rowVars, tripVars
<1>1. ASSUME NEW r \in Requests, Submit(r) PROVE OwnLinks'
  BY <1>0, <1>1 DEF Submit
<1>2. ASSUME NEW w \in Workers, NEW r \in Requests, Call(w, r) PROVE OwnLinks'
  BY <1>0, <1>2 DEF Call, ApproveRead, RejectRead, RemoveRead, Begin, RowExists
<1>3. ASSUME NEW w \in Workers, ApproveClaim(w) \/ RejectClaim(w) PROVE OwnLinks'
  BY <1>0, <1>3 DEF ApproveClaim, RejectClaim, Goto
<1>4. ASSUME NEW w \in Workers, Finish(w), UNCHANGED <<tripId, madeFor>> PROVE OwnLinks'
  BY <1>0, <1>4 DEF Finish
<1>5. ASSUME NEW w \in Workers, NEW t \in Trips, CreateTrip(w, t) PROVE OwnLinks'
  BY <1>0, <1>5 DEF CreateTrip, InsertTrip
<1>6. ASSUME NEW w \in Workers, CreateFails(w) PROVE OwnLinks'
  BY <1>0, <1>6 DEF CreateFails, Goto
<1>7. ASSUME NEW w \in Workers, NEW t \in Trips, CreateUnacknowledged(w, t) PROVE OwnLinks'
  BY <1>0, <1>7 DEF CreateUnacknowledged, InsertTrip, Goto
<1>8. ASSUME NEW w \in Workers, Link(w) PROVE OwnLinks'
  BY <1>0, <1>8 DEF Link, Goto
<1>9. ASSUME NEW w \in Workers, RemoveCommit(w) PROVE OwnLinks'
  BY <1>0, <1>9 DEF RemoveCommit, Finish
<1>10. ASSUME NEW t \in Trips, DeleteTrip(t) PROVE OwnLinks'
  BY <1>0, <1>10 DEF DeleteTrip
<1>11. CASE UNCHANGED vars
  BY <1>0, <1>11 DEF vars
<1> QED
  BY <1>1, <1>2, <1>3, <1>4, <1>5, <1>6, <1>7, <1>8, <1>9, <1>10, <1>11
     DEF Next, Step, LoseRace, Rollback, LinkMissesRow, Announce, RemoveMissesRow, Interrupt

\* The cascading delete never hits the Trip of another request, however many
\* handlers interleave and fail and whatever is not acknowledged.
THEOREM LinksAreOwn == Spec => []LinkIsOwn
<1>1. Init => OwnLinks
  BY TripAssumption DEF Init, OwnLinks, TypeOK, PC, RowStatus, Verdicts, LinkIsOwn
<1>2. OwnLinks => LinkIsOwn
  BY DEF OwnLinks
<1> QED
  BY <1>1, <1>2, OwnLinksStep, PTL DEF Spec

\* Without crashes every approved request at rest is linked: each handler that
\* held its claim linked it, or gave the claim back.
THEOREM ClaimsAreSettled ==
    ASSUME Interrupts = FALSE
    PROVE  Spec => []ApprovedAtRestIsLinked
<1>1. Init => ApprovedAtRestIsLinked
  BY DEF Init, ApprovedAtRestIsLinked
<1>2. TypeOK /\ ApprovedAtRestIsLinked /\ [Next]_vars => ApprovedAtRestIsLinked'
  <2> SUFFICES ASSUME TypeOK, ApprovedAtRestIsLinked, [Next]_vars,
                      NEW r \in Requests, status'[r] = "APPROVED", Approving(r)' = {}
               PROVE  tripId'[r] \in Trips
    BY DEF ApprovedAtRestIsLinked
  <2> DEFINE Linked == tripId'[r] \in Trips
  <2> USE DEF TypeOK, ApprovedAtRestIsLinked, Approving, rowVars, tripVars
  <2>1. ASSUME NEW q \in Requests, Submit(q) PROVE Linked
    BY <2>1 DEF Submit
  <2>2. ASSUME NEW w \in Workers, NEW q \in Requests, Call(w, q) PROVE Linked
    BY <2>2 DEF Call, ApproveRead, RejectRead, RemoveRead, Begin
  <2>3. ASSUME NEW w \in Workers, ApproveClaim(w) \/ RejectClaim(w) PROVE Linked
    BY <2>3 DEF ApproveClaim, RejectClaim, Goto
  <2>4. ASSUME NEW w \in Workers, LoseRace(w) \/ RemoveMissesRow(w) PROVE Linked
    BY <2>4 DEF LoseRace, RemoveMissesRow, Finish
  <2>5. ASSUME NEW w \in Workers, Announce(w) PROVE Linked
    BY <2>5 DEF Announce, Finish
  <2>6. ASSUME NEW w \in Workers, NEW t \in Trips,
               CreateTrip(w, t) \/ CreateUnacknowledged(w, t)
        PROVE  Linked
    BY <2>6 DEF CreateTrip, CreateUnacknowledged, Goto
  <2>7. ASSUME NEW w \in Workers, CreateFails(w) PROVE Linked
    BY <2>7 DEF CreateFails, Goto
  <2>8. ASSUME NEW w \in Workers, Rollback(w) PROVE Linked
    BY <2>8, TripAssumption DEF Rollback, Finish
  <2>9. ASSUME NEW w \in Workers, Link(w) PROVE Linked
    BY <2>9 DEF Link, Goto
  <2>10. ASSUME NEW w \in Workers, LinkMissesRow(w) PROVE Linked
    BY <2>10 DEF LinkMissesRow, Finish, RowExists, RowStatus
  <2>11. ASSUME NEW w \in Workers, RemoveCommit(w) PROVE Linked
    BY <2>11 DEF RemoveCommit, Finish
  <2>12. ASSUME NEW t \in Trips, DeleteTrip(t) PROVE Linked
    BY <2>12 DEF DeleteTrip
  <2>13. CASE UNCHANGED vars
    BY <2>13 DEF vars
  <2> QED
    BY <2>1, <2>2, <2>3, <2>4, <2>5, <2>6, <2>7, <2>8, <2>9, <2>10, <2>11, <2>12, <2>13
       DEF Next, Step, Interrupt
<1> QED
  BY <1>1, <1>2, TypeCorrect, PTL DEF Spec

-----------------------------------------------------------------------------
(* The inductive invariant.                                                *)

\* The safety part of Inductive, beside the types.
Safety ==
    /\ ClaimHeld
    /\ ClaimExclusive
    /\ ClaimProduct
    /\ AtMostOneTrip
    /\ TripNeedsApproval
    /\ LinkIsOwn
    /\ ApprovalAnnounced
    /\ RejectionBarren

\* A request that is open for review is held by no approval and has no Trip, so
\* the two claims on PENDING start from a clean request.
LEMMA PendingIsClean ==
    ASSUME Inductive, NEW r \in Requests, status[r] = "PENDING"
    PROVE  /\ Approving(r) = {}
           /\ ~ProducedTrip(r)
           /\ tripId[r] = NoTrip
<1>1. Approving(r) = {}
  BY DEF Inductive, ClaimHeld, Approving
<1>2. ~ProducedTrip(r)
  BY DEF Inductive, TripNeedsApproval, ProducedTrip
<1>3. tripId[r] = NoTrip
  BY <1>2 DEF Inductive, LinkIsOwn, ProducedTrip, TypeOK
<1> QED
  BY <1>1, <1>2, <1>3

\* Winning the claim: the winner is the only holder, and it has no Trip yet.
LEMMA ClaimStep ==
    ASSUME Inductive, TypeOK', NEW w \in Workers, ApproveClaim(w)
    PROVE  Safety'
<1> DEFINE r == target[w]
<1>1. r \in Requests /\ status[r] = "PENDING" /\ pc[w] = "claim"
  BY DEF ApproveClaim, Inductive, TypeOK
<1>2. Approving(r) = {} /\ ~ProducedTrip(r) /\ tripId[r] = NoTrip
  BY <1>1, PendingIsClean
<1>3. /\ status' = [status EXCEPT ![r] = "APPROVED"]
      /\ pc' = [pc EXCEPT ![w] = "create"]
      /\ UNCHANGED <<tripId, live, madeFor, target, held, announced>>
  BY DEF ApproveClaim, Goto, tripVars
<1> USE DEF Inductive, TypeOK
<1>4. ClaimHeld' /\ TripNeedsApproval'
  BY <1>1, <1>3 DEF ClaimHeld, TripNeedsApproval
<1>5. ClaimExclusive'
  BY <1>1, <1>2, <1>3 DEF ClaimExclusive, Approving
<1>6. ClaimProduct'
  BY <1>1, <1>2, <1>3 DEF ClaimProduct, ProducedTrip
<1>7. AtMostOneTrip' /\ LinkIsOwn'
  BY <1>1, <1>3 DEF AtMostOneTrip, LinkIsOwn
<1>8. ApprovalAnnounced'
  BY <1>1, <1>3 DEF ApprovalAnnounced, ProducedTrip
<1>9. RejectionBarren'
  BY <1>1, <1>3 DEF RejectionBarren, ProducedTrip, Approving
<1> QED
  BY <1>4, <1>5, <1>6, <1>7, <1>8, <1>9 DEF Safety

\* The insert: the only holder of the claim, which had no Trip, gets one; a
\* rejected request has no holder, so it stays without.
LEMMA CreateStep ==
    ASSUME Inductive, TypeOK', NEW w \in Workers, NEW t \in Trips, CreateTrip(w, t)
    PROVE  Safety'
<1> DEFINE r == target[w]
<1>1. /\ r \in Requests
      /\ w \in Approving(r)
      /\ status[r] \in {"APPROVED", "DELETED"}
      /\ ~ProducedTrip(r)
      /\ madeFor[t] = NoRequest
  BY DEF CreateTrip, InsertTrip, Inductive, TypeOK, Approving, ClaimHeld, ClaimProduct
<1>2. /\ madeFor' = [madeFor EXCEPT ![t] = r]
      /\ pc' = [pc EXCEPT ![w] = "link"]
      /\ held' = [held EXCEPT ![w] = t]
      /\ UNCHANGED <<status, tripId, target, announced>>
  BY DEF CreateTrip, InsertTrip, rowVars
<1> USE RequestAssumption DEF Inductive, TypeOK
<1>3. ClaimHeld' /\ TripNeedsApproval'
  BY <1>1, <1>2 DEF ClaimHeld, TripNeedsApproval
<1>4. ClaimExclusive'
  BY <1>1, <1>2 DEF ClaimExclusive, Approving
<1>5. ClaimProduct'
  BY <1>1, <1>2 DEF ClaimProduct, ClaimExclusive, ProducedTrip, Approving
<1>6. AtMostOneTrip'
  BY <1>1, <1>2 DEF AtMostOneTrip, ProducedTrip
<1>7. LinkIsOwn'
  BY <1>1, <1>2 DEF LinkIsOwn, CreateTrip
<1>8. ApprovalAnnounced'
  BY <1>1, <1>2 DEF ApprovalAnnounced, ProducedTrip
<1>9. RejectionBarren'
  BY <1>1, <1>2 DEF RejectionBarren, ProducedTrip, Approving
<1> QED
  BY <1>3, <1>4, <1>5, <1>6, <1>7, <1>8, <1>9 DEF Safety

\* The rejection: the request was open, hence clean, and becomes barren.
LEMMA RejectStep ==
    ASSUME Inductive, TypeOK', NEW w \in Workers, RejectClaim(w)
    PROVE  Safety'
<1> DEFINE r == target[w]
<1>1. r \in Requests /\ status[r] = "PENDING" /\ pc[w] = "reject"
  BY DEF RejectClaim, Inductive, TypeOK
<1>2. Approving(r) = {} /\ ~ProducedTrip(r)
  BY <1>1, PendingIsClean
<1>3. /\ status' = [status EXCEPT ![r] = "REJECTED"]
      /\ pc' = [pc EXCEPT ![w] = "announceRejected"]
      /\ UNCHANGED <<tripId, live, madeFor, target, held, announced>>
  BY DEF RejectClaim, Goto, tripVars
<1> USE DEF Inductive, TypeOK
<1>4. ClaimHeld' /\ ClaimExclusive' /\ ClaimProduct'
  BY <1>1, <1>2, <1>3 DEF ClaimHeld, ClaimExclusive, ClaimProduct, Approving, ProducedTrip
<1>5. AtMostOneTrip' /\ TripNeedsApproval' /\ LinkIsOwn'
  BY <1>1, <1>2, <1>3 DEF AtMostOneTrip, TripNeedsApproval, LinkIsOwn, ProducedTrip
<1>6. ApprovalAnnounced' /\ RejectionBarren'
  BY <1>1, <1>2, <1>3 DEF ApprovalAnnounced, RejectionBarren, ProducedTrip, Approving
<1> QED
  BY <1>4, <1>5, <1>6 DEF Safety

\* The rollback: it reverts the claim of the only holder, which has no Trip.
LEMMA RollbackStep ==
    ASSUME Inductive, TypeOK', NEW w \in Workers, Rollback(w)
    PROVE  Safety'
<1> DEFINE r == target[w]
<1>1. r \in Requests /\ w \in Approving(r) /\ ~ProducedTrip(r)
  BY DEF Rollback, Inductive, TypeOK, Approving, ClaimProduct
<1>2. Approving(r) = {w}
  BY <1>1 DEF Inductive, ClaimExclusive
<1>3. /\ \A q \in Requests : status'[q] # status[q] =>
            q = r /\ status[q] = "APPROVED" /\ status'[q] = "PENDING"
      /\ pc' = [pc EXCEPT ![w] = "idle"]
      /\ target' = [target EXCEPT ![w] = NoRequest]
      /\ held' = [held EXCEPT ![w] = NoTrip]
      /\ UNCHANGED <<tripId, live, madeFor, announced>>
  BY <1>1 DEF Rollback, Finish, tripVars, Inductive, TypeOK
<1> USE RequestAssumption DEF Inductive, TypeOK
<1>4. ClaimHeld' /\ ClaimExclusive' /\ ClaimProduct'
  BY <1>2, <1>3 DEF ClaimHeld, ClaimExclusive, ClaimProduct, Approving, ProducedTrip
<1>5. AtMostOneTrip' /\ TripNeedsApproval' /\ LinkIsOwn'
  BY <1>1, <1>3 DEF AtMostOneTrip, TripNeedsApproval, LinkIsOwn, ProducedTrip
<1>6. ApprovalAnnounced' /\ RejectionBarren'
  BY <1>1, <1>2, <1>3 DEF ApprovalAnnounced, RejectionBarren, ProducedTrip, Approving
<1> QED
  BY <1>4, <1>5, <1>6 DEF Safety

\* The delete moves the row out of every condition on its status.
LEMMA RemoveStep ==
    ASSUME Inductive, TypeOK', NEW w \in Workers, RemoveCommit(w)
    PROVE  Safety'
<1> DEFINE r == target[w]
<1>1. r \in Requests /\ pc[w] = "remove"
  BY DEF RemoveCommit, Inductive, TypeOK
<1>2. /\ status' = [status EXCEPT ![r] = "DELETED"]
      /\ tripId' = [tripId EXCEPT ![r] = NoTrip]
      /\ pc' = [pc EXCEPT ![w] = "idle"]
      /\ target' = [target EXCEPT ![w] = NoRequest]
      /\ held' = [held EXCEPT ![w] = NoTrip]
      /\ UNCHANGED <<madeFor, announced>>
  BY DEF RemoveCommit, Finish
<1> USE RequestAssumption, TripAssumption DEF Inductive, TypeOK
<1>3. ClaimHeld' /\ ClaimExclusive' /\ ClaimProduct'
  BY <1>1, <1>2 DEF ClaimHeld, ClaimExclusive, ClaimProduct, Approving, ProducedTrip
<1>4. AtMostOneTrip' /\ TripNeedsApproval' /\ LinkIsOwn'
  BY <1>1, <1>2 DEF AtMostOneTrip, TripNeedsApproval, LinkIsOwn
<1>5. ApprovalAnnounced' /\ RejectionBarren'
  BY <1>1, <1>2 DEF ApprovalAnnounced, RejectionBarren, ProducedTrip, Approving
<1> QED
  BY <1>3, <1>4, <1>5 DEF Safety

\* Every step keeps the inductive invariant, when no acknowledgement is lost:
\* the writes above, and steps that move a handler without touching a verdict.
LEMMA InductiveStep ==
    ASSUME AckLost = FALSE, Inductive, [Next]_vars
    PROVE Inductive'
<1>0. TypeOK'
  BY TypeStep DEF Inductive
<1>5. ASSUME NEW w \in Workers, ApproveClaim(w) PROVE Safety'
  BY <1>0, <1>5, ClaimStep
<1>7. ASSUME NEW w \in Workers, NEW t \in Trips, CreateTrip(w, t) PROVE Safety'
  BY <1>0, <1>7, CreateStep
<1>10. ASSUME NEW w \in Workers, Rollback(w) PROVE Safety'
  BY <1>0, <1>10, RollbackStep
<1>14. ASSUME NEW w \in Workers, RejectClaim(w) PROVE Safety'
  BY <1>0, <1>14, RejectStep
<1>15. ASSUME NEW w \in Workers, RemoveCommit(w) PROVE Safety'
  BY <1>0, <1>15, RemoveStep
<1> USE RequestAssumption, TripAssumption
        DEF Inductive, Safety, TypeOK, rowVars, tripVars, ProducedTrip, Approving,
            ClaimHeld, ClaimExclusive, ClaimProduct, AtMostOneTrip,
            TripNeedsApproval, LinkIsOwn, ApprovalAnnounced, RejectionBarren
<1>1. ASSUME NEW r \in Requests, Submit(r) PROVE Safety'
  BY <1>1 DEF Submit
<1>2. ASSUME NEW w \in Workers, NEW r \in Requests, ApproveRead(w, r) PROVE Safety'
  BY <1>2 DEF ApproveRead, Begin
<1>3. ASSUME NEW w \in Workers, NEW r \in Requests, RejectRead(w, r) PROVE Safety'
  BY <1>3 DEF RejectRead, Begin
<1>4. ASSUME NEW w \in Workers, NEW r \in Requests, RemoveRead(w, r) PROVE Safety'
  BY <1>4 DEF RemoveRead, Begin, RowExists
<1>6. ASSUME NEW w \in Workers, LoseRace(w) PROVE Safety'
  BY <1>6 DEF LoseRace, Finish
<1>8. ASSUME NEW w \in Workers, NEW t \in Trips, CreateUnacknowledged(w, t) PROVE Safety'
  BY <1>8 DEF CreateUnacknowledged
<1>9. ASSUME NEW w \in Workers, CreateFails(w) PROVE Safety'
  BY <1>9 DEF CreateFails, Goto
<1>11. ASSUME NEW w \in Workers, Link(w) PROVE Safety'
  BY <1>11 DEF Link, Goto, RowExists
<1>12. ASSUME NEW w \in Workers, LinkMissesRow(w) PROVE Safety'
  BY <1>12 DEF LinkMissesRow, Finish
<1>13. ASSUME NEW w \in Workers, Announce(w) PROVE Safety'
  BY <1>13 DEF Announce, Finish, Verdicts
<1>16. ASSUME NEW w \in Workers, RemoveMissesRow(w) PROVE Safety'
  BY <1>16 DEF RemoveMissesRow, Finish
<1>17. ASSUME NEW t \in Trips, DeleteTrip(t) PROVE Safety'
  BY <1>17 DEF DeleteTrip
<1>18. ASSUME NEW w \in Workers, Interrupt(w) PROVE Safety'
  BY <1>18 DEF Interrupt, Finish
<1>19. CASE UNCHANGED vars
  BY <1>19 DEF vars
<1> QED
  BY <1>0, <1>1, <1>2, <1>3, <1>4, <1>5, <1>6, <1>7, <1>8, <1>9, <1>10, <1>11, <1>12,
      <1>13, <1>14, <1>15, <1>16, <1>17, <1>18, <1>19
     DEF Next, Call, Step

\* For every number of requests and of handlers that interleave, crash and fail:
\* no claim is held twice, no request produces two Trips, no rejected or open
\* request has a Trip, and a link names the request's own Trip.
THEOREM InductiveInvariant ==
    ASSUME AckLost = FALSE
    PROVE  Spec => []Inductive
<1>1. Init => Inductive
  BY RequestAssumption, TripAssumption
     DEF Init, Inductive, TypeOK, PC, RowStatus, Verdicts, ProducedTrip, Approving,
         ClaimHeld, ClaimExclusive, ClaimProduct, AtMostOneTrip,
         TripNeedsApproval, LinkIsOwn, ApprovalAnnounced, RejectionBarren
<1>2. Inductive /\ [Next]_vars => Inductive'
  BY InductiveStep
<1> QED
  BY <1>1, <1>2, PTL DEF Spec

\* The duplicate-Trip guard of approve(): one request never produces two Trips.
THEOREM NoDuplicateTrip ==
    ASSUME AckLost = FALSE
    PROVE  Spec => []AtMostOneTrip
<1>1. Inductive => AtMostOneTrip
  BY DEF Inductive
<1> QED
  BY <1>1, InductiveInvariant, PTL

\* A Trip produced by a request never belongs to an open or rejected request.
THEOREM NoTripWithoutApproval ==
    ASSUME AckLost = FALSE
    PROVE  Spec => []TripNeedsApproval
<1>1. Inductive => TripNeedsApproval
  BY DEF Inductive
<1> QED
  BY <1>1, InductiveInvariant, PTL

\* Racing reviewers never tell the client two different verdicts.
THEOREM NoContradictoryVerdicts ==
    ASSUME AckLost = FALSE
    PROVE  Spec => []OneVerdictAnnounced
<1>1. Inductive => OneVerdictAnnounced
  <2> SUFFICES ASSUME Inductive,
                      NEW a \in announced, NEW b \in announced,
                      a.request = b.request, a.verdict = "APPROVED", b.verdict = "REJECTED"
               PROVE  FALSE
    BY DEF OneVerdictAnnounced, Inductive, TypeOK, Verdicts
  <2>1. /\ a.request \in Requests
        /\ a = [request |-> a.request, verdict |-> "APPROVED"]
        /\ b = [request |-> a.request, verdict |-> "REJECTED"]
    BY DEF Inductive, TypeOK, Verdicts
  <2> QED
    BY <2>1 DEF Inductive, ApprovalAnnounced, RejectionBarren
<1> QED
  BY <1>1, InductiveInvariant, PTL

-----------------------------------------------------------------------------
(* Refinement of the ledger.                                               *)

\* Every behaviour of the handlers is a behaviour of the ledger: each statement
\* is one decision of the ledger or a stutter.
THEOREM Implementation ==
    ASSUME AckLost = FALSE
    PROVE  Spec => RefinesLedger
<1> DEFINE dec == [r \in Requests |-> Decision(r)]
<1>1. Init => Ledger!Init
  BY RequestAssumption DEF Init, Ledger!Init, Decision, ProducedTrip
<1>2. Inductive /\ [Next]_vars => [Ledger!Next]_(Ledger!ledgerVars)
  <2> SUFFICES ASSUME Inductive, [Next]_vars
               PROVE  [Ledger!Next]_(Ledger!ledgerVars)
    OBVIOUS
  <2> DEFINE Simulated == [Ledger!Next]_(Ledger!ledgerVars)
  \* The insert is the step that accepts, held or abandoned, its request.
  <2>7. ASSUME NEW w \in Workers, NEW t \in Trips, CreateTrip(w, t) PROVE Simulated
    <3>0. PICK r \in Requests : r = target[w]
      BY <2>7 DEF CreateTrip, Inductive, TypeOK
    <3>1. /\ r \in Requests /\ ~ProducedTrip(r) /\ Creating(r)
          /\ status[r] \in {"APPROVED", "DELETED"}
      BY <2>7, <3>0 DEF CreateTrip, Inductive, TypeOK, ClaimProduct, ClaimHeld, Creating
    <3>2. dec[r] \in {"held", "abandoned"}
      BY <3>1 DEF Decision
    <3>3. /\ madeFor[t] = NoRequest
          /\ madeFor' = [madeFor EXCEPT ![t] = r]
          /\ status' = status
      BY <2>7, <3>0 DEF CreateTrip, InsertTrip, rowVars
    <3>4. ProducedTrip(r)' /\ \A q \in Requests \ {r} : ProducedTrip(q)' <=> ProducedTrip(q)
      BY <3>1, <3>3, RequestAssumption DEF ProducedTrip, Inductive, TypeOK
    <3>5. \A q \in Requests \ {r} : Creating(q)' <=> Creating(q)
      BY <2>7, <3>0 DEF CreateTrip, Creating, Inductive, TypeOK
    <3>6. Decision(r)' = "accepted"
      BY <3>3, <3>4 DEF Decision
    <3>7. \A q \in Requests \ {r} : Decision(q)' = Decision(q)
      <4> SUFFICES ASSUME NEW q \in Requests \ {r}
                   PROVE  Decision(q)' = Decision(q)
        OBVIOUS
      <4>1. /\ ProducedTrip(q)' <=> ProducedTrip(q)
            /\ Creating(q)' <=> Creating(q)
            /\ status'[q] = status[q]
        BY <3>3, <3>4, <3>5
      <4> QED
        BY <4>1 DEF Decision, ProducedTrip, Creating
    <3>8. dec' = [dec EXCEPT ![r] = "accepted"]
      <4>1. dec' = [q \in Requests |-> Decision(q)']
        OBVIOUS
      <4> QED
        BY <3>1, <3>6, <3>7, <4>1
    <3> QED
      BY <3>1, <3>2, <3>3, <3>8 DEF Ledger!Next, Ledger!Accept, Ledger!Decide
  <2>8. ASSUME NEW w \in Workers, NEW t \in Trips, CreateUnacknowledged(w, t) PROVE Simulated
    BY <2>8 DEF CreateUnacknowledged
  <2> USE DEF Inductive, TypeOK, rowVars, tripVars, Decision, ProducedTrip, Creating,
              Ledger!ledgerVars, Ledger!Next, Ledger!Decide
  <2>1. ASSUME NEW r \in Requests, Submit(r) PROVE Simulated
    BY <2>1 DEF Submit, Ledger!Submit
  <2>2. ASSUME NEW w \in Workers, NEW r \in Requests, ApproveRead(w, r) PROVE Simulated
    BY <2>2 DEF ApproveRead, Begin
  <2>3. ASSUME NEW w \in Workers, NEW r \in Requests, RejectRead(w, r) PROVE Simulated
    BY <2>3 DEF RejectRead, Begin
  <2>4. ASSUME NEW w \in Workers, NEW r \in Requests, RemoveRead(w, r) PROVE Simulated
    BY <2>4 DEF RemoveRead, Begin
  <2>5. ASSUME NEW w \in Workers, ApproveClaim(w) PROVE Simulated
    BY <2>5, PendingIsClean DEF ApproveClaim, Goto, Ledger!Hold
  <2>6. ASSUME NEW w \in Workers, LoseRace(w) PROVE Simulated
    BY <2>6 DEF LoseRace, Finish
  <2>9. ASSUME NEW w \in Workers, CreateFails(w) PROVE Simulated
    BY <2>9 DEF CreateFails, Goto, ClaimExclusive, Approving, Ledger!GiveUp
  <2>10. ASSUME NEW w \in Workers, Rollback(w) PROVE Simulated
    BY <2>10 DEF Rollback, Finish, ClaimHeld, ClaimProduct, Ledger!Release
  <2>11. ASSUME NEW w \in Workers, Link(w) PROVE Simulated
    BY <2>11 DEF Link, Goto, RowExists
  <2>12. ASSUME NEW w \in Workers, LinkMissesRow(w) PROVE Simulated
    BY <2>12 DEF LinkMissesRow, Finish
  <2>13. ASSUME NEW w \in Workers, Announce(w) PROVE Simulated
    BY <2>13 DEF Announce, Finish
  <2>14. ASSUME NEW w \in Workers, RejectClaim(w) PROVE Simulated
    BY <2>14, PendingIsClean DEF RejectClaim, Goto, Ledger!Refuse
  <2>15. ASSUME NEW w \in Workers, RemoveCommit(w) PROVE Simulated
    BY <2>15 DEF RemoveCommit, Finish, RowExists, RowStatus, Ledger!Withdraw, Ledger!WithdrawHeld
  <2>16. ASSUME NEW w \in Workers, RemoveMissesRow(w) PROVE Simulated
    BY <2>16 DEF RemoveMissesRow, Finish
  <2>17. ASSUME NEW t \in Trips, DeleteTrip(t) PROVE Simulated
    BY <2>17 DEF DeleteTrip
  <2>18. ASSUME NEW w \in Workers, Interrupt(w) PROVE Simulated
    BY <2>18 DEF Interrupt, Finish, ClaimExclusive, Approving, Ledger!GiveUp
  <2>19. CASE UNCHANGED vars
    BY <2>19 DEF vars
  <2> QED
    BY <2>1, <2>2, <2>3, <2>4, <2>5, <2>6, <2>7, <2>8, <2>9, <2>10, <2>11, <2>12,
       <2>13, <2>14, <2>15, <2>16, <2>17, <2>18, <2>19
       DEF Next, Call, Step
<1> QED
  BY <1>1, <1>2, InductiveInvariant, PTL DEF Spec, RefinesLedger, Ledger!Spec
=============================================================================
