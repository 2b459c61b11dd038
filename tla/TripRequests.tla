---------------------------- MODULE TripRequests ----------------------------
(***************************************************************************)
(* The trip-request workflow: a CLIENT submits a request, an ADMIN         *)
(* approves or rejects it, either side may delete it, and an approved      *)
(* request produces a Trip through TripsService.create().                  *)
(*                                                                         *)
(* Every handler is an async function: between two awaits on the database  *)
(* any other handler may run.  A "worker" is one running invocation of a   *)
(* handler; pc[w] names the statement it will execute next, target[w] the  *)
(* request it works on and held[w] the Trip id it keeps in a local         *)
(* variable across an await.                                               *)
(*                                                                         *)
(* Abstracted: the payload of a request, the driver typed at approval, the *)
(* ownership and overlap checks inside TripsService.create() (the create   *)
(* may always fail), and the reviewer metadata written with a verdict.     *)
(***************************************************************************)


CONSTANTS
    Requests,    \* ids a TripRequest row may get (a cuid is never reused)
    Trips,       \* ids a Trip row may get (a cuid is never reused)
    Workers,     \* concurrently running handler invocations
    NoRequest,   \* "no request": the Trip id was not handed out yet
    NoTrip,      \* a null tripId
    Interrupts,  \* TRUE: a handler may die between two awaits (crash, DB error)
    AckLost      \* TRUE: the insert of a Trip may commit and still report an error

ASSUME RequestAssumption == NoRequest \notin Requests
ASSUME TripAssumption == NoTrip \notin Trips
ASSUME FaultAssumption == Interrupts \in BOOLEAN /\ AckLost \in BOOLEAN

VARIABLES
    status,      \* request row: "NONE" before the insert, "DELETED" after the delete
    tripId,      \* request row: the tripId column (no foreign key)
    live,        \* Trip rows in the database
    madeFor,     \* history: the request whose approval inserted the Trip
    pc,          \* per worker: the next statement
    target,      \* per worker: the request it was called for
    held,        \* per worker: the Trip id in its local variable
    announced    \* verdict notifications stored for the requesting client

rowVars == <<status, tripId>>
tripVars == <<live, madeFor>>
vars == <<status, tripId, live, madeFor, pc, target, held, announced>>

RowStatus == {"PENDING", "APPROVED", "REJECTED"}
PC == {"idle", "claim", "create", "rollback", "link", "announceApproved",
       "reject", "announceRejected", "remove"}
Verdicts == [request : Requests, verdict : {"APPROVED", "REJECTED"}]

TypeOK ==
    /\ status \in [Requests -> RowStatus \cup {"NONE", "DELETED"}]
    /\ tripId \in [Requests -> Trips \cup {NoTrip}]
    /\ live \in SUBSET Trips
    /\ madeFor \in [Trips -> Requests \cup {NoRequest}]
    /\ pc \in [Workers -> PC]
    /\ target \in [Workers -> Requests \cup {NoRequest}]
    /\ held \in [Workers -> Trips \cup {NoTrip}]
    /\ announced \in SUBSET Verdicts
    /\ \A w \in Workers : pc[w] # "idle" => target[w] \in Requests
    /\ \A w \in Workers : pc[w] = "link" => held[w] \in Trips

Init ==
    /\ status = [r \in Requests |-> "NONE"]
    /\ tripId = [r \in Requests |-> NoTrip]
    /\ live = {}
    /\ madeFor = [t \in Trips |-> NoRequest]
    /\ pc = [w \in Workers |-> "idle"]
    /\ target = [w \in Workers |-> NoRequest]
    /\ held = [w \in Workers |-> NoTrip]
    /\ announced = {}

-----------------------------------------------------------------------------
(* Handlers as sequences of statements.                                    *)

RowExists(r) == status[r] \in RowStatus

\* A handler starts on request r: its first statement has read the row.
Begin(w, r, next, trip) ==
    /\ pc[w] = "idle"
    /\ pc' = [pc EXCEPT ![w] = next]
    /\ target' = [target EXCEPT ![w] = r]
    /\ held' = [held EXCEPT ![w] = trip]

Goto(w, next) ==
    /\ pc' = [pc EXCEPT ![w] = next]
    /\ UNCHANGED <<target, held>>

\* The handler returns or throws; its local variables are gone.
Finish(w) ==
    /\ pc' = [pc EXCEPT ![w] = "idle"]
    /\ target' = [target EXCEPT ![w] = NoRequest]
    /\ held' = [held EXCEPT ![w] = NoTrip]

-----------------------------------------------------------------------------
(* TripRequestsService.create                                              *)

Submit(r) ==
    /\ status[r] = "NONE"
    /\ status' = [status EXCEPT ![r] = "PENDING"]
    /\ UNCHANGED <<tripId, tripVars, pc, target, held, announced>>

-----------------------------------------------------------------------------
(* TripRequestsService.approve                                             *)

\* findUnique and the fast 409 for a request that was reviewed already.
ApproveRead(w, r) ==
    /\ status[r] = "PENDING"
    /\ Begin(w, r, "claim", NoTrip)
    /\ UNCHANGED <<rowVars, tripVars, announced>>

\* Mutant: the claim is an update by id, without the status in its WHERE.
ApproveClaimById(w) ==
    /\ pc[w] = "claim"
    /\ RowExists(target[w])
    /\ status' = [status EXCEPT ![target[w]] = "APPROVED"]
    /\ Goto(w, "create")
    /\ UNCHANGED <<tripId, tripVars, announced>>

\* updateMany gated on status PENDING: count is 1.
ApproveClaim(w) ==
    /\ pc[w] = "claim"
    /\ status[target[w]] = "PENDING"
    /\ status' = [status EXCEPT ![target[w]] = "APPROVED"]
    /\ Goto(w, "create")
    /\ UNCHANGED <<tripId, tripVars, announced>>

\* Mutant: the count of the claim is not looked at.
LoseRaceProceeds(w) ==
    /\ pc[w] \in {"claim", "reject"}
    /\ status[target[w]] # "PENDING"
    /\ IF pc[w] = "claim" THEN Goto(w, "create") ELSE Finish(w)
    /\ UNCHANGED <<rowVars, tripVars, announced>>

\* updateMany gated on status PENDING: count is 0, the caller gets a 409.
LoseRace(w) ==
    /\ pc[w] \in {"claim", "reject"}
    /\ status[target[w]] # "PENDING"
    /\ Finish(w)
    /\ UNCHANGED <<rowVars, tripVars, announced>>

InsertTrip(t, r) ==
    /\ madeFor[t] = NoRequest
    /\ madeFor' = [madeFor EXCEPT ![t] = r]
    /\ live' = live \cup {t}

CreateTrip(w, t) ==
    /\ pc[w] = "create"
    /\ InsertTrip(t, target[w])
    /\ pc' = [pc EXCEPT ![w] = "link"]
    /\ held' = [held EXCEPT ![w] = t]
    /\ UNCHANGED <<rowVars, target, announced>>

\* Mutant: the error of create() is rethrown without the rollback.
CreateFailsNoRollback(w) ==
    /\ pc[w] = "create"
    /\ Finish(w)
    /\ UNCHANGED <<rowVars, tripVars, announced>>

\* An ownership or overlap check, a taken reference or the insert fails.
CreateFails(w) ==
    /\ pc[w] = "create"
    /\ Goto(w, "rollback")
    /\ UNCHANGED <<rowVars, tripVars, announced>>

\* The insert commits but its acknowledgement is lost, so create() throws.
CreateUnacknowledged(w, t) ==
    /\ AckLost
    /\ pc[w] = "create"
    /\ InsertTrip(t, target[w])
    /\ Goto(w, "rollback")
    /\ UNCHANGED <<rowVars, announced>>

\* updateMany gated on APPROVED and a null tripId; then the error is rethrown.
Rollback(w) ==
    /\ pc[w] = "rollback"
    /\ LET r == target[w] IN
         status' = IF status[r] = "APPROVED" /\ tripId[r] = NoTrip
                   THEN [status EXCEPT ![r] = "PENDING"]
                   ELSE status
    /\ Finish(w)
    /\ UNCHANGED <<tripId, tripVars, announced>>

\* Mutant: the link is looked up (any Trip row) instead of taken from create().
LinkLookedUp(w) ==
    /\ pc[w] = "link"
    /\ RowExists(target[w])
    /\ \E t \in live : tripId' = [tripId EXCEPT ![target[w]] = t]
    /\ Goto(w, "announceApproved")
    /\ UNCHANGED <<status, tripVars, announced>>

\* Mutant: the review metadata is written without the tripId.
LinkForgetsTrip(w) ==
    /\ pc[w] = "link"
    /\ RowExists(target[w])
    /\ Goto(w, "announceApproved")
    /\ UNCHANGED <<rowVars, tripVars, announced>>

\* update where id: writes the link, not the status.
Link(w) ==
    /\ pc[w] = "link"
    /\ RowExists(target[w])
    /\ tripId' = [tripId EXCEPT ![target[w]] = held[w]]
    /\ Goto(w, "announceApproved")
    /\ UNCHANGED <<status, tripVars, announced>>

\* update where id on a row deleted in the meantime throws.
LinkMissesRow(w) ==
    /\ pc[w] = "link"
    /\ ~RowExists(target[w])
    /\ Finish(w)
    /\ UNCHANGED <<rowVars, tripVars, announced>>

\* NotificationsService.create never throws: the row is stored or dropped.
Announce(w) ==
    /\ \E verdict \in {"APPROVED", "REJECTED"} :
         /\ pc[w] = IF verdict = "APPROVED" THEN "announceApproved"
                                            ELSE "announceRejected"
         /\ \/ announced' = announced \cup
                              {[request |-> target[w], verdict |-> verdict]}
            \/ UNCHANGED announced
    /\ Finish(w)
    /\ UNCHANGED <<rowVars, tripVars>>

-----------------------------------------------------------------------------
(* TripRequestsService.reject                                              *)

RejectRead(w, r) ==
    /\ status[r] = "PENDING"
    /\ Begin(w, r, "reject", NoTrip)
    /\ UNCHANGED <<rowVars, tripVars, announced>>

\* Mutant: the rejection is an update by id, without the status in its WHERE.
RejectClaimById(w) ==
    /\ pc[w] = "reject"
    /\ RowExists(target[w])
    /\ status' = [status EXCEPT ![target[w]] = "REJECTED"]
    /\ Goto(w, "announceRejected")
    /\ UNCHANGED <<tripId, tripVars, announced>>

RejectClaim(w) ==
    /\ pc[w] = "reject"
    /\ status[target[w]] = "PENDING"
    /\ status' = [status EXCEPT ![target[w]] = "REJECTED"]
    /\ Goto(w, "announceRejected")
    /\ UNCHANGED <<tripId, tripVars, announced>>

-----------------------------------------------------------------------------
(* TripRequestsService.remove and TripsService.remove                      *)

\* findUnique: the tripId that the transaction will use is read here.
RemoveRead(w, r) ==
    /\ RowExists(r)
    /\ Begin(w, r, "remove", tripId[r])
    /\ UNCHANGED <<rowVars, tripVars, announced>>

\* $transaction: deleteMany of the Trip read before, delete of the request.
RemoveCommit(w) ==
    /\ pc[w] = "remove"
    /\ RowExists(target[w])
    /\ live' = live \ {held[w]}
    /\ status' = [status EXCEPT ![target[w]] = "DELETED"]
    /\ tripId' = [tripId EXCEPT ![target[w]] = NoTrip]
    /\ Finish(w)
    /\ UNCHANGED <<madeFor, announced>>

\* The request is gone: delete throws and the transaction is rolled back.
RemoveMissesRow(w) ==
    /\ pc[w] = "remove"
    /\ ~RowExists(target[w])
    /\ Finish(w)
    /\ UNCHANGED <<rowVars, tripVars, announced>>

\* DELETE /trips/:id leaves the request's tripId dangling.
DeleteTrip(t) ==
    /\ t \in live
    /\ live' = live \ {t}
    /\ UNCHANGED <<rowVars, madeFor, pc, target, held, announced>>

-----------------------------------------------------------------------------
(* The process dies, or the statement fails in the database, so the rest   *)
(* of the handler never runs.                                              *)
Interrupt(w) ==
    /\ Interrupts
    /\ pc[w] # "idle"
    /\ Finish(w)
    /\ UNCHANGED <<rowVars, tripVars, announced>>

Call(w, r) == ApproveRead(w, r) \/ RejectRead(w, r) \/ RemoveRead(w, r)

Step(w) ==
    \/ ApproveClaim(w)
    \/ LoseRace(w)
    \/ \E t \in Trips : CreateTrip(w, t) \/ CreateUnacknowledged(w, t)
    \/ CreateFails(w)
    \/ Rollback(w)
    \/ Link(w)
    \/ LinkMissesRow(w)
    \/ Announce(w)
    \/ RejectClaim(w)
    \/ RemoveCommit(w)
    \/ RemoveMissesRow(w)

Next ==
    \/ \E r \in Requests : Submit(r)
    \/ \E w \in Workers, r \in Requests : Call(w, r)
    \/ \E w \in Workers : Step(w)
    \/ \E t \in Trips : DeleteTrip(t)
    \/ \E w \in Workers : Interrupt(w)

Spec == Init /\ [][Next]_vars

\* The event loop resumes a handler whose statement was answered; nobody is
\* obliged to submit, review or delete anything.
FairSpec == Spec /\ \A w \in Workers : WF_vars(Step(w))

-----------------------------------------------------------------------------
(* Properties.                                                             *)

\* The approvals of r that won the claim and did not end yet.
Approving(r) ==
    {w \in Workers : target[w] = r /\ pc[w] \in {"create", "rollback", "link"}}

ProducedTrip(r) == \E t \in Trips : madeFor[t] = r

\* Two approvals never hold the claim on one request at the same time, so the
\* rollback of trip-requests.service.ts:197 can only revert its own claim.
ClaimExclusive ==
    \A r \in Requests : \A w1, w2 \in Approving(r) : w1 = w2

\* However many approvals, rejections, deletions and crashes interleave, one
\* request produces at most one Trip in its whole life (the duplicate-Trip
\* guard of approve()).
AtMostOneTrip ==
    \A t1, t2 \in Trips :
        madeFor[t1] = madeFor[t2] /\ madeFor[t1] \in Requests => t1 = t2

\* A Trip produced by a request belongs to an approved (or deleted) request:
\* approve() never leaves a Trip behind a request that can be reviewed again.
TripNeedsApproval ==
    \A t \in Trips :
        madeFor[t] \in Requests =>
            status[madeFor[t]] \in {"APPROVED", "DELETED"}

\* The tripId column only ever names the Trip this very request produced, so
\* the cascading delete of remove() cannot hit somebody else's Trip.
LinkIsOwn ==
    /\ \A r \in Requests : tripId[r] \in Trips => madeFor[tripId[r]] = r
    /\ \A w \in Workers :
          pc[w] = "remove" /\ held[w] \in Trips => madeFor[held[w]] = target[w]

\* The client is never told both that its request was approved and that it
\* was rejected, whichever reviewers race.
OneVerdictAnnounced ==
    \A a, b \in announced : a.request = b.request => a.verdict = b.verdict

\* A verdict is final: a rejected request stays rejected and a linked one keeps
\* status and link until the row is deleted (no step, the rollback of another
\* approval included, reopens it).
VerdictFinal ==
    [][\A r \in Requests :
         /\ status[r] = "REJECTED" => status'[r] \in {"REJECTED", "DELETED"}
         /\ tripId[r] \in Trips =>
              \/ status'[r] = "DELETED"
              \/ status'[r] = status[r] /\ tripId'[r] = tripId[r]]_vars

\* With no approval of it running, an approved request is linked to its Trip
\* (approve() rolled every other claim back).
ApprovedAtRestIsLinked ==
    \A r \in Requests :
        status[r] = "APPROVED" /\ Approving(r) = {} => tripId[r] \in Trips

\* A claim does not stay open: the request gets its Trip link, returns to
\* PENDING or is deleted.
ClaimResolved ==
    \A r \in Requests :
        (status[r] = "APPROVED" /\ tripId[r] = NoTrip)
            ~> (status[r] # "APPROVED" \/ tripId[r] # NoTrip)

\* "An approved request OWNS the Trip it produced, so the two are deleted
\* together in one transaction - either both rows go or neither does"
\* (trip-requests.service.ts:377-378): once no handler runs, a deleted request
\* has left no Trip row.
DeletedTogether ==
    (\A w \in Workers : pc[w] = "idle") =>
        \A t \in live : madeFor[t] \in Requests => status[madeFor[t]] # "DELETED"

-----------------------------------------------------------------------------
(* The inductive invariant behind the safety properties.                   *)

\* A claim is on a row that is APPROVED, or was deleted under it.
ClaimHeld ==
    \A w \in Workers :
        pc[w] \in {"create", "rollback", "link"} =>
            status[target[w]] \in {"APPROVED", "DELETED"}

\* Before its insert, and after a failed one, an approval has produced nothing;
\* after it, it holds the id of the Trip it produced.
ClaimProduct ==
    \A w \in Workers :
        /\ pc[w] \in {"create", "rollback"} => ~ProducedTrip(target[w])
        /\ pc[w] = "link" => madeFor[held[w]] = target[w]

\* An approval is announced, or about to be, for a request with a Trip only.
ApprovalAnnounced ==
    \A r \in Requests :
        \/ [request |-> r, verdict |-> "APPROVED"] \in announced
        \/ \E w \in Workers : pc[w] = "announceApproved" /\ target[w] = r
        => ProducedTrip(r)

\* A rejected request, announced or not, produced no Trip, and no approval that
\* could still produce one is running.
RejectionBarren ==
    \A r \in Requests :
        \/ status[r] = "REJECTED"
        \/ [request |-> r, verdict |-> "REJECTED"] \in announced
        \/ \E w \in Workers : pc[w] = "announceRejected" /\ target[w] = r
        => /\ status[r] \in {"REJECTED", "DELETED"}
           /\ ~ProducedTrip(r)
           /\ Approving(r) = {}

\* The conjunction of them is preserved by every step when the acknowledgement
\* of an insert is never lost.
Inductive ==
    /\ TypeOK
    /\ ClaimHeld
    /\ ClaimExclusive
    /\ ClaimProduct
    /\ AtMostOneTrip
    /\ TripNeedsApproval
    /\ LinkIsOwn
    /\ ApprovalAnnounced
    /\ RejectionBarren

\* Claims and links keep their discipline even when acknowledgements are lost: a
\* link is on an approved row, a claim on a row without a link.
Claims ==
    /\ TypeOK
    /\ ClaimHeld
    /\ ClaimExclusive
    /\ \A r \in Requests : /\ Approving(r) # {} => tripId[r] = NoTrip
                           /\ tripId[r] \in Trips => status[r] = "APPROVED"

\* An approval at its link holds the Trip it inserted.
OwnLinks ==
    /\ TypeOK
    /\ LinkIsOwn
    /\ \A w \in Workers : pc[w] = "link" => madeFor[held[w]] = target[w]

-----------------------------------------------------------------------------
(* Refinement: the ledger of decisions this workflow implements.  A request *)
(* is "held" while an approval may still produce its Trip, "abandoned" when *)
(* its row was deleted under such an approval.                              *)

Creating(r) == \E w \in Workers : pc[w] = "create" /\ target[w] = r

Decision(r) ==
    CASE ProducedTrip(r)                                       -> "accepted"
      [] ~ProducedTrip(r) /\ status[r] = "NONE"                -> "none"
      [] ~ProducedTrip(r) /\ status[r] = "PENDING"             -> "open"
      [] ~ProducedTrip(r) /\ status[r] = "APPROVED"            -> "held"
      [] ~ProducedTrip(r) /\ status[r] = "REJECTED"            -> "refused"
      [] ~ProducedTrip(r) /\ status[r] = "DELETED" /\ Creating(r)  -> "abandoned"
      [] ~ProducedTrip(r) /\ status[r] = "DELETED" /\ ~Creating(r) -> "gone"

Ledger == INSTANCE ApprovalLedger
            WITH decision <- [r \in Requests |-> Decision(r)]

\* The handlers, interleaved, crashing and failing, implement the ledger: a
\* decision is taken once and a Trip is born only from a held request.
RefinesLedger == Ledger!Spec
=============================================================================
