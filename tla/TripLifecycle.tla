--------------------------- MODULE TripLifecycle ---------------------------
(***************************************************************************)
(* The life of one Trip row in TripsService: status changes, completion of *)
(* stops, edits and optimisation of the stop list, deletion.               *)
(*                                                                         *)
(* Every handler reads the row first (getOwned), checks the rules against  *)
(* that snapshot, awaits more reads (the actor, geocoding, GPS) and writes *)
(* by id, without the checked status in the WHERE.  A "worker" is one      *)
(* running handler: pc[w] is the statement it will execute next and the    *)
(* other per-worker variables are the local variables it still uses.       *)
(*                                                                         *)
(* Abstracted: ownership, the audit events, coordinates (a stop is its     *)
(* place), the fields of a trip other than its status, startedAt and       *)
(* completedAt.  The order optimizeStops computes is any permutation.      *)
(***************************************************************************)
EXTENDS Integers, Sequences

CONSTANTS
    Workers,   \* concurrently running handler invocations
    Places,    \* addresses of stops
    MaxStops,  \* bound: stops of a trip
    MaxIds     \* bound: TripStop ids handed out (cuids, never reused)

ASSUME BoundAssumption == MaxStops \in Nat /\ MaxIds \in Nat

VARIABLES
    status,     \* Trip.status, "DELETED" once the row is gone
    starts,     \* history: how often startedAt was written (0: it is null)
    completed,  \* Trip.completedAt is set
    stops,      \* TripStop rows of the trip in the order of their sequence
    lastId,     \* the last TripStop id handed out
    told,       \* status notices stored for the client
    overlapped, \* history: some handler was called while another one ran
    pc,         \* per worker: the next statement
    goal,       \* per worker: dto.status of updateStatus
    fresh,      \* per worker: existing.startedAt was null
    arg,        \* per worker: the stop id completeStop was called with
    plan        \* per worker: the places of the stop list it will write

rowVars == <<status, starts, completed>>
stopVars == <<stops, lastId>>
notices == <<told, overlapped>>
locals == <<goal, fresh, arg, plan>>
vars == <<status, starts, completed, stops, lastId, told, overlapped, pc, goal, fresh, arg, plan>>

Statuses == {"PLANNED", "ASSIGNED", "STARTED", "ONGOING", "DELAYED",
             "COMPLETED", "CANCELLED"}

\* Allowed next statuses per current status.
TRANSITIONS == [s \in Statuses |->
    CASE s = "PLANNED"                 -> {"ASSIGNED", "CANCELLED"}
      [] s = "ASSIGNED"                -> {"STARTED", "CANCELLED"}
      [] s = "STARTED"                 -> {"ONGOING", "DELAYED", "CANCELLED"}
      [] s = "ONGOING"                 -> {"DELAYED", "COMPLETED", "CANCELLED"}
      [] s = "DELAYED"                 -> {"ONGOING", "COMPLETED", "CANCELLED"}
      [] s \in {"COMPLETED", "CANCELLED"} -> {}]

STOP_EDITABLE_STATUSES == {"PLANNED", "ASSIGNED"}
STOP_COMPLETABLE_STATUSES == {"STARTED", "ONGOING", "DELAYED"}
NotifiedStatuses == {"STARTED", "DELAYED", "COMPLETED"}

Stop == [id : Nat, place : Places, done : BOOLEAN]
PC == {"idle", "finalStop", "status", "notify", "readStops", "complete",
       "edit", "readOrder", "reorder"}

TypeOK ==
    /\ status \in Statuses \cup {"DELETED"}
    /\ starts \in Nat
    /\ completed \in BOOLEAN
    /\ stops \in Seq(Stop)
    /\ lastId \in Nat
    /\ told \in SUBSET NotifiedStatuses
    /\ overlapped \in BOOLEAN
    /\ pc \in [Workers -> PC]
    /\ goal \in [Workers -> Statuses]
    /\ fresh \in [Workers -> BOOLEAN]
    /\ arg \in [Workers -> Nat]
    /\ plan \in [Workers -> Seq(Places)]

Routes == UNION {[1..n -> Places] : n \in 0..MaxStops}

\* Stops as the nested create writes them: new ids, nothing completed.
FreshStops(route, first) ==
    [i \in 1..Len(route) |-> [id |-> first + i, place |-> route[i], done |-> FALSE]]

Init ==
    /\ status \in {"PLANNED", "ASSIGNED"}
    /\ starts = 0
    /\ completed = FALSE
    /\ \E route \in Routes : /\ stops = FreshStops(route, 0)
                             /\ lastId = Len(route)
    /\ told = {}
    /\ overlapped = FALSE
    /\ pc = [w \in Workers |-> "idle"]
    /\ goal = [w \in Workers |-> "PLANNED"]
    /\ fresh = [w \in Workers |-> FALSE]
    /\ arg = [w \in Workers |-> 0]
    /\ plan = [w \in Workers |-> << >>]

-----------------------------------------------------------------------------
(* Handlers as sequences of statements.                                    *)

Exists == status \in Statuses

\* A handler starts; "next" is its first statement after getOwned.
Begin(w, next) ==
    /\ pc[w] = "idle"
    /\ pc' = [pc EXCEPT ![w] = next]
    /\ overlapped' = (overlapped \/ \E v \in Workers : pc[v] # "idle")

Goto(w, next) == pc' = [pc EXCEPT ![w] = next]

\* The handler returns or throws; its local variables are gone.
Finish(w) ==
    /\ pc' = [pc EXCEPT ![w] = "idle"]
    /\ goal' = [goal EXCEPT ![w] = "PLANNED"]
    /\ fresh' = [fresh EXCEPT ![w] = FALSE]
    /\ arg' = [arg EXCEPT ![w] = 0]
    /\ plan' = [plan EXCEPT ![w] = << >>]

PlacesOf(list) == [i \in 1..Len(list) |-> list[i].place]

Rearranged(route) ==
    {[i \in 1..Len(route) |-> route[p[i]]] :
        p \in {q \in [1..Len(route) -> 1..Len(route)] :
                 \A i, j \in 1..Len(route) : q[i] = q[j] => i = j}}

\* stops: { deleteMany: {}, create: route } in one update of the trip.
ReplaceStops(route) ==
    /\ stops' = FreshStops(route, lastId)
    /\ lastId' = lastId + Len(route)

-----------------------------------------------------------------------------
(* updateStatus                                                            *)

\* Mutant: the transition table is not consulted.
StatusCallUnchecked(w, to) ==
    /\ Exists
    /\ goal' = [goal EXCEPT ![w] = to]
    /\ fresh' = [fresh EXCEPT ![w] = starts = 0]
    /\ Begin(w, IF to = "COMPLETED" THEN "finalStop" ELSE "status")
    /\ UNCHANGED <<rowVars, stopVars, told, arg, plan>>

\* Mutant: the final-stop rule is skipped.
StatusCallNoFinalStop(w, to) ==
    /\ Exists
    /\ to \in TRANSITIONS[status]
    /\ goal' = [goal EXCEPT ![w] = to]
    /\ fresh' = [fresh EXCEPT ![w] = starts = 0]
    /\ Begin(w, "status")
    /\ UNCHANGED <<rowVars, stopVars, told, arg, plan>>

\* getOwned, and the transition table against that snapshot.
StatusCall(w, to) ==
    /\ Exists
    /\ to \in TRANSITIONS[status]
    /\ goal' = [goal EXCEPT ![w] = to]
    /\ fresh' = [fresh EXCEPT ![w] = starts = 0]
    /\ Begin(w, IF to = "COMPLETED" THEN "finalStop" ELSE "status")
    /\ UNCHANGED <<rowVars, stopVars, told, arg, plan>>

FinalStopDone == \A i \in 1..Len(stops) : i = Len(stops) => stops[i].done

\* assertFinalStopCompleted passes (also when the trip has no stops left).
FinalStopCheck(w) ==
    /\ pc[w] = "finalStop"
    /\ FinalStopDone
    /\ Goto(w, "status")
    /\ UNCHANGED <<rowVars, stopVars, notices, locals>>

\* FINAL_STOP_NOT_COMPLETED
FinalStopMissing(w) ==
    /\ pc[w] = "finalStop"
    /\ ~FinalStopDone
    /\ Finish(w)
    /\ UNCHANGED <<rowVars, stopVars, notices>>

\* Mutant: only the transition to ONGOING stamps startedAt.
StatusWriteStampsLate(w) ==
    /\ pc[w] = "status"
    /\ Exists
    /\ status' = goal[w]
    /\ starts' = starts + IF goal[w] = "ONGOING" /\ fresh[w] THEN 1 ELSE 0
    /\ completed' = (completed \/ goal[w] = "COMPLETED")
    /\ Goto(w, "notify")
    /\ UNCHANGED <<stopVars, notices, locals>>

\* Mutant: completedAt is not written.
StatusWriteNotCompleted(w) ==
    /\ pc[w] = "status"
    /\ Exists
    /\ status' = goal[w]
    /\ starts' = starts + IF goal[w] \in {"STARTED", "ONGOING"} /\ fresh[w] THEN 1 ELSE 0
    /\ Goto(w, "notify")
    /\ UNCHANGED <<completed, stopVars, notices, locals>>

\* update where id: the status the snapshot allowed is written unconditionally,
\* startedAt only if the snapshot had none.
StatusWrite(w) ==
    /\ pc[w] = "status"
    /\ Exists
    /\ status' = goal[w]
    /\ starts' = starts + IF goal[w] \in {"STARTED", "ONGOING"} /\ fresh[w] THEN 1 ELSE 0
    /\ completed' = (completed \/ goal[w] = "COMPLETED")
    /\ Goto(w, "notify")
    /\ UNCHANGED <<stopVars, notices, locals>>

\* onTripStatusChanged: three statuses notify; the row is stored or dropped.
Notify(w) ==
    /\ pc[w] = "notify"
    /\ \/ told' = told \cup ({goal[w]} \cap NotifiedStatuses)
       \/ UNCHANGED told
    /\ Finish(w)
    /\ UNCHANGED <<rowVars, stopVars, overlapped>>

-----------------------------------------------------------------------------
(* completeStop                                                            *)

\* getOwned, and the status rule against that snapshot.
CompleteStopCall(w, id) ==
    /\ status \in STOP_COMPLETABLE_STATUSES
    /\ arg' = [arg EXCEPT ![w] = id]
    /\ Begin(w, "readStops")
    /\ UNCHANGED <<rowVars, stopVars, told, goal, fresh, plan>>

\* Mutant: the order rule is dropped.
InOrderAnyStop(id) ==
    \E i \in 1..Len(stops) : stops[i].id = id /\ ~stops[i].done

\* findMany: the stop is on the list, pending, and every earlier one is done.
InOrder(id) ==
    \E i \in 1..Len(stops) :
        /\ stops[i].id = id
        /\ ~stops[i].done
        /\ \A j \in 1..(i - 1) : stops[j].done

CompleteStopRead(w) ==
    /\ pc[w] = "readStops"
    /\ InOrder(arg[w])
    /\ Goto(w, "complete")
    /\ UNCHANGED <<rowVars, stopVars, notices, locals>>

\* Unknown stop, a stop done already (idempotent), or STOP_OUT_OF_ORDER.
CompleteStopRefused(w) ==
    /\ pc[w] = "readStops"
    /\ ~InOrder(arg[w])
    /\ Finish(w)
    /\ UNCHANGED <<rowVars, stopVars, notices>>

HasStop(id) == \E i \in 1..Len(stops) : stops[i].id = id

\* Nested update of the stop by its id.
StopWrite(w) ==
    /\ pc[w] = "complete"
    /\ Exists
    /\ HasStop(arg[w])
    /\ stops' = [i \in 1..Len(stops) |->
                   [stops[i] EXCEPT !.done = @ \/ stops[i].id = arg[w]]]
    /\ Finish(w)
    /\ UNCHANGED <<rowVars, lastId, notices>>

\* The stop list was replaced in the meantime: the nested update throws.
StopWriteMissed(w) ==
    /\ pc[w] = "complete"
    /\ ~HasStop(arg[w])
    /\ Finish(w)
    /\ UNCHANGED <<rowVars, stopVars, notices>>

-----------------------------------------------------------------------------
(* update with a stop list, and optimizeStops                              *)

\* Mutant: the edit of the stops is not locked after the start.
UpdateCallUnlocked(w, route) ==
    /\ Exists
    /\ plan' = [plan EXCEPT ![w] = route]
    /\ Begin(w, "edit")
    /\ UNCHANGED <<rowVars, stopVars, told, goal, fresh, arg>>

\* getOwned, and STOPS_LOCKED against that snapshot.
UpdateCall(w, route) ==
    /\ status \in STOP_EDITABLE_STATUSES
    /\ plan' = [plan EXCEPT ![w] = route]
    /\ Begin(w, "edit")
    /\ UNCHANGED <<rowVars, stopVars, told, goal, fresh, arg>>

\* The whole list is replaced by the one of the request.
UpdateWrite(w) ==
    /\ pc[w] = "edit"
    /\ Exists
    /\ lastId + Len(plan[w]) <= MaxIds
    /\ ReplaceStops(plan[w])
    /\ Finish(w)
    /\ UNCHANGED <<rowVars, notices>>

OptimizeCall(w) ==
    /\ status \in STOP_EDITABLE_STATUSES
    /\ Begin(w, "readOrder")
    /\ UNCHANGED <<rowVars, stopVars, told, locals>>

\* findMany and the greedy order over the stops it returned.
OptimizeRead(w) ==
    /\ pc[w] = "readOrder"
    /\ Len(stops) >= 2
    /\ \E route \in Rearranged(PlacesOf(stops)) : plan' = [plan EXCEPT ![w] = route]
    /\ Goto(w, "reorder")
    /\ UNCHANGED <<rowVars, stopVars, notices, goal, fresh, arg>>

\* NOT_ENOUGH_STOPS
OptimizeRefused(w) ==
    /\ pc[w] = "readOrder"
    /\ Len(stops) < 2
    /\ Finish(w)
    /\ UNCHANGED <<rowVars, stopVars, notices>>

\* The list is rewritten in the new order.
OptimizeWrite(w) ==
    /\ pc[w] = "reorder"
    /\ Exists
    /\ lastId + Len(plan[w]) <= MaxIds
    /\ ReplaceStops(plan[w])
    /\ Finish(w)
    /\ UNCHANGED <<rowVars, notices>>

-----------------------------------------------------------------------------
(* remove, and what happens to handlers whose row is gone                  *)

\* The row goes and its stops with it (onDelete: Cascade).
Remove ==
    /\ Exists
    /\ status' = "DELETED"
    /\ stops' = << >>
    /\ UNCHANGED <<starts, completed, lastId, notices, pc, locals>>

\* update where id on a deleted row throws.
RowMissed(w) ==
    /\ pc[w] \in {"status", "edit", "reorder"}
    /\ ~Exists
    /\ Finish(w)
    /\ UNCHANGED <<rowVars, stopVars, notices>>

\* Something between the first read and the write fails: an ownership or
\* overlap check, the geocoder, the database, or the process.
Abandon(w) ==
    /\ pc[w] # "idle"
    /\ Finish(w)
    /\ UNCHANGED <<rowVars, stopVars, notices>>

Next ==
    \/ \E w \in Workers :
         \/ \E to \in Statuses : StatusCall(w, to)
         \/ FinalStopCheck(w)
         \/ FinalStopMissing(w)
         \/ StatusWrite(w)
         \/ Notify(w)
         \/ \E id \in 1..MaxIds : CompleteStopCall(w, id)
         \/ CompleteStopRead(w)
         \/ CompleteStopRefused(w)
         \/ StopWrite(w)
         \/ StopWriteMissed(w)
         \/ \E route \in Routes : UpdateCall(w, route)
         \/ UpdateWrite(w)
         \/ OptimizeCall(w)
         \/ OptimizeRead(w)
         \/ OptimizeRefused(w)
         \/ OptimizeWrite(w)
         \/ RowMissed(w)
         \/ Abandon(w)
    \/ Remove

Spec == Init /\ [][Next]_vars
-----------------------------------------------------------------------------
(* Properties that hold however handlers interleave.                       *)

AllDone == \A i \in 1..Len(stops) : stops[i].done

\* Stops are completed strictly in sequence (the order rule of completeStop):
\* the completed ones are a prefix of the list, although the rule is checked
\* against a list that may be replaced or extended before the write.
CompletedPrefix ==
    \A i, j \in 1..Len(stops) : i < j /\ stops[j].done => stops[i].done

\* The delay and progress reports rely on it: a trip that was under way has a
\* startedAt and a completed one a completedAt, whichever stale snapshots the
\* status was written from.
StartRecorded ==
    /\ status \in {"STARTED", "ONGOING", "DELAYED", "COMPLETED"} => starts > 0
    /\ status = "COMPLETED" => completed

\* A client is told that its trip started, is delayed or was completed only
\* after that was written to the trip.
NoticeTruthful ==
    /\ told # {} => starts > 0
    /\ "COMPLETED" \in told => completed

-----------------------------------------------------------------------------
(* Properties that hold as long as no two handlers on the trip overlapped. *)

\* "the last stop being done implies all are" (trips.service.ts:2185): every
\* stop of a completed trip was reached.
CompletedServed == ~overlapped /\ status = "COMPLETED" => AllDone

Legal == status # status' /\ status' # "DELETED" => status' \in TRANSITIONS[status]

\* The stored status only moves along the transition table, so COMPLETED and
\* CANCELLED are terminal.
LegalAlone == [][~overlapped => Legal]_vars

\* "Stops may only be added / removed / reordered before a trip starts"
\* (trips.service.ts:112): later only completions change the list.
StopsFrozen ==
    [][~overlapped /\ status \notin STOP_EDITABLE_STATUSES /\ status' # "DELETED" =>
         /\ Len(stops') = Len(stops)
         /\ \A i \in 1..Len(stops) : stops'[i].id = stops[i].id]_vars

\* An arrival that was recorded is not lost by a later edit, reordering or
\* status change.
ArrivalsKept ==
    [][\A i \in 1..Len(stops) :
         ~overlapped /\ stops[i].done /\ status' # "DELETED" =>
            \E j \in 1..Len(stops') : stops'[j] = stops[i]]_vars

-----------------------------------------------------------------------------
(* The strengthening behind CompletedPrefix, StartRecorded, NoticeTruthful. *)

\* No two stops share an id, and ids are never handed out again.
IdsUnique ==
    /\ \A i \in 1..Len(stops) : stops[i].id <= lastId
    /\ \A i, j \in 1..Len(stops) : stops[i].id = stops[j].id => i = j

\* The stop a handler is about to complete, if it is still on the list, comes
\* after completed ones only; if not, its id never comes back.
ArrivalInOrder ==
    \A w \in Workers : pc[w] = "complete" =>
        /\ arg[w] <= lastId
        /\ \A i \in 1..Len(stops) : stops[i].id = arg[w] =>
              \A j \in 1..(i - 1) : stops[j].done

\* A status that presupposes a start is written over a trip that was started,
\* or by a handler that stamps the start itself.
GoalStarted ==
    \A w \in Workers :
        /\ pc[w] = "status" /\ goal[w] \in {"ONGOING", "DELAYED", "COMPLETED"}
              => starts > 0
        /\ pc[w] = "finalStop" => starts > 0 /\ goal[w] = "COMPLETED"
        /\ pc[w] = "status" /\ goal[w] = "STARTED" => starts > 0 \/ fresh[w]
        /\ pc[w] = "notify" /\ goal[w] \in NotifiedStatuses => starts > 0
        /\ pc[w] = "notify" /\ goal[w] = "COMPLETED" => completed

Inductive ==
    /\ TypeOK
    /\ IdsUnique
    /\ ArrivalInOrder
    /\ CompletedPrefix
    /\ GoalStarted
    /\ StartRecorded
    /\ NoticeTruthful

-----------------------------------------------------------------------------
(* The strengthening behind CompletedServed and LegalAlone.                *)

\* As long as no two handlers overlapped, at most one runs, and what it checked
\* still holds when it writes.
CheckStillHolds ==
    /\ \A v, w \in Workers : pc[v] # "idle" /\ pc[w] # "idle" => v = w
    /\ \A w \in Workers :
        /\ pc[w] \in {"finalStop", "status"} /\ Exists =>
              goal[w] \in TRANSITIONS[status]
        /\ pc[w] = "status" /\ goal[w] = "COMPLETED" => FinalStopDone
        /\ pc[w] \in {"readStops", "complete"} /\ Exists =>
              status \in STOP_COMPLETABLE_STATUSES
        /\ pc[w] \in {"edit", "readOrder", "reorder"} /\ Exists =>
              status \in STOP_EDITABLE_STATUSES

-----------------------------------------------------------------------------
(* The strengthening behind ArrivalsKept.                                  *)

\* As long as no two handlers overlapped, no stop is done while the list may
\* still be replaced.
EditablePending ==
    ~overlapped /\ status \in STOP_EDITABLE_STATUSES => \A i \in 1..Len(stops) : ~stops[i].done
=============================================================================
