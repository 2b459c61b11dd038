------------------------------- MODULE Records -------------------------------
(***************************************************************************)
(* What is kept beside a trip: PodService.upsert, DelaysService.create,    *)
(* UploadService.store and remove on the local disk, all of them while     *)
(* trips are completed and deleted, and DashboardService.getDeliveryMetrics*)
(* with its two queries side by side.                                      *)
(*                                                                         *)
(* One action per statement between two awaits.  pc[w] is the statement    *)
(* worker w executes next; subject, file and seen are what it holds.  A       *)
(* record of a trip that is gone violates its foreign key: the statement   *)
(* fails, which is Abandon.  A notice has no foreign key.                  *)
(*                                                                         *)
(* Abstracted: what a record says (recipient, notes, location, reason),    *)
(* categories of files, whose trip it is where only that decides whether a *)
(* handler proceeds.  A file name is random: it is given again only when   *)
(* nothing is left of its last use.                                        *)
(***************************************************************************)
EXTENDS Reports

CONSTANTS
    Trips,      \* ids of trips
    Clients,    \* ids of clients
    Files,      \* storage keys
    Workers,    \* requests handled at the same time
    MaxCalls    \* bound on the requests in a behaviour

ASSUME RecordsAssumption ==
    /\ Null \notin Trips \cup Clients \cup Files \cup Workers
    /\ MaxCalls \in Nat
    /\ IsFiniteSet(Workers) /\ IsFiniteSet(Trips)

VARIABLES
    trips,          \* per trip: client and status; "NONE" before, "DELETED" after its life
    pod,            \* per trip: the ProofOfDelivery row, "none", "saved" or "confirmed"
    events,         \* per trip: confirmations in its timeline
    delays,         \* per trip: reported delays
    notices,        \* per kind and trip: notices stored
    disk,           \* files under UPLOAD_DIR
    asset,          \* per file: the trip of its FileAsset row, or Null
    pc,             \* per worker: the next statement
    subject,        \* per worker: tripId, or the client a dashboard is for
    file,           \* per worker: the file
    seen,           \* per worker: existing, the row it read
    confirm,        \* per worker: deliveredAt is in the body
    tripCount,      \* per worker: the count of its dashboard, Null if not answered yet
    completedList,  \* per worker: the completed trips of its dashboard, Null likewise
    calls,          \* history: requests so far
    stale,          \* history, per worker: a trip has changed since the first of its answers
    overlapped,     \* history: trips with two calls of upsert at the same time
    unheard,        \* history: trips with a confirmation that stopped before its event
    torn            \* history: files whose store or removal stopped half way, or whose
                    \* trip was deleted

records == <<trips, pod, events, delays, notices, disk, asset>>
locals == <<pc, subject, file, seen, confirm, tripCount, completedList>>
histories == <<calls, stale, overlapped, unheard, torn>>
vars == <<records, locals, histories>>

Kinds == {"pod", "delay"}
Upserting == {"existing", "upsert", "event", "podNotice"}
Storing == {"write", "asset"}
Removing == {"unlink", "delete"}
Reading == {"query"}

Exists(t) == trips[t].status \notin {"NONE", "DELETED"}

\* The trips of the database, as the reports take them.
Table ==
    [t \in {u \in Trips : Exists(u)} |->
        [client |-> trips[t].client, status |-> trips[t].status, end |-> 0, completed |-> Null]]

TypeOK ==
    /\ trips \in [Trips -> [client : Clients \cup {Null},
                          status : {"NONE", "STARTED", "COMPLETED", "DELETED"}]]
    /\ pod \in [Trips -> {"none", "saved", "confirmed"}]
    /\ events \in [Trips -> Nat]
    /\ delays \in [Trips -> Nat]
    /\ notices \in [Kinds -> [Trips -> Nat]]
    /\ disk \in SUBSET Files
    /\ asset \in [Files -> Trips \cup {Null}]
    /\ pc \in [Workers -> {"idle", "insert", "delayNotice"}
                          \cup Upserting \cup Storing \cup Removing \cup Reading]
    /\ subject \in [Workers -> Trips \cup Clients \cup {Null}]
    /\ file \in [Workers -> Files \cup {Null}]
    /\ seen \in [Workers -> {"none", "saved", "confirmed"}]
    /\ confirm \in [Workers -> BOOLEAN]
    /\ calls \in 0 .. MaxCalls
    /\ stale \in [Workers -> BOOLEAN]
    /\ overlapped \in SUBSET Trips
    /\ unheard \in SUBSET Trips
    /\ torn \in SUBSET Files

Init ==
    /\ trips = [t \in Trips |-> [client |-> Null, status |-> "NONE"]]
    /\ pod = [t \in Trips |-> "none"]
    /\ events = [t \in Trips |-> 0]
    /\ delays = [t \in Trips |-> 0]
    /\ notices = [k \in Kinds |-> [t \in Trips |-> 0]]
    /\ disk = {}
    /\ asset = [f \in Files |-> Null]
    /\ pc = [w \in Workers |-> "idle"]
    /\ subject = [w \in Workers |-> Null]
    /\ file = [w \in Workers |-> Null]
    /\ seen = [w \in Workers |-> "none"]
    /\ confirm = [w \in Workers |-> FALSE]
    /\ tripCount = [w \in Workers |-> Null]
    /\ completedList = [w \in Workers |-> Null]
    /\ calls = 0
    /\ stale = [w \in Workers |-> FALSE]
    /\ overlapped = {}
    /\ unheard = {}
    /\ torn = {}

-----------------------------------------------------------------------------
(* How a request starts and ends                                           *)

Goto(w, next) == pc' = [pc EXCEPT ![w] = next]

Begin(w, next) ==
    /\ pc[w] = "idle"
    /\ calls < MaxCalls
    /\ calls' = calls + 1
    /\ Goto(w, next)
    /\ UNCHANGED <<records, seen, stale, unheard, torn>>

End(w) ==
    /\ Goto(w, "idle")
    /\ subject' = [subject EXCEPT ![w] = Null]
    /\ file' = [file EXCEPT ![w] = Null]
    /\ seen' = [seen EXCEPT ![w] = "none"]
    /\ confirm' = [confirm EXCEPT ![w] = FALSE]
    /\ tripCount' = [tripCount EXCEPT ![w] = Null]
    /\ completedList' = [completedList EXCEPT ![w] = Null]
    /\ stale' = [stale EXCEPT ![w] = FALSE]

\* A refusal, a failed statement or the death of the process, at any statement.
Abandon(w) ==
    /\ pc[w] # "idle"
    /\ unheard' = IF pc[w] = "event" THEN unheard \cup {subject[w]} ELSE unheard
    /\ torn' = IF pc[w] \in {"asset", "delete"} THEN torn \cup {file[w]} ELSE torn
    /\ End(w)
    /\ UNCHANGED <<records, calls, overlapped>>

-----------------------------------------------------------------------------
(* Trips                                                                   *)

\* One of the two queries of a dashboard is answered.
Half(w) == (tripCount[w] = Null) # (completedList[w] = Null)

\* History: the dashboards with one answer now have an old one.
Disturb == stale' = [w \in Workers |-> stale[w] \/ (pc[w] = "query" /\ Half(w))]

SetStatus(t, c, s) ==
    /\ trips' = [trips EXCEPT ![t] = [client |-> c, status |-> s]]
    /\ Disturb
    /\ UNCHANGED <<notices, disk, locals, calls, overlapped, unheard>>

CreateTrip(t, c) ==
    /\ trips[t].status = "NONE"
    /\ SetStatus(t, c, "STARTED")
    /\ UNCHANGED <<pod, events, delays, asset, torn>>

CompleteTrip(t) ==
    /\ trips[t].status = "STARTED"
    /\ SetStatus(t, trips[t].client, "COMPLETED")
    /\ UNCHANGED <<pod, events, delays, asset, torn>>

\* The rows go with the trip; its files and notices stay.
RemoveTrip(t) ==
    /\ Exists(t)
    /\ SetStatus(t, trips[t].client, "DELETED")
    /\ pod' = [pod EXCEPT ![t] = "none"]
    /\ events' = [events EXCEPT ![t] = 0]
    /\ delays' = [delays EXCEPT ![t] = 0]
    /\ asset' = [f \in Files |-> IF asset[f] = t THEN Null ELSE asset[f]]
    /\ torn' = torn \cup {f \in Files : asset[f] = t}

-----------------------------------------------------------------------------
(* Proof of delivery                                                       *)

PodCall(w, t, c) ==
    /\ Exists(t)
    /\ Begin(w, "existing")
    /\ subject' = [subject EXCEPT ![w] = t]
    /\ confirm' = [confirm EXCEPT ![w] = c]
    /\ overlapped' = IF \E v \in Workers : pc[v] \in Upserting /\ subject[v] = t
                     THEN overlapped \cup {t} ELSE overlapped
    /\ UNCHANGED <<file, tripCount, completedList>>

ReadPod(w) ==
    /\ pc[w] = "existing"
    /\ seen' = [seen EXCEPT ![w] = pod[subject[w]]]
    /\ Goto(w, "upsert")
    /\ UNCHANGED <<records, subject, file, confirm, tripCount, completedList, histories>>

\* Mutant: only the first save can be the confirmation.
FirstSave(w) == confirm[w] /\ seen[w] = "none"

NewlyConfirmed(w) == confirm[w] /\ seen[w] # "confirmed"

\* A body without deliveredAt leaves the one that is there.
UpsertPod(w) ==
    /\ pc[w] = "upsert"
    /\ Exists(subject[w])
    /\ pod' = [pod EXCEPT ![subject[w]] = IF confirm[w] \/ @ = "confirmed" THEN "confirmed"
                                       ELSE "saved"]
    /\ \/ /\ NewlyConfirmed(w)
          /\ Goto(w, "event")
          /\ UNCHANGED <<subject, file, seen, confirm, tripCount, completedList, stale>>
       \/ ~NewlyConfirmed(w) /\ End(w)
    /\ UNCHANGED <<trips, events, delays, notices, disk, asset, calls, overlapped, unheard, torn>>

RecordEvent(w) ==
    /\ pc[w] = "event"
    /\ Exists(subject[w])
    /\ events' = [events EXCEPT ![subject[w]] = @ + 1]
    /\ Goto(w, "podNotice")
    /\ UNCHANGED <<trips, pod, delays, notices, disk, asset,
                   subject, file, seen, confirm, tripCount, completedList, histories>>

\* The notice is stored or refused; the caller never hears which.
Notify(w, statement, kind) ==
    /\ pc[w] = statement
    /\ \/ notices' = [notices EXCEPT ![kind][subject[w]] = @ + 1]
       \/ UNCHANGED notices
    /\ End(w)
    /\ UNCHANGED <<trips, pod, events, delays, disk, asset, calls, overlapped, unheard, torn>>

NotifyPod(w) == Notify(w, "podNotice", "pod")

-----------------------------------------------------------------------------
(* Delays                                                                  *)

DelayCall(w, t) ==
    /\ Exists(t)
    /\ Begin(w, "insert")
    /\ subject' = [subject EXCEPT ![w] = t]
    /\ UNCHANGED <<file, confirm, tripCount, completedList, overlapped>>

InsertDelay(w) ==
    /\ pc[w] = "insert"
    /\ Exists(subject[w])
    /\ delays' = [delays EXCEPT ![subject[w]] = @ + 1]
    /\ Goto(w, "delayNotice")
    /\ UNCHANGED <<trips, pod, events, notices, disk, asset,
                   subject, file, seen, confirm, tripCount, completedList, histories>>

NotifyDelay(w) == Notify(w, "delayNotice", "delay")

-----------------------------------------------------------------------------
(* Uploads                                                                 *)

StoreCall(w, t, f) ==
    /\ Exists(t)
    /\ f \notin disk \cup torn
    /\ \A v \in Workers : file[v] # f
    /\ asset[f] = Null
    /\ Begin(w, "write")
    /\ subject' = [subject EXCEPT ![w] = t]
    /\ file' = [file EXCEPT ![w] = f]
    /\ UNCHANGED <<confirm, tripCount, completedList, overlapped>>

WriteFile(w) ==
    /\ pc[w] = "write"
    /\ disk' = disk \cup {file[w]}
    /\ Goto(w, "asset")
    /\ UNCHANGED <<trips, pod, events, delays, notices, asset,
                   subject, file, seen, confirm, tripCount, completedList, histories>>

InsertAsset(w) ==
    /\ pc[w] = "asset"
    /\ Exists(subject[w])
    /\ asset' = [asset EXCEPT ![file[w]] = subject[w]]
    /\ End(w)
    /\ UNCHANGED <<trips, pod, events, delays, notices, disk, calls, overlapped, unheard, torn>>

RemoveCall(w, f) ==
    /\ asset[f] # Null
    /\ Begin(w, "unlink")
    /\ file' = [file EXCEPT ![w] = f]
    /\ UNCHANGED <<subject, confirm, tripCount, completedList, overlapped>>

\* Mutant: the file is not removed.
UnlinkNothing(w) ==
    /\ pc[w] = "unlink"
    /\ Goto(w, "delete")
    /\ UNCHANGED <<records, subject, file, seen, confirm, tripCount, completedList, histories>>

\* A file that is not there is no error.
Unlink(w) ==
    /\ pc[w] = "unlink"
    /\ disk' = disk \ {file[w]}
    /\ Goto(w, "delete")
    /\ UNCHANGED <<trips, pod, events, delays, notices, asset,
                   subject, file, seen, confirm, tripCount, completedList, histories>>

DeleteAsset(w) ==
    /\ pc[w] = "delete"
    /\ asset[file[w]] # Null
    /\ asset' = [asset EXCEPT ![file[w]] = Null]
    /\ End(w)
    /\ UNCHANGED <<trips, pod, events, delays, notices, disk, calls, overlapped, unheard, torn>>

-----------------------------------------------------------------------------
(* The dashboard: Promise.all of a count and a list                        *)

\* An admin asks for all clients, which is Null.
MetricsCall(w, c) ==
    /\ Begin(w, "query")
    /\ subject' = [subject EXCEPT ![w] = c]
    /\ UNCHANGED <<file, confirm, tripCount, completedList, overlapped>>

CountTrips(w) ==
    /\ pc[w] = "query"
    /\ tripCount[w] = Null
    /\ tripCount' = [tripCount EXCEPT ![w] = Cardinality(OfClient(Table, subject[w]))]
    /\ UNCHANGED <<records, pc, subject, file, seen, confirm, completedList, histories>>

ListCompleted(w) ==
    /\ pc[w] = "query"
    /\ completedList[w] = Null
    /\ completedList' = [completedList EXCEPT ![w] = Delivered(Table, subject[w])]
    /\ UNCHANGED <<records, pc, subject, file, seen, confirm, tripCount, histories>>

Answered(w) == pc[w] = "query" /\ tripCount[w] # Null /\ completedList[w] # Null

Answer(w) ==
    /\ Answered(w)
    /\ End(w)
    /\ UNCHANGED <<records, calls, overlapped, unheard, torn>>

-----------------------------------------------------------------------------
Trip == \E t \in Trips :
    \/ \E c \in Clients : CreateTrip(t, c)
    \/ CompleteTrip(t)
    \/ RemoveTrip(t)

Proof(w) ==
    \/ \E t \in Trips, c \in BOOLEAN : PodCall(w, t, c)
    \/ ReadPod(w)
    \/ UpsertPod(w)
    \/ RecordEvent(w)
    \/ NotifyPod(w)

ReportDelay(w) ==
    \/ \E t \in Trips : DelayCall(w, t)
    \/ InsertDelay(w)
    \/ NotifyDelay(w)

Upload(w) ==
    \/ \E t \in Trips, f \in Files : StoreCall(w, t, f)
    \/ WriteFile(w)
    \/ InsertAsset(w)
    \/ \E f \in Files : RemoveCall(w, f)
    \/ Unlink(w)
    \/ DeleteAsset(w)

Metrics(w) ==
    \/ \E c \in Clients \cup {Null} : MetricsCall(w, c)
    \/ CountTrips(w)
    \/ ListCompleted(w)
    \/ Answer(w)

Next ==
    \/ Trip
    \/ \E w \in Workers : Proof(w) \/ ReportDelay(w) \/ Upload(w) \/ Metrics(w) \/ Abandon(w)

Spec == Init /\ [][Next]_vars

-----------------------------------------------------------------------------
(* Properties                                                              *)

\* A confirmation is in the timeline of its trip once, and a notice is only ever
\* about something recorded: a confirmed delivery has one event, unless its handler
\* stopped right before it (none) or two saves of the proof overlapped (perhaps two).
\* PodService.upsert decides with a row read before its write.
AnnouncedOnce ==
    \A t \in {u \in Trips : Exists(u)} :
        /\ notices["pod"][t] <= events[t]
        /\ notices["delay"][t] <= delays[t]
        /\ t \notin overlapped => events[t] <= 1
        /\ pod[t] = "confirmed" =>
               \/ events[t] >= 1
               \/ t \in unheard
               \/ \E w \in Workers : pc[w] = "event" /\ subject[w] = t
        /\ events[t] > 0 => pod[t] = "confirmed"

\* Every row has its file and every file its row, but for a store or removal under
\* way or broken off, and for the files of deleted trips.
FilesAccounted ==
    \A f \in Files \ torn :
        /\ asset[f] # Null =>
               f \in disk \/ \E w \in Workers : pc[w] = "delete" /\ file[w] = f
        /\ f \in disk =>
               asset[f] # Null \/ \E w \in Workers : pc[w] = "asset" /\ file[w] = f

\* No share of the deliveries exceeds the whole, unless a trip was created, completed
\* or deleted between the two answers of getDeliveryMetrics.
RateByRaceOnly ==
    \A w \in Workers :
        Answered(w) /\ ~stale[w] =>
            LET metrics == DeliveryMetrics(tripCount[w], completedList[w])
            IN /\ metrics.completionRate \in 0 .. 1000
               /\ metrics.onTimeRate \in 0 .. 1000
               /\ completedList[w].completed <= tripCount[w]
=============================================================================
