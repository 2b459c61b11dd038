---------------------------- MODULE RecordsProofs ----------------------------
(***************************************************************************)
(* Proofs about Records and Figures.                                       *)
(*                                                                         *)
(*   - Records: its type invariant, that every stored file is accounted    *)
(*     for, that a delivery is announced once, and that the rates of the   *)
(*     dashboard are shares unless a trip changes between its queries.     *)
(*   - Induction over numbers and finite sets, sums, recursion.            *)
(*   - Progress: the covered distance, arrival times, the order of stops.  *)
(*   - Reports: rows, ranges, dashboard, fleets, delays and costs.         *)
(*   - Figures: its three invariants, from the parts above.                *)
(***************************************************************************)
EXTENDS Figures, FiniteSetTheorems, SequenceTheorems, WellFoundedInduction, TLAPS

PcValues ==
    {"idle", "insert", "delayNotice"} \cup Upserting \cup Storing \cup Removing \cup Reading

AboutTrip == Upserting \cup {"insert", "delayNotice"} \cup Storing
AboutFile == Storing \cup Removing

\* What a worker holds fits the statement it executes next.
Held ==
    \A w \in Workers :
        /\ pc[w] \in AboutTrip => subject[w] \in Trips /\ trips[subject[w]].status # "NONE"
        /\ pc[w] \in AboutFile => file[w] \in Files

TypeInv == TypeOK /\ Held

-----------------------------------------------------------------------------
(* Types                                                                   *)

LEMMA InitTyped == Init => TypeInv
  BY RecordsAssumption DEF Init, TypeInv, TypeOK, Held, Kinds, AboutTrip, AboutFile, Upserting,
     Storing, Removing

\* A request begins.
LEMMA BeginTyped ==
    ASSUME TypeInv, NEW w \in Workers, NEW next \in PcValues, Begin(w, next),
           file' \in [Workers -> Files \cup {Null}],
           subject' \in [Workers -> Trips \cup Clients \cup {Null}],
           confirm' \in [Workers -> BOOLEAN],
           overlapped' \in SUBSET Trips,
           \A v \in Workers \ {w} : subject'[v] = subject[v] /\ file'[v] = file[v],
           next \in AboutTrip => subject'[w] \in Trips /\ trips[subject'[w]].status # "NONE",
           next \in AboutFile => file'[w] \in Files
    PROVE  TypeInv'
  <1> USE RecordsAssumption DEF Begin, Goto, records, histories
  <1>1. TypeOK'
    <2>1. pc' \in [Workers -> PcValues] /\ calls' \in 0 .. MaxCalls
      BY DEF TypeInv, TypeOK, PcValues
    <2>2. UNCHANGED <<trips, pod, events, delays, notices, disk, asset, seen, stale, unheard, torn>>
      OBVIOUS
    <2> QED
      BY <2>1, <2>2 DEF TypeInv, TypeOK, PcValues
  <1>2. pc'[w] = next /\ \A v \in Workers \ {w} : pc'[v] = pc[v]
    BY DEF TypeInv, TypeOK
  <1>3. Held'
    <2> SUFFICES ASSUME NEW v \in Workers
                 PROVE  /\ pc'[v] \in AboutTrip => subject'[v] \in Trips /\ trips'[subject'[v]].status # "NONE"
                        /\ pc'[v] \in AboutFile => file'[v] \in Files
      BY DEF Held
    <2>1. trips' = trips
      OBVIOUS
    <2>2. CASE v = w
      BY <1>2, <2>1, <2>2
    <2>3. CASE v # w
      BY <1>2, <2>1, <2>3 DEF TypeInv, Held
    <2> QED
      BY <2>2, <2>3
  <1> QED
    BY <1>1, <1>3 DEF TypeInv

\* A worker goes on to its next statement with what it holds.
LEMMA GoesOnTyped ==
    ASSUME TypeInv, NEW w \in Workers, NEW next \in PcValues, Goto(w, next),
           UNCHANGED <<trips, subject, file>>,
           next \in AboutTrip => pc[w] \in AboutTrip,
           next \in AboutFile => pc[w] \in AboutFile
    PROVE  /\ pc' \in [Workers -> PcValues]
           /\ pc'[w] = next
           /\ \A v \in Workers \ {w} : pc'[v] = pc[v]
           /\ Held'
  <1>1. pc' \in [Workers -> PcValues] /\ pc'[w] = next /\ \A v \in Workers \ {w} : pc'[v] = pc[v]
    BY DEF Goto, TypeInv, TypeOK, PcValues
  <1>2. Held'
    BY <1>1 DEF TypeInv, Held
  <1> QED
    BY <1>1, <1>2

\* A request ends.
LEMMA EndTyped ==
    ASSUME TypeInv, NEW w \in Workers, End(w), UNCHANGED trips
    PROVE  /\ pc' \in [Workers -> PcValues]
           /\ pc'[w] = "idle" /\ file'[w] = Null
           /\ \A v \in Workers \ {w} :
                 pc'[v] = pc[v] /\ subject'[v] = subject[v] /\ file'[v] = file[v] /\ seen'[v] = seen[v]
           /\ file' \in [Workers -> Files \cup {Null}]
           /\ subject' \in [Workers -> Trips \cup Clients \cup {Null}]
           /\ seen' \in [Workers -> {"none", "saved", "confirmed"}]
           /\ confirm' \in [Workers -> BOOLEAN]
           /\ stale' \in [Workers -> BOOLEAN]
           /\ Held'
  <1>1. /\ pc' \in [Workers -> PcValues]
        /\ pc'[w] = "idle" /\ file'[w] = Null
        /\ \A v \in Workers \ {w} :
              pc'[v] = pc[v] /\ subject'[v] = subject[v] /\ file'[v] = file[v] /\ seen'[v] = seen[v]
        /\ file' \in [Workers -> Files \cup {Null}]
        /\ subject' \in [Workers -> Trips \cup Clients \cup {Null}]
        /\ seen' \in [Workers -> {"none", "saved", "confirmed"}]
        /\ confirm' \in [Workers -> BOOLEAN]
        /\ stale' \in [Workers -> BOOLEAN]
    BY DEF End, Goto, TypeInv, TypeOK, PcValues
  <1>2. Held'
    BY <1>1 DEF TypeInv, Held, AboutTrip, AboutFile, Upserting, Storing, Removing
  <1> QED
    BY <1>1, <1>2

\* A trip changes: the ids of those that have been created stay.
LEMMA SetStatusTyped ==
    ASSUME TypeInv, NEW t \in Trips, NEW c \in Clients \cup {Null},
           NEW s \in {"STARTED", "COMPLETED", "DELETED"}, SetStatus(t, c, s)
    PROVE  /\ trips' \in [Trips -> [client : Clients \cup {Null},
                                    status : {"NONE", "STARTED", "COMPLETED", "DELETED"}]]
           /\ trips'[t].status = s
           /\ \A u \in Trips \ {t} : trips'[u] = trips[u]
           /\ stale' \in [Workers -> BOOLEAN]
           /\ Held'
  <1>1. /\ trips' \in [Trips -> [client : Clients \cup {Null},
                                 status : {"NONE", "STARTED", "COMPLETED", "DELETED"}]]
        /\ trips'[t].status = s
        /\ \A u \in Trips \ {t} : trips'[u] = trips[u]
    BY DEF SetStatus, TypeInv, TypeOK
  <1>2. stale' \in [Workers -> BOOLEAN]
    <2>1. \A w \in Workers : (stale[w] \/ (pc[w] = "query" /\ Half(w))) \in BOOLEAN
      OBVIOUS
    <2> QED
      BY <2>1 DEF SetStatus, Disturb, TypeInv, TypeOK
  <1>3. Held'
    <2>1. UNCHANGED <<pc, subject, file>>
      BY DEF SetStatus, locals
    <2>2. \A u \in Trips : trips[u].status # "NONE" => trips'[u].status # "NONE"
      BY <1>1
    <2> QED
      BY <2>1, <2>2 DEF TypeInv, Held
  <1> QED
    BY <1>1, <1>2, <1>3

LEMMA TypeInvStep == TypeInv /\ [Next]_vars => TypeInv'
  <1> SUFFICES ASSUME TypeInv, [Next]_vars
               PROVE  TypeInv'
    OBVIOUS
  <1> USE RecordsAssumption
  <1>1. ASSUME NEW t \in Trips, NEW c \in Clients, CreateTrip(t, c)
        PROVE  TypeInv'
    BY <1>1, SetStatusTyped DEF CreateTrip, SetStatus, locals, TypeInv, TypeOK
  <1>2. ASSUME NEW t \in Trips, CompleteTrip(t)
        PROVE  TypeInv'
    <2>1. trips[t].client \in Clients \cup {Null}
      BY DEF TypeInv, TypeOK
    <2> QED
      BY <1>2, <2>1, SetStatusTyped DEF CompleteTrip, SetStatus, locals, TypeInv, TypeOK
  <1>3. ASSUME NEW t \in Trips, RemoveTrip(t)
        PROVE  TypeInv'
    <2>1. trips[t].client \in Clients \cup {Null}
      BY DEF TypeInv, TypeOK
    <2> QED
      BY <1>3, <2>1, SetStatusTyped DEF RemoveTrip, SetStatus, locals, TypeInv, TypeOK
  <1>4. ASSUME NEW w \in Workers, NEW t \in Trips, NEW c \in BOOLEAN, PodCall(w, t, c)
        PROVE  TypeInv'
    <2>1. "existing" \in PcValues /\ "existing" \notin AboutFile
      BY DEF PcValues, AboutFile, Upserting, Storing, Removing
    <2>2. overlapped' \in SUBSET Trips
      BY <1>4 DEF PodCall, TypeInv, TypeOK
    <2>3. /\ subject' \in [Workers -> Trips \cup Clients \cup {Null}] /\ subject'[w] = t
          /\ confirm' \in [Workers -> BOOLEAN]
          /\ file' = file /\ file \in [Workers -> Files \cup {Null}]
          /\ \A v \in Workers \ {w} : subject'[v] = subject[v]
      BY <1>4 DEF PodCall, TypeInv, TypeOK
    <2> QED
      BY <1>4, <2>1, <2>2, <2>3, BeginTyped DEF PodCall, Exists
  <1>5. ASSUME NEW w \in Workers, ReadPod(w)
        PROVE  TypeInv'
    <2>1. /\ pc' \in [Workers -> PcValues] /\ Held'
      BY <1>5, GoesOnTyped DEF ReadPod, records, PcValues, AboutTrip, AboutFile, Upserting, Storing, Removing
    <2>2. subject[w] \in Trips
      BY <1>5 DEF ReadPod, TypeInv, Held, AboutTrip, Upserting
    <2> QED
      BY <1>5, <2>1, <2>2 DEF ReadPod, records, histories, TypeInv, TypeOK, PcValues
  <1>6. ASSUME NEW w \in Workers, UpsertPod(w)
        PROVE  TypeInv'
    <2>1. pod' \in [Trips -> {"none", "saved", "confirmed"}]
      BY <1>6 DEF UpsertPod, TypeInv, TypeOK
    <2>2. CASE NewlyConfirmed(w) /\ Goto(w, "event") /\ UNCHANGED <<subject, file, seen, confirm, stale>>
      <3>1. /\ pc' \in [Workers -> PcValues] /\ Held'
        BY <1>6, <2>2, GoesOnTyped
           DEF UpsertPod, PcValues, AboutTrip, AboutFile, Upserting, Storing, Removing
      <3> QED
        BY <1>6, <2>1, <2>2, <3>1 DEF UpsertPod, TypeInv, TypeOK, PcValues
    <2>3. CASE End(w)
      BY <1>6, <2>1, <2>3, EndTyped DEF UpsertPod, TypeInv, TypeOK, PcValues
    <2> QED
      BY <1>6, <2>2, <2>3 DEF UpsertPod
  <1>7. ASSUME NEW w \in Workers, RecordEvent(w)
        PROVE  TypeInv'
    <2>1. /\ pc' \in [Workers -> PcValues] /\ Held'
      BY <1>7, GoesOnTyped DEF RecordEvent, PcValues, AboutTrip, AboutFile, Upserting, Storing, Removing
    <2>2. events' \in [Trips -> Nat]
      <3>1. subject[w] \in Trips
        BY <1>7 DEF RecordEvent, TypeInv, Held, AboutTrip, Upserting
      <3>2. events \in [Trips -> Nat] /\ events' = [events EXCEPT ![subject[w]] = events[subject[w]] + 1]
        BY <1>7 DEF RecordEvent, TypeInv, TypeOK
      <3> QED
        BY <3>1, <3>2
    <2> QED
      BY <1>7, <2>1, <2>2 DEF RecordEvent, histories, TypeInv, TypeOK, PcValues
  <1>8. ASSUME NEW w \in Workers, NEW s, NEW k \in Kinds, s \in {"podNotice", "delayNotice"}, Notify(w, s, k)
        PROVE  TypeInv'
    <2>1. notices' \in [Kinds -> [Trips -> Nat]]
      <3>1. subject[w] \in Trips
        BY <1>8 DEF Notify, TypeInv, Held, AboutTrip, Upserting
      <3>2. notices \in [Kinds -> [Trips -> Nat]]
        BY DEF TypeInv, TypeOK
      <3>3. CASE notices' = [notices EXCEPT ![k][subject[w]] = @ + 1]
        <4>1. /\ \A j \in Kinds \ {k} : notices'[j] = notices[j]
              /\ notices'[k] = [notices[k] EXCEPT ![subject[w]] = notices[k][subject[w]] + 1]
          BY <3>2, <3>3
        <4>2. notices'[k] \in [Trips -> Nat]
          BY <3>1, <3>2, <4>1
        <4>3. \A j \in Kinds : notices'[j] \in [Trips -> Nat]
          BY <3>2, <4>1, <4>2
        <4> QED
          BY <3>2, <3>3, <4>3
      <3> QED
        BY <1>8, <3>2, <3>3 DEF Notify
    <2> QED
      BY <1>8, <2>1, EndTyped DEF Notify, TypeInv, TypeOK, PcValues
  <1>9. ASSUME NEW w \in Workers, NEW t \in Trips, DelayCall(w, t)
        PROVE  TypeInv'
    <2>1. "insert" \in PcValues /\ "insert" \notin AboutFile
      BY DEF PcValues, AboutFile, Upserting, Storing, Removing
    <2>2. /\ subject' \in [Workers -> Trips \cup Clients \cup {Null}] /\ subject'[w] = t
          /\ UNCHANGED <<confirm, file, overlapped>>
          /\ file \in [Workers -> Files \cup {Null}] /\ confirm \in [Workers -> BOOLEAN]
          /\ overlapped \in SUBSET Trips
          /\ \A v \in Workers \ {w} : subject'[v] = subject[v]
      BY <1>9 DEF DelayCall, TypeInv, TypeOK
    <2> QED
      BY <1>9, <2>1, <2>2, BeginTyped DEF DelayCall, Exists
  <1>10. ASSUME NEW w \in Workers, InsertDelay(w)
         PROVE  TypeInv'
    <2>1. /\ pc' \in [Workers -> PcValues] /\ Held'
      BY <1>10, GoesOnTyped DEF InsertDelay, PcValues, AboutTrip, AboutFile, Upserting, Storing, Removing
    <2>2. delays' \in [Trips -> Nat]
      <3>1. subject[w] \in Trips
        BY <1>10 DEF InsertDelay, TypeInv, Held, AboutTrip
      <3>2. delays \in [Trips -> Nat] /\ delays' = [delays EXCEPT ![subject[w]] = delays[subject[w]] + 1]
        BY <1>10 DEF InsertDelay, TypeInv, TypeOK
      <3> QED
        BY <3>1, <3>2
    <2> QED
      BY <1>10, <2>1, <2>2 DEF InsertDelay, histories, TypeInv, TypeOK, PcValues
  <1>11. ASSUME NEW w \in Workers, NEW t \in Trips, NEW f \in Files, StoreCall(w, t, f)
         PROVE  TypeInv'
    <2>1. "write" \in PcValues
      BY DEF PcValues, Storing
    <2>2. /\ subject' \in [Workers -> Trips \cup Clients \cup {Null}] /\ subject'[w] = t
          /\ file' \in [Workers -> Files \cup {Null}] /\ file'[w] = f
          /\ UNCHANGED <<confirm, overlapped>>
          /\ confirm \in [Workers -> BOOLEAN] /\ overlapped \in SUBSET Trips
          /\ \A v \in Workers \ {w} : subject'[v] = subject[v] /\ file'[v] = file[v]
      BY <1>11 DEF StoreCall, TypeInv, TypeOK
    <2> QED
      BY <1>11, <2>1, <2>2, BeginTyped DEF StoreCall, Exists
  <1>12. ASSUME NEW w \in Workers, WriteFile(w)
         PROVE  TypeInv'
    <2>1. /\ pc' \in [Workers -> PcValues] /\ Held'
      BY <1>12, GoesOnTyped DEF WriteFile, PcValues, AboutTrip, AboutFile, Upserting, Storing, Removing
    <2>2. file[w] \in Files
      BY <1>12 DEF WriteFile, TypeInv, Held, AboutFile, Storing
    <2> QED
      BY <1>12, <2>1, <2>2 DEF WriteFile, histories, TypeInv, TypeOK, PcValues
  <1>13. ASSUME NEW w \in Workers, InsertAsset(w)
         PROVE  TypeInv'
    <2>1. subject[w] \in Trips
      BY <1>13 DEF InsertAsset, TypeInv, Held, AboutTrip, Storing
    <2>2. asset' \in [Files -> Trips \cup {Null}]
      BY <1>13, <2>1 DEF InsertAsset, TypeInv, TypeOK
    <2> QED
      BY <1>13, <2>2, EndTyped DEF InsertAsset, TypeInv, TypeOK, PcValues
  <1>14. ASSUME NEW w \in Workers, NEW f \in Files, RemoveCall(w, f)
         PROVE  TypeInv'
    <2>1. "unlink" \in PcValues /\ "unlink" \notin AboutTrip
      BY DEF PcValues, AboutTrip, Upserting, Storing, Removing
    <2>2. /\ UNCHANGED <<subject, confirm, overlapped>>
          /\ subject \in [Workers -> Trips \cup Clients \cup {Null}]
          /\ file' \in [Workers -> Files \cup {Null}] /\ file'[w] = f
          /\ confirm \in [Workers -> BOOLEAN] /\ overlapped \in SUBSET Trips
          /\ \A v \in Workers \ {w} : file'[v] = file[v]
      BY <1>14 DEF RemoveCall, TypeInv, TypeOK
    <2> QED
      BY <1>14, <2>1, <2>2, BeginTyped DEF RemoveCall
  <1>15. ASSUME NEW w \in Workers, Unlink(w)
         PROVE  TypeInv'
    <2>1. /\ pc' \in [Workers -> PcValues] /\ Held'
      BY <1>15, GoesOnTyped DEF Unlink, PcValues, AboutTrip, AboutFile, Upserting, Storing, Removing
    <2> QED
      BY <1>15, <2>1 DEF Unlink, histories, TypeInv, TypeOK, PcValues
  <1>16. ASSUME NEW w \in Workers, DeleteAsset(w)
         PROVE  TypeInv'
    <2>1. asset' \in [Files -> Trips \cup {Null}]
      BY <1>16 DEF DeleteAsset, TypeInv, TypeOK
    <2> QED
      BY <1>16, <2>1, EndTyped DEF DeleteAsset, TypeInv, TypeOK, PcValues
  <1>17. ASSUME NEW w \in Workers, NEW c \in Clients \cup {Null}, MetricsCall(w, c)
         PROVE  TypeInv'
    <2>1. "query" \in PcValues /\ "query" \notin AboutTrip /\ "query" \notin AboutFile
      BY DEF PcValues, AboutTrip, AboutFile, Upserting, Storing, Removing, Reading
    <2>2. /\ UNCHANGED <<file, confirm, overlapped>>
          /\ subject' \in [Workers -> Trips \cup Clients \cup {Null}]
          /\ file \in [Workers -> Files \cup {Null}]
          /\ confirm \in [Workers -> BOOLEAN] /\ overlapped \in SUBSET Trips
          /\ \A v \in Workers \ {w} : subject'[v] = subject[v]
      BY <1>17 DEF MetricsCall, TypeInv, TypeOK
    <2> QED
      BY <1>17, <2>1, <2>2, BeginTyped DEF MetricsCall
  <1>18. ASSUME NEW w \in Workers, CountTrips(w) \/ ListCompleted(w)
         PROVE  TypeInv'
    BY <1>18 DEF CountTrips, ListCompleted, records, histories, TypeInv, TypeOK, Held
  <1>19. ASSUME NEW w \in Workers, Answer(w)
         PROVE  TypeInv'
    BY <1>19, EndTyped DEF Answer, records, TypeInv, TypeOK, PcValues
  <1>20. ASSUME NEW w \in Workers, Abandon(w)
         PROVE  TypeInv'
    <2>1. unheard' \in SUBSET Trips
      BY <1>20 DEF Abandon, TypeInv, TypeOK, Held, AboutTrip, Upserting
    <2>2. torn' \in SUBSET Files
      BY <1>20 DEF Abandon, TypeInv, TypeOK, Held, AboutFile, Storing, Removing
    <2> QED
      BY <1>20, <2>1, <2>2, EndTyped DEF Abandon, records, TypeInv, TypeOK, PcValues
  <1>21. ASSUME UNCHANGED vars
         PROVE  TypeInv'
    BY <1>21 DEF vars, records, locals, histories, TypeInv, TypeOK, Held
  <1>22. ASSUME NEW w \in Workers, NotifyPod(w) \/ NotifyDelay(w)
         PROVE  TypeInv'
    BY <1>22, <1>8 DEF NotifyPod, NotifyDelay, Kinds
  <1> QED
    BY <1>1, <1>2, <1>3, <1>4, <1>5, <1>6, <1>7, <1>9, <1>10, <1>11, <1>12, <1>13, <1>14,
       <1>15, <1>16, <1>17, <1>18, <1>19, <1>20, <1>21, <1>22
       DEF Next, Trip, Proof, ReportDelay, Upload, Metrics

\* Every variable keeps its type, whatever the numbers of trips, files and workers.
THEOREM TypeCorrect == Spec => []TypeOK
  <1>1. Init => TypeInv
    BY InitTyped
  <1>2. TypeInv => TypeOK
    BY DEF TypeInv
  <1> QED
    BY <1>1, <1>2, TypeInvStep, PTL DEF Spec

-----------------------------------------------------------------------------
(* Files                                                                   *)

\* The file of a store in progress is nobody else's and has no row; it is on the disk
\* once written, and a file whose row is about to go is not.
FilesInv ==
    /\ \A w \in Workers : pc[w] \in Storing =>
           /\ asset[file[w]] = Null
           /\ \A v \in Workers \ {w} : file[v] # file[w]
    /\ \A w \in Workers : pc[w] = "asset" => file[w] \in disk
    /\ \A w \in Workers : pc[w] = "delete" => file[w] \notin disk
    /\ FilesAccounted

\* A step that leaves the files alone, and whose worker is not between a file and its row.
LEMMA FilesUntouched ==
    ASSUME TypeInv, FilesInv, UNCHANGED <<disk, asset, torn>>,
           \A w \in Workers :
               \/ pc'[w] = pc[w] /\ file'[w] = file[w]
               \/ /\ pc[w] \notin {"asset", "delete"} /\ pc'[w] \notin AboutFile
                  /\ file'[w] = file[w] \/ file'[w] = Null
    PROVE  FilesInv'
  <1>1. \A w \in Workers : pc'[w] \in AboutFile => pc'[w] = pc[w] /\ file'[w] = file[w] /\ file[w] \in Files
    BY DEF TypeInv, Held
  <1>2. \A w \in Workers : pc[w] \in {"asset", "delete"} => pc'[w] = pc[w] /\ file'[w] = file[w]
    OBVIOUS
  <1>3. \A w \in Workers : pc'[w] \in Storing =>
            /\ asset'[file'[w]] = Null
            /\ \A v \in Workers \ {w} : file'[v] # file'[w]
    BY <1>1, RecordsAssumption DEF FilesInv, AboutFile
  <1>4. \A w \in Workers : /\ pc'[w] = "asset" => file'[w] \in disk'
                           /\ pc'[w] = "delete" => file'[w] \notin disk'
    BY <1>1 DEF FilesInv, AboutFile, Storing, Removing
  <1>5. FilesAccounted'
    BY <1>2 DEF FilesInv, FilesAccounted
  <1> QED
    BY <1>3, <1>4, <1>5 DEF FilesInv

LEMMA InitFiles == Init => FilesInv
  BY DEF Init, FilesInv, FilesAccounted, Storing

LEMMA FilesStep == TypeInv /\ FilesInv /\ [Next]_vars => FilesInv'
  <1> SUFFICES ASSUME TypeInv, FilesInv, [Next]_vars
               PROVE  FilesInv'
    OBVIOUS
  <1> USE RecordsAssumption
  <1> DEFINE Aside(w) ==
               /\ UNCHANGED <<disk, asset, torn>>
               /\ \A v \in Workers \ {w} : pc'[v] = pc[v] /\ file'[v] = file[v]
               /\ pc[w] \notin {"asset", "delete"} /\ pc'[w] \notin AboutFile
               /\ file'[w] = file[w] \/ file'[w] = Null
  <1>1. ASSUME NEW w \in Workers, Aside(w)
        PROVE  FilesInv'
    BY <1>1, FilesUntouched
  <1> HIDE DEF Aside
  <1>2. ASSUME NEW t \in Trips, (\E c \in Clients : CreateTrip(t, c)) \/ CompleteTrip(t)
        PROVE  FilesInv'
    BY <1>2, FilesUntouched DEF CreateTrip, CompleteTrip, SetStatus, locals
  <1>3. ASSUME NEW t \in Trips, RemoveTrip(t)
        PROVE  FilesInv'
    <2>1. UNCHANGED <<pc, file, disk>>
      BY <1>3 DEF RemoveTrip, SetStatus, locals
    <2>2. \A f \in Files : /\ asset'[f] = Null \/ asset'[f] = asset[f]
                           /\ f \notin torn' => asset'[f] = asset[f]
      BY <1>3 DEF RemoveTrip
    <2>3. torn \subseteq torn'
      BY <1>3 DEF RemoveTrip
    <2>4. FilesAccounted'
      BY <2>1, <2>2, <2>3 DEF FilesInv, FilesAccounted
    <2>5. \A w \in Workers : pc[w] \in Storing => asset'[file[w]] = Null
      BY <2>2 DEF FilesInv, TypeInv, Held, AboutFile
    <2> QED
      BY <2>1, <2>4, <2>5 DEF FilesInv
  <1>4. ASSUME NEW w \in Workers,
               \/ \E t \in Trips, c \in BOOLEAN : PodCall(w, t, c)
               \/ \E t \in Trips : DelayCall(w, t)
               \/ \E c \in Clients \cup {Null} : MetricsCall(w, c)
        PROVE  FilesInv'
    <2>1. PICK next \in {"existing", "insert", "query"} : Begin(w, next) /\ UNCHANGED file
      BY <1>4 DEF PodCall, DelayCall, MetricsCall
    <2>2. Aside(w)
      BY <2>1 DEF Aside, Begin, Goto, records, TypeInv, TypeOK, AboutFile, Storing, Removing
    <2> QED
      BY <1>1, <2>2
  <1>5. ASSUME NEW w \in Workers,
               \/ ReadPod(w)
               \/ UpsertPod(w) /\ Goto(w, "event") /\ UNCHANGED file
               \/ RecordEvent(w) \/ InsertDelay(w)
        PROVE  FilesInv'
    <2>1. PICK next \in {"upsert", "event", "podNotice", "delayNotice"} : Goto(w, next)
      BY <1>5 DEF ReadPod, RecordEvent, InsertDelay
    <2>2. pc[w] \in {"existing", "upsert", "event", "insert"} /\ UNCHANGED <<disk, asset, torn, file>>
      BY <1>5 DEF ReadPod, UpsertPod, RecordEvent, InsertDelay, records, histories
    <2>3. Aside(w)
      BY <2>1, <2>2 DEF Aside, Goto, TypeInv, TypeOK, AboutFile, Storing, Removing
    <2> QED
      BY <1>1, <2>3
  <1>6. ASSUME NEW w \in Workers,
               \/ UpsertPod(w) /\ End(w)
               \/ NotifyPod(w) \/ NotifyDelay(w) \/ Answer(w)
               \/ Abandon(w) /\ pc[w] \notin {"asset", "delete"}
        PROVE  FilesInv'
    <2>1. End(w) /\ UNCHANGED <<disk, asset, torn>> /\ pc[w] \notin {"asset", "delete"}
      BY <1>6 DEF UpsertPod, NotifyPod, NotifyDelay, Notify, Answer, Answered, Abandon, records
    <2>2. Aside(w)
      BY <2>1 DEF Aside, End, Goto, TypeInv, TypeOK, AboutFile, Storing, Removing
    <2> QED
      BY <1>1, <2>2
  <1>7. ASSUME NEW w \in Workers, NEW t \in Trips, NEW f \in Files, StoreCall(w, t, f)
        PROVE  FilesInv'
    <2>1. /\ pc[w] = "idle" /\ pc'[w] = "write" /\ file'[w] = f
          /\ \A v \in Workers \ {w} : pc'[v] = pc[v] /\ file'[v] = file[v]
          /\ UNCHANGED <<disk, asset, torn>>
          /\ asset[f] = Null /\ \A v \in Workers : file[v] # f
      BY <1>7 DEF StoreCall, Begin, Goto, records, TypeInv, TypeOK
    <2>2. FilesAccounted'
      BY <2>1 DEF FilesInv, FilesAccounted
    <2> QED
      BY <2>1, <2>2 DEF FilesInv, Storing
  <1>8. ASSUME NEW w \in Workers, WriteFile(w)
        PROVE  FilesInv'
    <2>1. /\ pc[w] = "write" /\ pc'[w] = "asset" /\ file' = file
          /\ \A v \in Workers \ {w} : pc'[v] = pc[v]
          /\ UNCHANGED <<asset, torn>> /\ disk' = disk \cup {file[w]}
      BY <1>8 DEF WriteFile, Goto, histories, TypeInv, TypeOK
    <2>2. \A v \in Workers \ {w} : file[v] # file[w]
      BY <2>1 DEF FilesInv, Storing
    <2>3. FilesAccounted'
      BY <2>1 DEF FilesInv, FilesAccounted
    <2> QED
      BY <2>1, <2>2, <2>3 DEF FilesInv, Storing
  <1>9. ASSUME NEW w \in Workers, InsertAsset(w)
        PROVE  FilesInv'
    <2>1. /\ pc[w] = "asset" /\ pc'[w] = "idle" /\ file'[w] = Null
          /\ \A v \in Workers \ {w} : pc'[v] = pc[v] /\ file'[v] = file[v]
          /\ UNCHANGED <<disk, torn>> /\ subject[w] \in Trips /\ file[w] \in Files
          /\ asset'[file[w]] = subject[w]
          /\ \A f \in Files \ {file[w]} : asset'[f] = asset[f]
      BY <1>9 DEF InsertAsset, End, Goto, TypeInv, TypeOK, Held, AboutTrip, AboutFile, Storing
    <2>2. file[w] \in disk /\ \A v \in Workers \ {w} : file[v] # file[w]
      BY <2>1 DEF FilesInv, Storing
    <2>3. FilesAccounted'
      BY <2>1, <2>2 DEF FilesInv, FilesAccounted
    <2>4. \A v \in Workers : pc'[v] \in Storing =>
             asset'[file'[v]] = Null /\ \A u \in Workers \ {v} : file'[u] # file'[v]
      BY <2>1, <2>2 DEF FilesInv, TypeInv, Held, AboutFile, Storing
    <2> QED
      BY <2>1, <2>3, <2>4 DEF FilesInv
  <1>10. ASSUME NEW w \in Workers, NEW f \in Files, RemoveCall(w, f)
         PROVE  FilesInv'
    <2>1. /\ pc[w] = "idle" /\ pc'[w] = "unlink" /\ file'[w] = f
          /\ \A v \in Workers \ {w} : pc'[v] = pc[v] /\ file'[v] = file[v]
          /\ UNCHANGED <<disk, asset, torn>> /\ asset[f] # Null
      BY <1>10 DEF RemoveCall, Begin, Goto, records, TypeInv, TypeOK
    <2>2. FilesAccounted'
      BY <2>1 DEF FilesInv, FilesAccounted
    <2> QED
      BY <2>1, <2>2 DEF FilesInv, Storing
  <1>11. ASSUME NEW w \in Workers, Unlink(w)
         PROVE  FilesInv'
    <2>1. /\ pc[w] = "unlink" /\ pc'[w] = "delete" /\ file' = file
          /\ \A v \in Workers \ {w} : pc'[v] = pc[v]
          /\ UNCHANGED <<asset, torn>> /\ disk' = disk \ {file[w]}
      BY <1>11 DEF Unlink, Goto, histories, TypeInv, TypeOK
    <2>2. \A v \in Workers : pc[v] \in Storing => file[v] # file[w]
      BY <2>1 DEF FilesInv, Storing
    <2>3. FilesAccounted'
      BY <2>1 DEF FilesInv, FilesAccounted
    <2> QED
      BY <2>1, <2>2, <2>3 DEF FilesInv, Storing
  <1>12. ASSUME NEW w \in Workers, DeleteAsset(w)
         PROVE  FilesInv'
    <2>1. /\ pc[w] = "delete" /\ pc'[w] = "idle" /\ file'[w] = Null
          /\ \A v \in Workers \ {w} : pc'[v] = pc[v] /\ file'[v] = file[v]
          /\ UNCHANGED <<disk, torn>> /\ file[w] \in Files
          /\ asset'[file[w]] = Null
          /\ \A f \in Files \ {file[w]} : asset'[f] = asset[f]
      BY <1>12 DEF DeleteAsset, End, Goto, TypeInv, TypeOK, Held, AboutFile, Removing
    <2>2. file[w] \notin disk
      BY <2>1 DEF FilesInv
    <2>3. FilesAccounted'
      BY <2>1, <2>2 DEF FilesInv, FilesAccounted
    <2>4. \A v \in Workers : pc'[v] \in Storing =>
             asset'[file'[v]] = Null /\ \A u \in Workers \ {v} : file'[u] # file'[v]
      BY <2>1 DEF FilesInv, TypeInv, Held, AboutFile, Storing
    <2> QED
      BY <2>1, <2>3, <2>4 DEF FilesInv
  <1>13. ASSUME NEW w \in Workers, Abandon(w), pc[w] \in {"asset", "delete"}
         PROVE  FilesInv'
    <2>1. /\ pc'[w] = "idle" /\ file'[w] = Null /\ file[w] \in Files
          /\ \A v \in Workers \ {w} : pc'[v] = pc[v] /\ file'[v] = file[v]
          /\ UNCHANGED <<disk, asset>> /\ torn' = torn \cup {file[w]}
      BY <1>13 DEF Abandon, End, Goto, records, TypeInv, TypeOK, Held, AboutFile, Storing, Removing
    <2>2. FilesAccounted'
      BY <2>1 DEF FilesInv, FilesAccounted
    <2>3. \A v \in Workers : pc'[v] \in Storing =>
             asset'[file'[v]] = Null /\ \A u \in Workers \ {v} : file'[u] # file'[v]
      BY <2>1 DEF FilesInv, TypeInv, Held, AboutFile, Storing
    <2> QED
      BY <2>1, <2>2, <2>3 DEF FilesInv
  <1>14. ASSUME NEW w \in Workers, CountTrips(w) \/ ListCompleted(w)
         PROVE  FilesInv'
    BY <1>14, FilesUntouched DEF CountTrips, ListCompleted, records, histories
  <1>15. ASSUME UNCHANGED vars
         PROVE  FilesInv'
    BY <1>15, FilesUntouched DEF vars, records, locals, histories
  <1>16. ASSUME NEW w \in Workers, UpsertPod(w)
         PROVE  FilesInv'
    BY <1>5, <1>6, <1>16 DEF UpsertPod
  <1>17. ASSUME NEW w \in Workers, Abandon(w)
         PROVE  FilesInv'
    BY <1>6, <1>13, <1>17
  <1> QED
    BY <1>2, <1>3, <1>4, <1>5, <1>6, <1>7, <1>8, <1>9, <1>10, <1>11, <1>12, <1>14, <1>15, <1>16,
       <1>17 DEF Next, Trip, Proof, ReportDelay, Upload, Metrics

\* UploadService: a row always has its file and a file its row, except while a store or
\* a removal is under way, after one broke off, or when the trip of the file is deleted.
THEOREM FilesAreAccounted == Spec => []FilesAccounted
  <1>1. Init => TypeInv /\ FilesInv
    BY InitTyped, InitFiles
  <1>2. TypeInv /\ FilesInv /\ [Next]_vars => TypeInv' /\ FilesInv'
    BY TypeInvStep, FilesStep
  <1>3. FilesInv => FilesAccounted
    BY DEF FilesInv
  <1> QED
    BY <1>1, <1>2, <1>3, PTL DEF Spec

-----------------------------------------------------------------------------
(* Announcements                                                           *)

\* The requests that are about to store a notice about t.
Owing(statement, t) == {w \in Workers : pc[w] = statement /\ subject[w] = t}

\* Every notice, stored or still owed, has its event or its delay.
NoticesOwed ==
    \A t \in Trips : Exists(t) =>
        /\ notices["pod"][t] + Cardinality(Owing("podNotice", t)) <= events[t]
        /\ notices["delay"][t] + Cardinality(Owing("delayNotice", t)) <= delays[t]

\* A trip that is not there yet has nothing beside it.
NothingBefore ==
    \A t \in Trips : trips[t].status = "NONE" =>
        /\ pod[t] = "none" /\ events[t] = 0 /\ delays[t] = 0
        /\ notices["pod"][t] = 0 /\ notices["delay"][t] = 0

\* Without overlap one request at a time saves the proof of a trip, and what it read
\* is still the row when it writes; with overlap a confirmation it read still stands.
SavesApart ==
    /\ \A v, w \in Workers :
           /\ pc[v] \in Upserting /\ pc[w] \in Upserting
           /\ subject[v] = subject[w] /\ subject[v] \notin overlapped
           => v = w
    /\ \A w \in Workers :
           /\ pc[w] = "upsert" /\ Exists(subject[w]) =>
                 /\ subject[w] \notin overlapped => seen[w] = pod[subject[w]]
                 /\ seen[w] = "confirmed" => pod[subject[w]] = "confirmed"
           /\ pc[w] = "event" /\ Exists(subject[w]) =>
                 /\ pod[subject[w]] = "confirmed"
                 /\ subject[w] \notin overlapped => events[subject[w]] = 0

AnnounceInv == NoticesOwed /\ NothingBefore /\ SavesApart /\ AnnouncedOnce

Concerned == Upserting \cup {"delayNotice"}

LEMMA OwingFinite ==
    ASSUME NEW s, NEW t
    PROVE  /\ IsFiniteSet(Owing(s, t)) /\ Cardinality(Owing(s, t)) \in Nat
           /\ (Owing(s, t) = {}) => Cardinality(Owing(s, t)) = 0
  <1>1. Owing(s, t) \subseteq Workers
    BY DEF Owing
  <1> QED
    BY <1>1, FS_Subset, FS_CardinalityType, FS_EmptySet, RecordsAssumption

\* When nobody new owes a notice, no fewer are owed only if they are stored or dropped.
LEMMA OwingShrinks ==
    ASSUME NEW s, NEW t, Owing(s, t)' \subseteq Owing(s, t)
    PROVE  /\ Cardinality(Owing(s, t)') \in Nat
           /\ Cardinality(Owing(s, t)') <= Cardinality(Owing(s, t))
  BY OwingFinite, FS_Subset, FS_CardinalityType

LEMMA OwingLoses ==
    ASSUME NEW s, NEW t, NEW w \in Owing(s, t), Owing(s, t)' = Owing(s, t) \ {w}
    PROVE  Cardinality(Owing(s, t)') = Cardinality(Owing(s, t)) - 1
  BY OwingFinite, FS_RemoveElement

LEMMA OwingGains ==
    ASSUME NEW s, NEW t, NEW w, w \notin Owing(s, t), Owing(s, t)' = Owing(s, t) \cup {w}
    PROVE  Cardinality(Owing(s, t)') = Cardinality(Owing(s, t)) + 1
  BY OwingFinite, FS_AddElement

LEMMA NoticeTypes ==
    TypeInv => \A t \in Trips : /\ notices["pod"][t] \in Nat /\ notices["delay"][t] \in Nat
                               /\ events[t] \in Nat /\ delays[t] \in Nat
  BY DEF TypeInv, TypeOK, Kinds

LEMMA InitAnnounce == Init => AnnounceInv
  <1> SUFFICES ASSUME Init
               PROVE  AnnounceInv
    OBVIOUS
  <1>1. \A t \in Trips : ~Exists(t)
    BY DEF Init, Exists
  <1> QED
    BY <1>1 DEF Init, AnnounceInv, NoticesOwed, NothingBefore, SavesApart, AnnouncedOnce, Kinds, Upserting

\* A step that stores nothing about a delivery, whose worker at most stops.
LEMMA DeliveriesUntouched ==
    ASSUME TypeInv, AnnounceInv,
           UNCHANGED <<trips, pod, events, delays, notices, overlapped>>,
           unheard \subseteq unheard',
           \A w \in Workers :
               /\ pc'[w] \in Concerned => pc'[w] = pc[w] /\ subject'[w] = subject[w] /\ seen'[w] = seen[w]
               /\ pc[w] = "event" => \/ pc'[w] = "event" /\ subject'[w] = subject[w]
                                    \/ subject[w] \in unheard'
    PROVE  AnnounceInv'
  <1>1. NoticesOwed'
    <2> SUFFICES ASSUME NEW t \in Trips, Exists(t)
                 PROVE  /\ notices["pod"][t] + Cardinality(Owing("podNotice", t)') <= events[t]
                        /\ notices["delay"][t] + Cardinality(Owing("delayNotice", t)') <= delays[t]
      BY DEF NoticesOwed, Exists
    <2>1. \A s \in {"podNotice", "delayNotice"} : Owing(s, t)' \subseteq Owing(s, t)
      BY DEF Owing, Concerned, Upserting
    <2>2. /\ notices["pod"][t] + Cardinality(Owing("podNotice", t)) <= events[t]
          /\ notices["delay"][t] + Cardinality(Owing("delayNotice", t)) <= delays[t]
      BY DEF AnnounceInv, NoticesOwed
    <2>3. \A s \in {"podNotice", "delayNotice"} :
             /\ Cardinality(Owing(s, t)') \in Nat /\ Cardinality(Owing(s, t)) \in Nat
             /\ Cardinality(Owing(s, t)') <= Cardinality(Owing(s, t))
      BY <2>1, OwingShrinks, OwingFinite
    <2> QED
      BY <2>2, <2>3, NoticeTypes
  <1>2. NothingBefore'
    BY DEF AnnounceInv, NothingBefore
  <1>3. SavesApart'
    BY DEF AnnounceInv, SavesApart, Exists, Concerned, Upserting
  <1>4. AnnouncedOnce'
    BY DEF AnnounceInv, AnnouncedOnce, Exists
  <1> QED
    BY <1>1, <1>2, <1>3, <1>4 DEF AnnounceInv

\* A trip is completed or deleted.
LEMMA TripEnds ==
    ASSUME TypeInv, AnnounceInv,
           UNCHANGED <<pc, subject, seen, notices, overlapped, unheard>>,
           \A u \in Trips :
               /\ Exists(u)' => Exists(u) /\ pod'[u] = pod[u] /\ events'[u] = events[u] /\ delays'[u] = delays[u]
               /\ trips'[u].status = "NONE" =>
                      /\ trips[u].status = "NONE"
                      /\ pod'[u] = pod[u] /\ events'[u] = events[u] /\ delays'[u] = delays[u]
    PROVE  AnnounceInv'
  <1>1. \A s, t : Owing(s, t)' = Owing(s, t)
    BY DEF Owing
  <1>2. NoticesOwed'
    BY <1>1 DEF AnnounceInv, NoticesOwed
  <1>3. NothingBefore'
    BY DEF AnnounceInv, NothingBefore
  <1>4. SavesApart'
    <2>1. \A w \in Workers : pc[w] \in {"upsert", "event"} => subject[w] \in Trips
      BY DEF TypeInv, Held, AboutTrip, Upserting
    <2> QED
      BY <2>1 DEF AnnounceInv, SavesApart
  <1>5. AnnouncedOnce'
    BY DEF AnnounceInv, AnnouncedOnce
  <1> QED
    BY <1>2, <1>3, <1>4, <1>5 DEF AnnounceInv

LEMMA CreateAnnounce ==
    ASSUME TypeInv, AnnounceInv, NEW t \in Trips, NEW c \in Clients, CreateTrip(t, c)
    PROVE  AnnounceInv'
  <1>1. /\ UNCHANGED <<pod, events, delays, notices, pc, subject, seen, overlapped, unheard>>
        /\ trips[t].status = "NONE" /\ trips'[t].status = "STARTED"
        /\ \A u \in Trips \ {t} : trips'[u] = trips[u]
    BY DEF CreateTrip, SetStatus, locals, TypeInv, TypeOK
  <1>2. \A w \in Workers : pc[w] \in Concerned => subject[w] \in Trips \ {t}
    BY <1>1 DEF TypeInv, Held, AboutTrip, Concerned
  <1>3. \A s \in {"podNotice", "delayNotice"} : Cardinality(Owing(s, t)') = 0
    <2> SUFFICES ASSUME NEW s \in {"podNotice", "delayNotice"}
                 PROVE  Cardinality(Owing(s, t)') = 0
      OBVIOUS
    <2>1. Owing(s, t)' = {}
      BY <1>1, <1>2 DEF Owing, Concerned, Upserting
    <2> QED
      BY <2>1, FS_EmptySet
  <1>4. \A s, u : Owing(s, u)' = Owing(s, u)
    BY <1>1 DEF Owing
  <1>5. NoticesOwed'
    <2> SUFFICES ASSUME NEW u \in Trips, Exists(u)'
                 PROVE  /\ notices["pod"][u] + Cardinality(Owing("podNotice", u)') <= events[u]
                        /\ notices["delay"][u] + Cardinality(Owing("delayNotice", u)') <= delays[u]
      BY <1>1 DEF NoticesOwed
    <2>1. CASE u = t
      BY <1>1, <1>3, <2>1 DEF AnnounceInv, NothingBefore
    <2>2. CASE u # t
      BY <1>1, <1>4, <2>2 DEF AnnounceInv, NoticesOwed, Exists
    <2> QED
      BY <2>1, <2>2
  <1>6. NothingBefore'
    BY <1>1 DEF AnnounceInv, NothingBefore
  <1>7. SavesApart'
    BY <1>1, <1>2 DEF AnnounceInv, SavesApart, Exists, Concerned, Upserting
  <1>8. AnnouncedOnce'
    <2> SUFFICES ASSUME NEW u \in Trips, Exists(u)'
                 PROVE  /\ notices["pod"][u] <= events[u]
                        /\ notices["delay"][u] <= delays[u]
                        /\ u \notin overlapped => events[u] <= 1
                        /\ pod[u] = "confirmed" =>
                               \/ events[u] >= 1
                               \/ u \in unheard
                               \/ \E w \in Workers : pc[w] = "event" /\ subject[w] = u
                        /\ events[u] > 0 => pod[u] = "confirmed"
      BY <1>1 DEF AnnouncedOnce
    <2>1. CASE u = t
      BY <1>1, <2>1 DEF AnnounceInv, NothingBefore
    <2>2. CASE u # t
      BY <1>1, <2>2 DEF AnnounceInv, AnnouncedOnce, Exists
    <2> QED
      BY <2>1, <2>2
  <1> QED
    BY <1>5, <1>6, <1>7, <1>8 DEF AnnounceInv

\* Nobody owes a notice more when a request is at a statement before its notice.
LEMMA OwedStill ==
    ASSUME TypeInv, AnnounceInv, UNCHANGED <<trips, events, delays, notices>>,
           \A w \in Workers : pc'[w] \in {"podNotice", "delayNotice"} =>
               pc'[w] = pc[w] /\ subject'[w] = subject[w]
    PROVE  NoticesOwed' /\ \A t \in Trips : Exists(t)' = Exists(t)
  <1>1. \A t \in Trips : Exists(t)' = Exists(t)
    BY DEF Exists
  <1>2. NoticesOwed'
    <2> SUFFICES ASSUME NEW t \in Trips, Exists(t)
                 PROVE  /\ notices["pod"][t] + Cardinality(Owing("podNotice", t)') <= events[t]
                        /\ notices["delay"][t] + Cardinality(Owing("delayNotice", t)') <= delays[t]
      BY DEF NoticesOwed, Exists
    <2>1. \A s \in {"podNotice", "delayNotice"} : Owing(s, t)' \subseteq Owing(s, t)
      BY DEF Owing
    <2>2. /\ notices["pod"][t] + Cardinality(Owing("podNotice", t)) <= events[t]
          /\ notices["delay"][t] + Cardinality(Owing("delayNotice", t)) <= delays[t]
      BY DEF AnnounceInv, NoticesOwed
    <2>3. \A s \in {"podNotice", "delayNotice"} :
             /\ Cardinality(Owing(s, t)') \in Nat /\ Cardinality(Owing(s, t)) \in Nat
             /\ Cardinality(Owing(s, t)') <= Cardinality(Owing(s, t))
      BY <2>1, OwingShrinks, OwingFinite
    <2> QED
      BY <2>2, <2>3, NoticeTypes
  <1> QED
    BY <1>1, <1>2

LEMMA PodCallAnnounce ==
    ASSUME TypeInv, AnnounceInv, NEW w \in Workers, NEW t \in Trips, NEW c \in BOOLEAN, PodCall(w, t, c)
    PROVE  AnnounceInv'
  <1>1. /\ pc[w] = "idle" /\ pc'[w] = "existing" /\ subject'[w] = t
        /\ \A v \in Workers \ {w} : pc'[v] = pc[v] /\ subject'[v] = subject[v]
        /\ UNCHANGED <<trips, pod, events, delays, notices, seen, unheard>>
        /\ overlapped \subseteq overlapped'
        /\ t \in overlapped' \/ \A v \in Workers : ~(pc[v] \in Upserting /\ subject[v] = t)
    BY DEF PodCall, Begin, Goto, records, TypeInv, TypeOK
  <1>2. NoticesOwed' /\ \A u \in Trips : Exists(u)' = Exists(u)
    <2>1. \A v \in Workers : pc'[v] \in {"podNotice", "delayNotice"} =>
             pc'[v] = pc[v] /\ subject'[v] = subject[v]
      BY <1>1
    <2> QED
      BY <1>1, <2>1, OwedStill
  <1>3. NothingBefore'
    BY <1>1 DEF AnnounceInv, NothingBefore
  <1>4. SavesApart'
    <2>1. ASSUME NEW u \in Workers, NEW v \in Workers,
                 pc'[u] \in Upserting, pc'[v] \in Upserting,
                 subject'[u] = subject'[v], subject'[u] \notin overlapped'
          PROVE  u = v
      <3>1. CASE u = w \/ v = w
        BY <1>1, <2>1, <3>1
      <3>2. CASE u # w /\ v # w
        BY <1>1, <2>1, <3>2 DEF AnnounceInv, SavesApart
      <3> QED
        BY <3>1, <3>2
    <2>2. ASSUME NEW v \in Workers, pc'[v] \in {"upsert", "event"}
          PROVE  /\ v # w /\ pc'[v] = pc[v] /\ subject'[v] = subject[v]
                 /\ subject[v] \in Trips /\ Exists(subject[v])' = Exists(subject[v])
      <3>1. v # w /\ pc'[v] = pc[v] /\ subject'[v] = subject[v]
        BY <1>1, <2>2
      <3>2. subject[v] \in Trips
        BY <2>2, <3>1 DEF TypeInv, Held, AboutTrip, Upserting
      <3> QED
        BY <1>2, <3>1, <3>2
    <2> QED
      BY <1>1, <2>1, <2>2 DEF AnnounceInv, SavesApart, Exists
  <1>5. AnnouncedOnce'
    <2>1. \A v \in Workers : pc[v] = "event" => pc'[v] = "event" /\ subject'[v] = subject[v]
      BY <1>1
    <2> QED
      BY <1>1, <1>2, <2>1 DEF AnnounceInv, AnnouncedOnce
  <1> QED
    BY <1>2, <1>3, <1>4, <1>5 DEF AnnounceInv

LEMMA ReadPodAnnounce ==
    ASSUME TypeInv, AnnounceInv, NEW w \in Workers, ReadPod(w)
    PROVE  AnnounceInv'
  <1>1. /\ pc[w] = "existing" /\ pc'[w] = "upsert" /\ subject' = subject
        /\ seen'[w] = pod[subject[w]]
        /\ \A v \in Workers \ {w} : pc'[v] = pc[v] /\ seen'[v] = seen[v]
        /\ UNCHANGED <<trips, pod, events, delays, notices, unheard, overlapped>>
    BY DEF ReadPod, Goto, records, histories, TypeInv, TypeOK
  <1>2. NoticesOwed' /\ \A u \in Trips : Exists(u)' = Exists(u)
    <2>1. \A v \in Workers : pc'[v] \in {"podNotice", "delayNotice"} =>
             pc'[v] = pc[v] /\ subject'[v] = subject[v]
      BY <1>1
    <2> QED
      BY <1>1, <2>1, OwedStill
  <1>3. NothingBefore'
    BY <1>1 DEF AnnounceInv, NothingBefore
  <1>4. SavesApart'
    <2>1. \A v \in Workers : pc'[v] \in Upserting => pc[v] \in Upserting
      BY <1>1 DEF Upserting
    <2>2. \A v \in Workers : /\ pc'[v] = "event" => pc[v] = "event"
                            /\ pc'[v] = "upsert" => seen'[v] = pod[subject[v]] \/ (v # w /\ pc[v] = "upsert" /\ seen'[v] = seen[v])
      BY <1>1
    <2> QED
      BY <1>1, <2>1, <2>2 DEF AnnounceInv, SavesApart, Exists
  <1>5. AnnouncedOnce'
    <2>1. \A v \in Workers : pc[v] = "event" => pc'[v] = "event"
      BY <1>1
    <2> QED
      BY <1>1, <1>2, <2>1 DEF AnnounceInv, AnnouncedOnce
  <1> QED
    BY <1>2, <1>3, <1>4, <1>5 DEF AnnounceInv

LEMMA UpsertAnnounce ==
    ASSUME TypeInv, AnnounceInv, NEW w \in Workers, UpsertPod(w)
    PROVE  AnnounceInv'
  <1>0. PICK t \in Trips : t = subject[w]
    BY DEF UpsertPod, RecordEvent, TypeInv, Held, AboutTrip, Upserting
  <1>1. /\ pc[w] = "upsert" /\ subject[w] = t /\ Exists(t)
        /\ pod'[t] = IF confirm[w] \/ pod[t] = "confirmed" THEN "confirmed" ELSE "saved"
        /\ \A u \in Trips \ {t} : pod'[u] = pod[u]
        /\ UNCHANGED <<trips, events, delays, notices, unheard, overlapped>>
    BY <1>0 DEF UpsertPod, TypeInv, TypeOK
  <1>2. /\ \A v \in Workers \ {w} : pc'[v] = pc[v] /\ subject'[v] = subject[v] /\ seen'[v] = seen[v]
        /\ \/ pc'[w] = "event" /\ NewlyConfirmed(w) /\ subject'[w] = t
           \/ pc'[w] = "idle" /\ ~NewlyConfirmed(w)
    BY <1>0 DEF UpsertPod, End, Goto, TypeInv, TypeOK
  <1>3. /\ t \notin overlapped => seen[w] = pod[t]
        /\ seen[w] = "confirmed" => pod[t] = "confirmed"
        /\ \A v \in Workers \ {w} : pc[v] \in Upserting /\ subject[v] = t => t \in overlapped
    BY <1>1 DEF AnnounceInv, SavesApart, Upserting
  <1>4. pod[t] = "confirmed" => pod'[t] = "confirmed"
    BY <1>1
  <1>5. pc'[w] = "event" => pod'[t] = "confirmed" /\ (t \notin overlapped => events[t] = 0)
    <2>1. events[t] > 0 => pod[t] = "confirmed"
      BY <1>1 DEF AnnounceInv, AnnouncedOnce
    <2>2. events[t] \in Nat
      BY <1>1, NoticeTypes
    <2> QED
      BY <1>1, <1>2, <1>3, <2>1, <2>2 DEF NewlyConfirmed
  <1>6. pc'[w] = "idle" => (pod'[t] = "confirmed" => pod[t] = "confirmed")
    BY <1>1, <1>2, <1>3 DEF NewlyConfirmed
  <1>7. NoticesOwed' /\ \A u \in Trips : Exists(u)' = Exists(u)
    <2>1. \A v \in Workers : pc'[v] \in {"podNotice", "delayNotice"} =>
             pc'[v] = pc[v] /\ subject'[v] = subject[v]
      BY <1>2
    <2> QED
      BY <1>1, <2>1, OwedStill
  <1>8. NothingBefore'
    BY <1>1 DEF AnnounceInv, NothingBefore, Exists
  <1>9. SavesApart'
    <2>1. ASSUME NEW u \in Workers, NEW v \in Workers,
                 pc'[u] \in Upserting, pc'[v] \in Upserting,
                 subject'[u] = subject'[v], subject'[u] \notin overlapped'
          PROVE  u = v
      <3>1. /\ pc[u] \in Upserting /\ subject'[u] = subject[u]
            /\ pc[v] \in Upserting /\ subject'[v] = subject[v]
        BY <1>1, <1>2, <2>1 DEF Upserting
      <3> QED
        BY <1>1, <2>1, <3>1 DEF AnnounceInv, SavesApart
    <2>2. ASSUME NEW v \in Workers \ {w}, pc[v] \in {"upsert", "event"}, Exists(subject[v])
          PROVE  /\ pc[v] = "upsert" =>
                       /\ subject[v] \notin overlapped => seen[v] = pod'[subject[v]]
                       /\ seen[v] = "confirmed" => pod'[subject[v]] = "confirmed"
                 /\ pc[v] = "event" =>
                       /\ pod'[subject[v]] = "confirmed"
                       /\ subject[v] \notin overlapped => events[subject[v]] = 0
      <3>1. subject[v] \in Trips
        BY <2>2 DEF TypeInv, Held, AboutTrip, Upserting
      <3>2. /\ pc[v] = "upsert" =>
                   /\ subject[v] \notin overlapped => seen[v] = pod[subject[v]]
                   /\ seen[v] = "confirmed" => pod[subject[v]] = "confirmed"
            /\ pc[v] = "event" =>
                   /\ pod[subject[v]] = "confirmed"
                   /\ subject[v] \notin overlapped => events[subject[v]] = 0
        BY <2>2 DEF AnnounceInv, SavesApart
      <3>3. CASE subject[v] = t
        BY <1>3, <1>4, <2>2, <3>2, <3>3 DEF Upserting
      <3>4. CASE subject[v] # t
        BY <1>1, <3>1, <3>2, <3>4
      <3> QED
        BY <3>3, <3>4
    <2>3. \A v \in Workers : pc'[v] \in {"upsert", "event"} => subject'[v] \in Trips
      BY <1>1, <1>2 DEF TypeInv, Held, AboutTrip, Upserting
    <2>4. ASSUME NEW v \in Workers, pc'[v] \in {"upsert", "event"}, Exists(subject[v])'
          PROVE  /\ pc'[v] = "upsert" =>
                       /\ subject'[v] \notin overlapped' => seen'[v] = pod'[subject'[v]]
                       /\ seen'[v] = "confirmed" => pod'[subject'[v]] = "confirmed"
                 /\ pc'[v] = "event" =>
                       /\ pod'[subject'[v]] = "confirmed"
                       /\ subject'[v] \notin overlapped' => events'[subject'[v]] = 0
      <3>1. CASE v = w
        BY <1>1, <1>2, <1>5, <2>4, <3>1
      <3>2. CASE v # w
        BY <1>1, <1>2, <2>2, <2>4, <3>2 DEF Exists
      <3> QED
        BY <3>1, <3>2
    <2> QED
      BY <2>1, <2>4 DEF SavesApart
  <1>10. AnnouncedOnce'
    <2> SUFFICES ASSUME NEW u \in Trips, Exists(u)
                 PROVE  /\ notices["pod"][u] <= events[u]
                        /\ notices["delay"][u] <= delays[u]
                        /\ u \notin overlapped => events[u] <= 1
                        /\ pod'[u] = "confirmed" =>
                               \/ events[u] >= 1
                               \/ u \in unheard
                               \/ \E v \in Workers : pc'[v] = "event" /\ subject'[v] = u
                        /\ events[u] > 0 => pod'[u] = "confirmed"
      BY <1>1, <1>7 DEF AnnouncedOnce
    <2>1. /\ notices["pod"][u] <= events[u]
          /\ notices["delay"][u] <= delays[u]
          /\ u \notin overlapped => events[u] <= 1
          /\ pod[u] = "confirmed" =>
                 \/ events[u] >= 1
                 \/ u \in unheard
                 \/ \E v \in Workers : pc[v] = "event" /\ subject[v] = u
          /\ events[u] > 0 => pod[u] = "confirmed"
      BY DEF AnnounceInv, AnnouncedOnce
    <2>2. \A v \in Workers : pc[v] = "event" => pc'[v] = "event" /\ subject'[v] = subject[v]
      BY <1>1, <1>2
    <2>3. CASE u = t
      BY <1>2, <1>4, <1>6, <2>1, <2>2, <2>3
    <2>4. CASE u # t
      BY <1>1, <2>1, <2>2, <2>4
    <2> QED
      BY <2>3, <2>4
  <1> QED
    BY <1>7, <1>8, <1>9, <1>10 DEF AnnounceInv

LEMMA RecordEventAnnounce ==
    ASSUME TypeInv, AnnounceInv, NEW w \in Workers, RecordEvent(w)
    PROVE  AnnounceInv'
  <1>0. PICK t \in Trips : t = subject[w]
    BY DEF UpsertPod, RecordEvent, TypeInv, Held, AboutTrip, Upserting
  <1>1. /\ pc[w] = "event" /\ subject[w] = t /\ Exists(t) /\ pc'[w] = "podNotice"
        /\ events'[t] = events[t] + 1
        /\ \A u \in Trips \ {t} : events'[u] = events[u]
        /\ \A v \in Workers \ {w} : pc'[v] = pc[v]
        /\ UNCHANGED <<trips, pod, delays, notices, unheard, overlapped, subject, seen>>
    BY <1>0 DEF RecordEvent, Goto, histories, TypeInv, TypeOK
  <1>2. /\ pod[t] = "confirmed"
        /\ t \notin overlapped => events[t] = 0
        /\ \A v \in Workers \ {w} : pc[v] \in Upserting /\ subject[v] = t => t \in overlapped
    BY <1>1 DEF AnnounceInv, SavesApart, Upserting
  <1>3. \A u \in Trips : Exists(u)' = Exists(u)
    BY <1>1 DEF Exists
  <1>4. \A u \in Trips : /\ u # t => Owing("podNotice", u)' = Owing("podNotice", u)
                        /\ Owing("delayNotice", u)' = Owing("delayNotice", u)
    BY <1>1 DEF Owing
  <1>5. Cardinality(Owing("podNotice", t)') = Cardinality(Owing("podNotice", t)) + 1
    <2>1. w \notin Owing("podNotice", t) /\ Owing("podNotice", t)' = Owing("podNotice", t) \cup {w}
      BY <1>1 DEF Owing
    <2> QED
      BY <2>1, OwingGains
  <1>6. NoticesOwed'
    <2> SUFFICES ASSUME NEW u \in Trips, Exists(u)
                 PROVE  /\ notices["pod"][u] + Cardinality(Owing("podNotice", u)') <= events'[u]
                        /\ notices["delay"][u] + Cardinality(Owing("delayNotice", u)') <= delays[u]
      BY <1>1, <1>3 DEF NoticesOwed
    <2>1. /\ notices["pod"][u] + Cardinality(Owing("podNotice", u)) <= events[u]
          /\ notices["delay"][u] + Cardinality(Owing("delayNotice", u)) <= delays[u]
      BY DEF AnnounceInv, NoticesOwed
    <2>2. notices["delay"][u] + Cardinality(Owing("delayNotice", u)') <= delays[u]
      BY <1>4, <2>1
    <2>3. CASE u = t
      BY <1>1, <1>5, <2>1, <2>2, <2>3, NoticeTypes, OwingFinite
    <2>4. CASE u # t
      BY <1>1, <1>4, <2>1, <2>2, <2>4
    <2> QED
      BY <2>3, <2>4
  <1>7. NothingBefore'
    BY <1>1 DEF AnnounceInv, NothingBefore, Exists
  <1>8. SavesApart'
    <2>1. \A v \in Workers : pc'[v] \in Upserting => pc[v] \in Upserting
      BY <1>1 DEF Upserting
    <2>2. \A v \in Workers : pc'[v] \in {"upsert", "event"} =>
             /\ v # w /\ pc'[v] = pc[v] /\ subject[v] \in Trips
             /\ subject[v] = t => t \in overlapped
      BY <1>1, <1>2 DEF TypeInv, Held, AboutTrip, Upserting
    <2> QED
      BY <1>1, <1>3, <2>1, <2>2 DEF AnnounceInv, SavesApart
  <1>9. AnnouncedOnce'
    <2> SUFFICES ASSUME NEW u \in Trips, Exists(u)
                 PROVE  /\ notices["pod"][u] <= events'[u]
                        /\ notices["delay"][u] <= delays[u]
                        /\ u \notin overlapped => events'[u] <= 1
                        /\ pod[u] = "confirmed" =>
                               \/ events'[u] >= 1
                               \/ u \in unheard
                               \/ \E v \in Workers : pc'[v] = "event" /\ subject[v] = u
                        /\ events'[u] > 0 => pod[u] = "confirmed"
      BY <1>1, <1>3 DEF AnnouncedOnce
    <2>1. /\ notices["pod"][u] <= events[u]
          /\ notices["delay"][u] <= delays[u]
          /\ u \notin overlapped => events[u] <= 1
          /\ pod[u] = "confirmed" =>
                 \/ events[u] >= 1
                 \/ u \in unheard
                 \/ \E v \in Workers : pc[v] = "event" /\ subject[v] = u
          /\ events[u] > 0 => pod[u] = "confirmed"
      BY DEF AnnounceInv, AnnouncedOnce
    <2>2. CASE u = t
      <3>1. /\ notices["pod"][t] \in Nat /\ events[t] \in Nat /\ events'[t] = events[t] + 1
            /\ notices["pod"][t] <= events[t]
        BY <1>1, <2>1, <2>2, NoticeTypes
      <3>2. notices["pod"][t] <= events'[t] /\ events'[t] >= 1
        BY <3>1
      <3>3. t \notin overlapped => events'[t] <= 1
        BY <1>2, <3>1
      <3> QED
        BY <1>2, <2>1, <2>2, <3>2, <3>3
    <2>3. CASE u # t
      <3>1. \A v \in Workers : pc[v] = "event" /\ subject[v] = u => pc'[v] = "event"
        BY <1>1, <2>3
      <3> QED
        BY <1>1, <2>1, <2>3, <3>1
    <2> QED
      BY <2>2, <2>3
  <1> QED
    BY <1>6, <1>7, <1>8, <1>9 DEF AnnounceInv

LEMMA InsertDelayAnnounce ==
    ASSUME TypeInv, AnnounceInv, NEW w \in Workers, InsertDelay(w)
    PROVE  AnnounceInv'
  <1>0. PICK t \in Trips : t = subject[w]
    BY DEF InsertDelay, TypeInv, Held, AboutTrip
  <1>1. /\ pc[w] = "insert" /\ subject[w] = t /\ Exists(t) /\ pc'[w] = "delayNotice"
        /\ delays'[t] = delays[t] + 1
        /\ \A u \in Trips \ {t} : delays'[u] = delays[u]
        /\ \A v \in Workers \ {w} : pc'[v] = pc[v]
        /\ UNCHANGED <<trips, pod, events, notices, unheard, overlapped, subject, seen>>
    BY <1>0 DEF InsertDelay, Goto, histories, TypeInv, TypeOK
  <1>2. \A u \in Trips : Exists(u)' = Exists(u)
    BY <1>1 DEF Exists
  <1>3. \A u \in Trips : /\ u # t => Owing("delayNotice", u)' = Owing("delayNotice", u)
                        /\ Owing("podNotice", u)' = Owing("podNotice", u)
    BY <1>1 DEF Owing
  <1>4. Cardinality(Owing("delayNotice", t)') = Cardinality(Owing("delayNotice", t)) + 1
    <2>1. w \notin Owing("delayNotice", t) /\ Owing("delayNotice", t)' = Owing("delayNotice", t) \cup {w}
      BY <1>1 DEF Owing
    <2> QED
      BY <2>1, OwingGains
  <1>5. NoticesOwed'
    <2> SUFFICES ASSUME NEW u \in Trips, Exists(u)
                 PROVE  /\ notices["pod"][u] + Cardinality(Owing("podNotice", u)') <= events[u]
                        /\ notices["delay"][u] + Cardinality(Owing("delayNotice", u)') <= delays'[u]
      BY <1>1, <1>2 DEF NoticesOwed
    <2>1. /\ notices["pod"][u] + Cardinality(Owing("podNotice", u)) <= events[u]
          /\ notices["delay"][u] + Cardinality(Owing("delayNotice", u)) <= delays[u]
      BY DEF AnnounceInv, NoticesOwed
    <2>2. notices["pod"][u] + Cardinality(Owing("podNotice", u)') <= events[u]
      BY <1>3, <2>1
    <2>3. CASE u = t
      BY <1>1, <1>4, <2>1, <2>2, <2>3, NoticeTypes, OwingFinite
    <2>4. CASE u # t
      BY <1>1, <1>3, <2>1, <2>2, <2>4
    <2> QED
      BY <2>3, <2>4
  <1>6. NothingBefore'
    BY <1>1 DEF AnnounceInv, NothingBefore, Exists
  <1>7. SavesApart'
    <2>1. \A v \in Workers : pc'[v] \in Upserting => pc'[v] = pc[v]
      BY <1>1 DEF Upserting
    <2> QED
      BY <1>1, <2>1 DEF AnnounceInv, SavesApart, Exists, Upserting
  <1>8. AnnouncedOnce'
    <2>1. \A u \in Trips : /\ Exists(u) => notices["delay"][u] <= delays[u]
                          /\ notices["delay"][u] \in Nat /\ delays[u] \in Nat
      BY NoticeTypes DEF AnnounceInv, AnnouncedOnce
    <2>2. \A u \in Trips : Exists(u) => notices["delay"][u] <= delays'[u]
      BY <1>1, <2>1
    <2>3. \A v \in Workers : pc[v] = "event" => pc'[v] = "event"
      BY <1>1
    <2> QED
      BY <1>1, <1>2, <2>2, <2>3 DEF AnnounceInv, AnnouncedOnce
  <1> QED
    BY <1>5, <1>6, <1>7, <1>8 DEF AnnounceInv

\* A notice that was owed is stored.
LEMMA NotifyAnnounce ==
    ASSUME TypeInv, AnnounceInv, NEW w \in Workers, NEW k \in Kinds,
           NEW s \in {"podNotice", "delayNotice"},
           \/ s = "podNotice" /\ k = "pod"
           \/ s = "delayNotice" /\ k = "delay",
           Notify(w, s, k)
    PROVE  AnnounceInv'
  <1>0. PICK t \in Trips : t = subject[w]
    BY DEF Notify, TypeInv, Held, AboutTrip, Upserting
  <1>1. /\ pc[w] = s /\ subject[w] = t /\ pc'[w] = "idle"
        /\ \A v \in Workers \ {w} : pc'[v] = pc[v] /\ subject'[v] = subject[v] /\ seen'[v] = seen[v]
        /\ UNCHANGED <<trips, pod, events, delays, unheard, overlapped>>
    BY <1>0 DEF Notify, End, Goto, TypeInv, TypeOK
  <1>2. CASE UNCHANGED notices
    <2>1. \A v \in Workers :
             /\ pc'[v] \in Concerned => pc'[v] = pc[v] /\ subject'[v] = subject[v] /\ seen'[v] = seen[v]
             /\ pc[v] = "event" => pc'[v] = "event" /\ subject'[v] = subject[v]
      BY <1>1 DEF Concerned, Upserting
    <2> QED
      BY <1>1, <1>2, <2>1, DeliveriesUntouched
  <1>3. CASE notices' = [notices EXCEPT ![k][t] = @ + 1]
    <2>1. \A j \in Kinds, u \in Trips :
             notices'[j][u] = IF j = k /\ u = t THEN notices[j][u] + 1 ELSE notices[j][u]
      BY <1>3 DEF TypeInv, TypeOK
    <2>2. \A u \in Trips : Exists(u)' = Exists(u)
      BY <1>1 DEF Exists
    <2>3. Cardinality(Owing(s, t)') = Cardinality(Owing(s, t)) - 1
      <3>1. w \in Owing(s, t) /\ Owing(s, t)' = Owing(s, t) \ {w}
        BY <1>1 DEF Owing
      <3> QED
        BY <3>1, OwingLoses
    <2>4. \A r \in {"podNotice", "delayNotice"}, u \in Trips :
             r # s \/ u # t => Owing(r, u)' = Owing(r, u)
      BY <1>1 DEF Owing
    <2>5. NoticesOwed'
      <3> SUFFICES ASSUME NEW u \in Trips, Exists(u)
                   PROVE  /\ notices'["pod"][u] + Cardinality(Owing("podNotice", u)') <= events[u]
                          /\ notices'["delay"][u] + Cardinality(Owing("delayNotice", u)') <= delays[u]
        BY <1>1, <2>2 DEF NoticesOwed
      <3>1. /\ notices["pod"][u] + Cardinality(Owing("podNotice", u)) <= events[u]
            /\ notices["delay"][u] + Cardinality(Owing("delayNotice", u)) <= delays[u]
        BY DEF AnnounceInv, NoticesOwed
      <3>2. \A r \in {"podNotice", "delayNotice"} : Cardinality(Owing(r, u)) \in Nat
        BY OwingFinite
      <3>3. notices'["pod"][u] + Cardinality(Owing("podNotice", u)') =
               notices["pod"][u] + Cardinality(Owing("podNotice", u))
        <4>1. CASE s = "podNotice" /\ k = "pod" /\ u = t
          BY <2>1, <2>3, <3>2, <4>1, NoticeTypes DEF Kinds
        <4>2. CASE ~(s = "podNotice" /\ k = "pod" /\ u = t)
          BY <2>1, <2>4, <4>2 DEF Kinds
        <4> QED
          BY <4>1, <4>2
      <3>4. notices'["delay"][u] + Cardinality(Owing("delayNotice", u)') =
               notices["delay"][u] + Cardinality(Owing("delayNotice", u))
        <4>1. CASE s = "delayNotice" /\ k = "delay" /\ u = t
          BY <2>1, <2>3, <3>2, <4>1, NoticeTypes DEF Kinds
        <4>2. CASE ~(s = "delayNotice" /\ k = "delay" /\ u = t)
          BY <2>1, <2>4, <4>2 DEF Kinds
        <4> QED
          BY <4>1, <4>2
      <3> QED
        BY <3>1, <3>3, <3>4
    <2>6. trips[t].status # "NONE"
      BY <1>1 DEF TypeInv, Held, AboutTrip, Upserting
    <2>7. NothingBefore'
      BY <1>1, <2>1, <2>6 DEF AnnounceInv, NothingBefore, Kinds
    <2>8. SavesApart'
      <3>1. \A v \in Workers : pc'[v] \in Upserting => pc'[v] = pc[v] /\ subject'[v] = subject[v] /\ seen'[v] = seen[v]
        BY <1>1 DEF Upserting
      <3> QED
        BY <1>1, <3>1 DEF AnnounceInv, SavesApart, Exists, Upserting
    <2>9. AnnouncedOnce'
      <3> SUFFICES ASSUME NEW u \in Trips, Exists(u)
                   PROVE  /\ notices'["pod"][u] <= events[u]
                          /\ notices'["delay"][u] <= delays[u]
                          /\ u \notin overlapped => events[u] <= 1
                          /\ pod[u] = "confirmed" =>
                                 \/ events[u] >= 1
                                 \/ u \in unheard
                                 \/ \E v \in Workers : pc'[v] = "event" /\ subject'[v] = u
                          /\ events[u] > 0 => pod[u] = "confirmed"
        BY <1>1, <2>2 DEF AnnouncedOnce
      <3>1. /\ u \notin overlapped => events[u] <= 1
            /\ pod[u] = "confirmed" =>
                   \/ events[u] >= 1
                   \/ u \in unheard
                   \/ \E v \in Workers : pc[v] = "event" /\ subject[v] = u
            /\ events[u] > 0 => pod[u] = "confirmed"
        BY DEF AnnounceInv, AnnouncedOnce
      <3>2. \A v \in Workers : pc[v] = "event" => pc'[v] = "event" /\ subject'[v] = subject[v]
        BY <1>1
      <3>3. \A r \in {"podNotice", "delayNotice"} : Cardinality(Owing(r, u)') \in Nat
        <4>1. \A r \in {"podNotice", "delayNotice"} : Owing(r, u)' \subseteq Workers
          BY DEF Owing
        <4> QED
          BY <4>1, FS_Subset, FS_CardinalityType, RecordsAssumption
      <3>4. /\ notices'["pod"][u] + Cardinality(Owing("podNotice", u)') <= events[u]
            /\ notices'["delay"][u] + Cardinality(Owing("delayNotice", u)') <= delays[u]
        BY <1>1, <2>2, <2>5 DEF NoticesOwed
      <3>5. \A j \in Kinds : notices'[j][u] \in Nat
        BY <2>1, NoticeTypes DEF Kinds
      <3>6. notices'["pod"][u] <= events[u] /\ notices'["delay"][u] <= delays[u]
        BY <3>3, <3>4, <3>5, NoticeTypes DEF Kinds
      <3> QED
        BY <3>1, <3>2, <3>6
    <2> QED
      BY <2>5, <2>7, <2>8, <2>9 DEF AnnounceInv
  <1> QED
    BY <1>0, <1>2, <1>3 DEF Notify

LEMMA AnnounceStep == TypeInv /\ AnnounceInv /\ [Next]_vars => AnnounceInv'
  <1> SUFFICES ASSUME TypeInv, AnnounceInv, [Next]_vars
               PROVE  AnnounceInv'
    OBVIOUS
  <1> DEFINE Aside(w) ==
               /\ UNCHANGED <<trips, pod, events, delays, notices, overlapped>>
               /\ unheard \subseteq unheard'
               /\ \A v \in Workers \ {w} : pc'[v] = pc[v] /\ subject'[v] = subject[v] /\ seen'[v] = seen[v]
               /\ pc'[w] \notin Concerned
               /\ pc[w] # "event" \/ subject[w] \in unheard'
  <1>1. ASSUME NEW w \in Workers, Aside(w)
        PROVE  AnnounceInv'
    BY <1>1, DeliveriesUntouched
  <1> HIDE DEF Aside
  <1>2. ASSUME NEW t \in Trips, CompleteTrip(t)
        PROVE  AnnounceInv'
    <2>1. UNCHANGED <<pc, subject, seen, notices, overlapped, unheard, pod, events, delays>>
      BY <1>2 DEF CompleteTrip, SetStatus, locals
    <2>2. /\ Exists(t) /\ trips'[t].status = "COMPLETED"
          /\ \A u \in Trips \ {t} : trips'[u] = trips[u]
      BY <1>2 DEF CompleteTrip, SetStatus, Exists, TypeInv, TypeOK
    <2> QED
      BY <2>1, <2>2, TripEnds DEF Exists
  <1>3. ASSUME NEW t \in Trips, RemoveTrip(t)
        PROVE  AnnounceInv'
    <2>1. UNCHANGED <<pc, subject, seen, notices, overlapped, unheard>>
      BY <1>3 DEF RemoveTrip, SetStatus, locals
    <2>2. /\ trips'[t].status = "DELETED"
          /\ \A u \in Trips \ {t} : /\ trips'[u] = trips[u] /\ pod'[u] = pod[u]
                                   /\ events'[u] = events[u] /\ delays'[u] = delays[u]
      BY <1>3 DEF RemoveTrip, SetStatus, TypeInv, TypeOK
    <2> QED
      BY <2>1, <2>2, TripEnds DEF Exists
  <1>4. ASSUME NEW w \in Workers,
               \/ \E t \in Trips : DelayCall(w, t)
               \/ \E c \in Clients \cup {Null} : MetricsCall(w, c)
               \/ \E t \in Trips, f \in Files : StoreCall(w, t, f)
               \/ \E f \in Files : RemoveCall(w, f)
        PROVE  AnnounceInv'
    <2>1. PICK next \in {"insert", "query", "write", "unlink"} : Begin(w, next)
      BY <1>4 DEF DelayCall, MetricsCall, StoreCall, RemoveCall
    <2>2. UNCHANGED overlapped /\ \A v \in Workers \ {w} : subject'[v] = subject[v]
      BY <1>4 DEF DelayCall, MetricsCall, StoreCall, RemoveCall, TypeInv, TypeOK
    <2>3. Aside(w)
      BY <2>1, <2>2 DEF Aside, Begin, Goto, records, TypeInv, TypeOK, Concerned, Upserting
    <2> QED
      BY <1>1, <2>3
  <1>5. ASSUME NEW w \in Workers, WriteFile(w) \/ Unlink(w)
        PROVE  AnnounceInv'
    <2>1. /\ UNCHANGED <<trips, pod, events, delays, notices, overlapped, unheard, subject, seen>>
          /\ pc[w] # "event"
      BY <1>5 DEF WriteFile, Unlink, histories
    <2>2. PICK next \in {"asset", "delete"} : Goto(w, next)
      BY <1>5 DEF WriteFile, Unlink
    <2>3. Aside(w)
      BY <2>1, <2>2 DEF Aside, Goto, TypeInv, TypeOK, Concerned, Upserting
    <2> QED
      BY <1>1, <2>3
  <1>6. ASSUME NEW w \in Workers, InsertAsset(w) \/ DeleteAsset(w) \/ Answer(w) \/ Abandon(w)
        PROVE  AnnounceInv'
    <2>1. /\ UNCHANGED <<trips, pod, events, delays, notices, overlapped>> /\ End(w)
          /\ unheard \subseteq unheard' /\ (pc[w] # "event" \/ subject[w] \in unheard')
      BY <1>6 DEF InsertAsset, DeleteAsset, Answer, Answered, Abandon, records
    <2>2. Aside(w)
      BY <2>1 DEF Aside, End, Goto, TypeInv, TypeOK, Concerned, Upserting
    <2> QED
      BY <1>1, <2>2
  <1>7. ASSUME NEW w \in Workers, CountTrips(w) \/ ListCompleted(w)
        PROVE  AnnounceInv'
    BY <1>7, DeliveriesUntouched DEF CountTrips, ListCompleted, records, histories
  <1>8. ASSUME UNCHANGED vars
        PROVE  AnnounceInv'
    BY <1>8, DeliveriesUntouched DEF vars, records, locals, histories
  <1>9. ASSUME NEW w \in Workers, NotifyPod(w) \/ NotifyDelay(w)
        PROVE  AnnounceInv'
    BY <1>9, NotifyAnnounce DEF NotifyPod, NotifyDelay, Kinds
  <1> QED
    BY <1>2, <1>3, <1>4, <1>5, <1>6, <1>7, <1>8, <1>9, CreateAnnounce, PodCallAnnounce,
       ReadPodAnnounce, UpsertAnnounce, RecordEventAnnounce, InsertDelayAnnounce
       DEF Next, Trip, Proof, ReportDelay, Upload, Metrics

\* PodService.upsert and DelaysService.create: one event per confirmed delivery unless the
\* saves of its proof overlapped or its handler stopped in between, no notice about what
\* is not recorded, and no event of a delivery that is not confirmed.
THEOREM DeliveriesAnnouncedOnce == Spec => []AnnouncedOnce
  <1>1. Init => TypeInv /\ AnnounceInv
    BY InitTyped, InitAnnounce
  <1>2. TypeInv /\ AnnounceInv /\ [Next]_vars => TypeInv' /\ AnnounceInv'
    BY TypeInvStep, AnnounceStep
  <1>3. AnnounceInv => AnnouncedOnce
    BY DEF AnnounceInv
  <1> QED
    BY <1>1, <1>2, <1>3, PTL DEF Spec

-----------------------------------------------------------------------------
(* The dashboard                                                           *)

Delivery == [completed : Nat, delayed : Nat]

\* A dashboard with one answer and no trip changed since holds the figure of the
\* table as it is; with two answers, two figures that fit.  Only a dashboard holds any.
RateInv ==
    /\ tripCount \in [Workers -> Nat \cup {Null}]
    /\ completedList \in [Workers -> Delivery \cup {Null}]
    /\ \A w \in Workers :
         \/ tripCount[w] = Null /\ completedList[w] = Null
         \/ /\ pc[w] = "query"
            /\ ~stale[w] =>
                 IF completedList[w] = Null
                 THEN tripCount[w] = Cardinality(OfClient(Table, subject[w]))
                 ELSE IF tripCount[w] = Null
                 THEN completedList[w] = Delivered(Table, subject[w])
                 ELSE /\ completedList[w].completed <= tripCount[w]
                      /\ completedList[w].delayed <= completedList[w].completed

\* The two figures of one table fit, for a client or for all.
LEMMA FiguresFit ==
    ASSUME NEW c
    PROVE  /\ Cardinality(OfClient(Table, c)) \in Nat
           /\ Delivered(Table, c) \in Delivery
           /\ Delivered(Table, c).completed <= Cardinality(OfClient(Table, c))
           /\ Delivered(Table, c).delayed <= Delivered(Table, c).completed
  <1> DEFINE mine == OfClient(Table, c)
             done == {i \in mine : Table[i].status = "COMPLETED"}
             late == {i \in done : IsDelayed(Table[i].end, Arrived(Table[i]))}
  <1>1. mine \subseteq Trips
    BY DEF OfClient, Table
  <1>2. IsFiniteSet(mine)
    BY <1>1, RecordsAssumption, FS_Subset
  <1>3. done \subseteq mine /\ late \subseteq done
    OBVIOUS
  <1> HIDE DEF mine, done, late
  <1>4. IsFiniteSet(done) /\ Cardinality(done) <= Cardinality(mine)
    BY <1>2, <1>3, FS_Subset
  <1>5. IsFiniteSet(late) /\ Cardinality(late) <= Cardinality(done)
    BY <1>3, <1>4, FS_Subset
  <1>6. Cardinality(mine) \in Nat /\ Cardinality(done) \in Nat /\ Cardinality(late) \in Nat
    BY <1>2, <1>4, <1>5, FS_CardinalityType
  <1>7. Delivered(Table, c) = [completed |-> Cardinality(done), delayed |-> Cardinality(late)]
    BY DEF Delivered, done, late, mine
  <1>8. OfClient(Table, c) = mine
    BY DEF mine
  <1> QED
    BY <1>4, <1>5, <1>6, <1>7, <1>8 DEF Delivery

\* A step that changes no trip and, per worker, leaves its figures or drops them.
LEMMA RateUntouched ==
    ASSUME RateInv, UNCHANGED trips,
           tripCount' \in [Workers -> Nat \cup {Null}],
           completedList' \in [Workers -> Delivery \cup {Null}],
           \A w \in Workers :
              \/ tripCount'[w] = Null /\ completedList'[w] = Null
              \/ /\ tripCount'[w] = tripCount[w] /\ completedList'[w] = completedList[w]
                 /\ pc[w] # "query" \/ (pc'[w] = pc[w] /\ subject'[w] = subject[w]
                                        /\ (stale[w] => stale'[w]))
    PROVE  RateInv'
  <1>1. ASSUME NEW c PROVE /\ OfClient(Table', c) = OfClient(Table, c)
                           /\ Delivered(Table', c) = Delivered(Table, c)
    BY DEF Table, Exists, OfClient, Delivered
  <1>2. ASSUME NEW w \in Workers
        PROVE  \/ tripCount'[w] = Null /\ completedList'[w] = Null
               \/ /\ pc'[w] = "query" /\ (stale[w] => stale'[w])
                  /\ pc[w] = "query" /\ subject'[w] = subject[w]
                  /\ tripCount'[w] = tripCount[w] /\ completedList'[w] = completedList[w]
                  /\ ~(tripCount[w] = Null /\ completedList[w] = Null)
    BY DEF RateInv
  <1> QED
    BY <1>1, <1>2 DEF RateInv

\* A trip changes: dashboards with one answer become stale.
LEMMA SetStatusRate ==
    ASSUME TypeInv, RateInv, NEW t \in Trips, NEW c, NEW s, SetStatus(t, c, s)
    PROVE  RateInv'
  <1>1. /\ UNCHANGED <<pc, subject, tripCount, completedList>>
        /\ \A w \in Workers : stale'[w] = (stale[w] \/ (pc[w] = "query" /\ Half(w)))
    BY DEF SetStatus, Disturb, locals
  <1>2. ASSUME NEW w \in Workers
        PROVE  \/ tripCount[w] = Null /\ completedList[w] = Null
               \/ /\ pc[w] = "query"
                  /\ ~stale'[w] => /\ tripCount[w] # Null /\ completedList[w] # Null
                                   /\ completedList[w].completed <= tripCount[w]
                                   /\ completedList[w].delayed <= completedList[w].completed
    BY <1>1 DEF RateInv, Half
  <1> QED
    BY <1>1, <1>2 DEF RateInv

\* One of the queries is answered.
LEMMA AnsweredRate ==
    ASSUME TypeInv, RateInv, NEW w \in Workers, CountTrips(w) \/ ListCompleted(w)
    PROVE  RateInv'
  <1> DEFINE mine == Cardinality(OfClient(Table, subject[w]))
             list == Delivered(Table, subject[w])
  <1>1. /\ mine \in Nat /\ list \in Delivery
        /\ list.completed <= mine /\ list.delayed <= list.completed
    BY FiguresFit
  <1>2. /\ UNCHANGED <<trips, pc, subject, stale>> /\ pc[w] = "query"
        /\ \/ /\ tripCount[w] = Null /\ tripCount' = [tripCount EXCEPT ![w] = mine]
              /\ UNCHANGED completedList
           \/ /\ completedList[w] = Null /\ completedList' = [completedList EXCEPT ![w] = list]
              /\ UNCHANGED tripCount
    BY DEF CountTrips, ListCompleted, records, histories
  <1>3. ASSUME NEW c PROVE /\ OfClient(Table', c) = OfClient(Table, c)
                           /\ Delivered(Table', c) = Delivered(Table, c)
    BY <1>2 DEF Table, Exists, OfClient, Delivered
  <1> HIDE DEF mine, list
  <1>4. tripCount' \in [Workers -> Nat \cup {Null}] /\ completedList' \in [Workers -> Delivery \cup {Null}]
    BY <1>1, <1>2 DEF RateInv
  <1>5. \A v \in Workers \ {w} : tripCount'[v] = tripCount[v] /\ completedList'[v] = completedList[v]
    BY <1>2 DEF RateInv
  <1>6. \/ tripCount'[w] = Null /\ completedList'[w] = Null
        \/ ~stale[w] => IF completedList'[w] = Null
                        THEN tripCount'[w] = mine
                        ELSE IF tripCount'[w] = Null
                        THEN completedList'[w] = list
                        ELSE /\ completedList'[w].completed <= tripCount'[w]
                             /\ completedList'[w].delayed <= completedList'[w].completed
    <2>1. CASE tripCount[w] = Null /\ tripCount' = [tripCount EXCEPT ![w] = mine] /\ UNCHANGED completedList
      <3>1. tripCount'[w] = mine /\ completedList'[w] = completedList[w]
        BY <2>1 DEF RateInv
      <3>2. ~stale[w] /\ completedList[w] # Null => completedList[w] = list
        BY <2>1 DEF RateInv, list
      <3> QED
        BY <1>1, <3>1, <3>2
    <2>2. CASE completedList[w] = Null /\ completedList' = [completedList EXCEPT ![w] = list] /\ UNCHANGED tripCount
      <3>1. completedList'[w] = list /\ tripCount'[w] = tripCount[w]
        BY <2>2 DEF RateInv
      <3>2. ~stale[w] /\ tripCount[w] # Null => tripCount[w] = mine
        BY <2>2 DEF RateInv, mine
      <3> QED
        BY <1>1, <3>1, <3>2
    <2> QED
      BY <1>2, <2>1, <2>2
  <1>7. ASSUME NEW v \in Workers
        PROVE  \/ tripCount'[v] = Null /\ completedList'[v] = Null
               \/ /\ pc'[v] = "query"
                  /\ ~stale'[v] =>
                       IF completedList'[v] = Null
                       THEN tripCount'[v] = Cardinality(OfClient(Table', subject'[v]))
                       ELSE IF tripCount'[v] = Null
                       THEN completedList'[v] = Delivered(Table', subject'[v])
                       ELSE /\ completedList'[v].completed <= tripCount'[v]
                            /\ completedList'[v].delayed <= completedList'[v].completed
    <2>1. CASE v = w
      BY <1>2, <1>3, <1>6, <2>1 DEF mine, list
    <2>2. CASE v # w
      BY <1>2, <1>3, <1>5, <2>2 DEF RateInv
    <2> QED
      BY <2>1, <2>2
  <1> QED
    BY <1>4, <1>7 DEF RateInv

\* The figures of a dashboard without a change between them fit.
LEMMA RateStep == TypeInv /\ RateInv /\ [Next]_vars => RateInv'
  <1> SUFFICES ASSUME TypeInv, RateInv, [Next]_vars
               PROVE  RateInv'
    OBVIOUS
  <1>t. /\ pc \in [Workers -> PcValues] /\ stale \in [Workers -> BOOLEAN]
        /\ subject \in [Workers -> Trips \cup Clients \cup {Null}]
    BY DEF TypeInv, TypeOK, PcValues
  <1>1. ASSUME NEW t \in Trips, (\E c \in Clients : CreateTrip(t, c)) \/ CompleteTrip(t) \/ RemoveTrip(t)
        PROVE  RateInv'
    BY <1>1, SetStatusRate DEF CreateTrip, CompleteTrip, RemoveTrip
  <1>2. ASSUME NEW w \in Workers,
               \/ \E t \in Trips, c \in BOOLEAN : PodCall(w, t, c)
               \/ \E t \in Trips : DelayCall(w, t)
               \/ \E t \in Trips, f \in Files : StoreCall(w, t, f)
               \/ \E f \in Files : RemoveCall(w, f)
               \/ \E c \in Clients \cup {Null} : MetricsCall(w, c)
        PROVE  RateInv'
    <2>1. PICK next \in PcValues : Begin(w, next) /\ UNCHANGED <<tripCount, completedList>>
      BY <1>2 DEF PodCall, DelayCall, StoreCall, RemoveCall, MetricsCall, PcValues, Upserting,
         Storing, Removing, Reading
    <2>2. \A v \in Workers \ {w} : subject'[v] = subject[v]
      BY <1>2, <1>t DEF PodCall, DelayCall, StoreCall, RemoveCall, MetricsCall
    <2>3. pc[w] = "idle" /\ UNCHANGED <<trips, stale>> /\ \A v \in Workers \ {w} : pc'[v] = pc[v]
      BY <2>1, <1>t DEF Begin, Goto, records
    <2>4. tripCount' \in [Workers -> Nat \cup {Null}] /\ completedList' \in [Workers -> Delivery \cup {Null}]
      BY <2>1 DEF RateInv
    <2>5. \A v \in Workers : pc[v] # "query" \/ (pc'[v] = pc[v] /\ subject'[v] = subject[v])
      BY <2>2, <2>3
    <2> QED
      BY <2>1, <2>3, <2>4, <2>5, RateUntouched
  <1>3. ASSUME NEW w \in Workers,
               \/ ReadPod(w)
               \/ UpsertPod(w) /\ ~End(w)
               \/ RecordEvent(w) \/ InsertDelay(w) \/ WriteFile(w) \/ Unlink(w)
        PROVE  RateInv'
    <2>1. /\ pc[w] # "query" /\ UNCHANGED <<trips, subject, tripCount, completedList, stale>>
          /\ \E next \in PcValues : Goto(w, next)
      BY <1>3 DEF ReadPod, UpsertPod, RecordEvent, InsertDelay, WriteFile, Unlink, records,
         histories, PcValues, Upserting, Storing, Removing
    <2>2. \A v \in Workers \ {w} : pc'[v] = pc[v]
      BY <2>1, <1>t DEF Goto
    <2>3. tripCount' \in [Workers -> Nat \cup {Null}] /\ completedList' \in [Workers -> Delivery \cup {Null}]
      BY <2>1 DEF RateInv
    <2> QED
      BY <2>1, <2>2, <2>3, RateUntouched
  <1>4. ASSUME NEW w \in Workers,
               \/ UpsertPod(w) /\ End(w)
               \/ NotifyPod(w) \/ NotifyDelay(w) \/ InsertAsset(w) \/ DeleteAsset(w)
               \/ Answer(w) \/ Abandon(w)
        PROVE  RateInv'
    <2>1. End(w) /\ UNCHANGED trips
      BY <1>4 DEF UpsertPod, NotifyPod, NotifyDelay, Notify, InsertAsset, DeleteAsset, Answer,
         Abandon, records
    <2>2. tripCount'[w] = Null /\ completedList'[w] = Null
      BY <2>1 DEF End, RateInv
    <2>3. tripCount' \in [Workers -> Nat \cup {Null}] /\ completedList' \in [Workers -> Delivery \cup {Null}]
      BY <2>1 DEF End, RateInv
    <2>4. \A v \in Workers \ {w} :
            /\ tripCount'[v] = tripCount[v] /\ completedList'[v] = completedList[v]
            /\ pc'[v] = pc[v] /\ subject'[v] = subject[v] /\ stale'[v] = stale[v]
      BY <2>1, <1>t DEF End, Goto, RateInv
    <2> QED
      BY <2>1, <2>2, <2>3, <2>4, RateUntouched
  <1>5. ASSUME NEW w \in Workers, CountTrips(w) \/ ListCompleted(w) PROVE RateInv'
    BY <1>5, AnsweredRate
  <1>6. CASE UNCHANGED vars
    <2>1. UNCHANGED <<trips, tripCount, completedList, pc, subject, stale>>
      BY <1>6 DEF vars, records, locals, histories
    <2>2. tripCount' \in [Workers -> Nat \cup {Null}] /\ completedList' \in [Workers -> Delivery \cup {Null}]
      BY <2>1 DEF RateInv
    <2> QED
      BY <2>1, <2>2, RateUntouched
  <1>7. CASE Trip
    BY <1>1, <1>7 DEF Trip
  <1>8. ASSUME NEW w \in Workers, Proof(w) \/ ReportDelay(w) \/ Upload(w) \/ Metrics(w) \/ Abandon(w)
        PROVE  RateInv'
    BY <1>2, <1>3, <1>4, <1>5, <1>8 DEF Proof, ReportDelay, Upload, Metrics
  <1> QED
    BY <1>6, <1>7, <1>8 DEF Next

\* A part is a share of the whole between nothing and all of it.
LEMMA ShareBounded ==
    ASSUME NEW part, NEW whole, part \in Nat, whole \in Nat, part <= whole
    PROVE  Pct(part, whole) \in 0 .. 1000
  <1> DEFINE a == 2 * (1000 * part) + whole
             b == 2 * whole
  <1>1. CASE whole = 0
    BY <1>1 DEF Pct
  <1>2. CASE whole # 0
    <2>1. a \in Nat /\ b \in Nat /\ b > 0 /\ a < 1001 * b
      BY <1>2
    <2> HIDE DEF a, b
    <2>2. a \div b \in Int /\ b * (a \div b) <= a /\ a < b * (a \div b) + b
      BY <2>1
    <2> DEFINE q == a \div b
    <2>3. q \in Int /\ b * q <= a /\ a < b * q + b
      BY <2>2
    <2> HIDE DEF q
    <2>4. q >= 0
      <3> SUFFICES ASSUME q <= -1 PROVE FALSE
        BY <2>3
      <3>1. b * q <= -b
        BY <2>1, <2>3
      <3> QED
        BY <2>1, <2>3, <3>1
    <2>5. q <= 1000
      <3> SUFFICES ASSUME q >= 1001 PROVE FALSE
        BY <2>3
      <3>1. b * q >= b * 1001
        BY <2>1, <2>3
      <3> QED
        BY <2>1, <2>3, <3>1
    <2>6. q \in 0 .. 1000
      BY <2>3, <2>4, <2>5
    <2> QED
      BY <1>2, <2>6 DEF Pct, RoundDiv, a, b, q
  <1> QED
    BY <1>1, <1>2

\* Only a trip created, completed or deleted between the two answers makes a share of
\* the deliveries exceed the whole, whatever the trips.
THEOREM RatesAreShares == Spec => []RateByRaceOnly
  <1>1. Init => TypeInv /\ RateInv
    BY InitTyped DEF Init, RateInv
  <1>2. TypeInv /\ RateInv /\ [Next]_vars => TypeInv' /\ RateInv'
    BY TypeInvStep, RateStep
  <1>3. RateInv => RateByRaceOnly
    <2> SUFFICES ASSUME RateInv, NEW w \in Workers, Answered(w), ~stale[w],
                        NEW metrics, metrics = DeliveryMetrics(tripCount[w], completedList[w])
                 PROVE  /\ metrics.completionRate \in 0 .. 1000
                        /\ metrics.onTimeRate \in 0 .. 1000
                        /\ completedList[w].completed <= tripCount[w]
      BY DEF RateByRaceOnly
    <2>1. PICK count, list : count = tripCount[w] /\ list = completedList[w]
      OBVIOUS
    <2>2. PICK done, late : done = list.completed /\ late = list.delayed
      OBVIOUS
    <2>3. count \in Nat /\ done \in Nat /\ late \in Nat /\ done <= count /\ late <= done
      BY <2>1, <2>2 DEF RateInv, Answered, Delivery
    <2>4. PICK onTime \in Nat : onTime = done - late /\ onTime <= done
      BY <2>3
    <2>5. Pct(done, count) \in 0 .. 1000
      BY <2>3, ShareBounded
    <2>6. Pct(onTime, done) \in 0 .. 1000
      BY <2>3, <2>4, ShareBounded
    <2>7. metrics.completionRate = Pct(done, count)
      BY <2>1, <2>2 DEF DeliveryMetrics
    <2>8. metrics.onTimeRate = Pct(onTime, done)
      BY <2>1, <2>2, <2>4 DEF DeliveryMetrics
    <2>9. completedList[w].completed <= tripCount[w]
      BY <2>1, <2>2, <2>3
    <2> QED
      BY <2>5, <2>6, <2>7, <2>8, <2>9
  <1> QED
    BY <1>1, <1>2, <1>3, PTL DEF Spec

-----------------------------------------------------------------------------
(* Induction over numbers and over finite sets, which the least-number      *)
(* principle gives for a set at a time                                      *)

\* A set of numbers that has a member has a least one.
LEMMA LeastNumber ==
    ASSUME NEW T \in SUBSET Nat, T # {}
    PROVE  \E n \in T : \A m \in T : n <= m
  <1>1. \E x \in T : \A y \in T : ~ (<<y, x>> \in OpToRel(<, Nat))
    BY NatLessThanWellFounded, WFMin
  <1>2. PICK x \in T : \A y \in T : ~ (<<y, x>> \in OpToRel(<, Nat))
    BY <1>1
  <1>3. ASSUME NEW y \in T PROVE x <= y
    <2>1. <<y, x>> \notin {ss \in Nat \X Nat : ss[1] < ss[2]}
      BY <1>2 DEF OpToRel
    <2>2. <<y, x>> \in Nat \X Nat
      OBVIOUS
    <2>3. ~ (<<y, x>>[1] < <<y, x>>[2])
      BY <2>1, <2>2
    <2> QED
      BY <2>3
  <1> QED
    BY <1>3

\* Induction: a set of numbers with 0 and every successor has them all.
LEMMA EveryNumber ==
    ASSUME NEW P \in SUBSET Nat, 0 \in P, \A n \in P : n + 1 \in P
    PROVE  P = Nat
  <1> SUFFICES ASSUME Nat \ P # {} PROVE FALSE
    OBVIOUS
  <1>1. PICK n \in Nat \ P : \A m \in Nat \ P : n <= m
    BY LeastNumber
  <1>2. n # 0 /\ n - 1 \in Nat /\ ~ (n <= n - 1)
    BY <1>1
  <1>3. n - 1 \in P
    BY <1>1, <1>2
  <1> QED
    BY <1>1, <1>3

\* Induction: a set of subsets of S with the empty one, and with every member also that
\* member and one more element, has S.
LEMMA EveryFiniteSet ==
    ASSUME NEW S, IsFiniteSet(S), NEW P, {} \in P,
           \A A \in SUBSET S : \A x \in S \ A : A \in P => A \cup {x} \in P
    PROVE  S \in P
  <1> DEFINE N == {n \in Nat : \A A \in SUBSET S : Cardinality(A) = n => A \in P}
  <1>1. \A A \in SUBSET S : IsFiniteSet(A) /\ Cardinality(A) \in Nat
    BY FS_Subset, FS_CardinalityType
  <1>2. 0 \in N
    BY <1>1, FS_EmptySet
  <1>3. ASSUME NEW n \in N PROVE n + 1 \in N
    <2> SUFFICES ASSUME NEW A \in SUBSET S, Cardinality(A) = n + 1 PROVE A \in P
      OBVIOUS
    <2>1. A # {}
      BY FS_EmptySet
    <2>2. PICK x : x \in A
      BY <2>1
    <2>3. Cardinality(A \ {x}) = n
      BY <1>1, <2>2, FS_RemoveElement
    <2>4. A \ {x} \in P
      BY <2>3
    <2>5. x \in S \ (A \ {x}) /\ (A \ {x}) \cup {x} = A
      BY <2>2
    <2> QED
      BY <2>4, <2>5
  <1>4. N = Nat
    <2> HIDE DEF N
    <2>1. N \in SUBSET Nat
      BY DEF N
    <2> QED
      BY <1>2, <1>3, <2>1, EveryNumber
  <1>5. Cardinality(S) \in N
    BY <1>1, <1>4
  <1> QED
    BY <1>5

-----------------------------------------------------------------------------
AnyOf(s) == CHOOSE x \in s : TRUE


IsSum(iter, f, D) ==
    /\ iter = [s \in D |-> iter[s]]
    /\ \A s \in D : iter[s] = IF s = {} THEN 0 ELSE f[AnyOf(s)] + iter[s \ {AnyOf(s)}]

\* FoldFunctionOnSet is a CHOOSE of a function on the subsets: there is one.
LEMMA SumExists ==
    ASSUME NEW f, NEW S, IsFiniteSet(S)
    PROVE  \E iter : IsSum(iter, f, SUBSET S)
  <1> DEFINE Small(n) == {s \in SUBSET S : Cardinality(s) <= n}
             N == {n \in Nat : \E iter : IsSum(iter, f, Small(n))}
  <1>0. \A s \in SUBSET S : IsFiniteSet(s) /\ Cardinality(s) \in Nat
    BY FS_Subset, FS_CardinalityType
  <1>1. 0 \in N
    <2>1. \A s \in Small(0) : s = {}
      BY <1>0, FS_EmptySet
    <2>2. IsSum([s \in Small(0) |-> 0], f, Small(0))
      BY <2>1 DEF IsSum
    <2> QED
      BY <2>2
  <1>2. ASSUME NEW n \in N PROVE n + 1 \in N
    <2>1. PICK g : IsSum(g, f, Small(n))
      OBVIOUS
    <2> DEFINE h == [s \in Small(n + 1) |-> IF s = {} THEN 0 ELSE f[AnyOf(s)] + g[s \ {AnyOf(s)}]]
    <2>2. ASSUME NEW s \in Small(n + 1), s # {}
          PROVE  s \ {AnyOf(s)} \in Small(n) /\ s \ {AnyOf(s)} \in Small(n + 1)
      <3>1. AnyOf(s) \in s
        BY <2>2 DEF AnyOf
      <3>2. Cardinality(s \ {AnyOf(s)}) = Cardinality(s) - 1
        BY <1>0, <3>1, FS_RemoveElement
      <3> QED
        BY <1>0, <3>2
    <2>3. \A s \in Small(n) : s \in Small(n + 1) /\ h[s] = g[s]
      BY <1>0, <2>1 DEF IsSum
    <2>4. IsSum(h, f, Small(n + 1))
      BY <2>2, <2>3 DEF IsSum
    <2>5. \E iter : IsSum(iter, f, Small(n + 1))
      <3> HIDE DEF h
      <3> QED
        BY <2>4
    <2>6. n + 1 \in Nat
      OBVIOUS
    <2> HIDE DEF Small
    <2> QED
      BY <2>5, <2>6
  <1>3. N = Nat
    <2> HIDE DEF N
    <2>1. N \in SUBSET Nat
      BY DEF N
    <2> QED
      BY <1>1, <1>2, <2>1, EveryNumber
  <1>4. Cardinality(S) \in N
    BY <1>0, <1>3
  <1>5. Small(Cardinality(S)) = SUBSET S
    BY <1>0, FS_Subset
  <1> QED
    BY <1>4, <1>5

\* The sum is the one that it finds.
LEMMA SumIsSum ==
    ASSUME NEW f, NEW S, IsFiniteSet(S)
    PROVE  \E iter : IsSum(iter, f, SUBSET S) /\ SumFunctionOnSet(f, S) = iter[S]
  <1> DEFINE Body(iter) == [s \in SUBSET S |-> IF s = {} THEN 0 ELSE f[AnyOf(s)] + iter[s \ {AnyOf(s)}]]
  <1>1. SumFunctionOnSet(f, S) = (CHOOSE iter : iter = Body(iter))[S]
    BY DEF SumFunctionOnSet, FoldFunctionOnSet, MapThenFoldSet, AnyOf
  <1>2. PICK g : IsSum(g, f, SUBSET S)
    BY SumExists
  <1>3. g = Body(g)
    BY <1>2 DEF IsSum
  <1>4. PICK h : h = Body(h) /\ SumFunctionOnSet(f, S) = h[S]
    BY <1>1, <1>3
  <1>5. IsSum(h, f, SUBSET S)
    BY <1>4 DEF IsSum
  <1> QED
    BY <1>4, <1>5

\* Two such functions agree where both are defined.
LEMMA SumUnique ==
    ASSUME NEW f, NEW g, NEW S, NEW T, IsFiniteSet(S), IsFiniteSet(T), NEW i, NEW j,
           IsSum(i, f, SUBSET S), IsSum(j, g, SUBSET T), \A x \in S \cap T : f[x] = g[x]
    PROVE  \A A \in SUBSET (S \cap T) : i[A] = j[A]
  <1> DEFINE N == {n \in Nat : \A A \in SUBSET (S \cap T) : Cardinality(A) = n => i[A] = j[A]}
  <1>0. \A s \in SUBSET S : IsFiniteSet(s) /\ Cardinality(s) \in Nat
    BY FS_Subset, FS_CardinalityType
  <1>1. 0 \in N
    BY <1>0, FS_EmptySet DEF IsSum
  <1>2. ASSUME NEW n \in N PROVE n + 1 \in N
    <2> SUFFICES ASSUME NEW A \in SUBSET (S \cap T), Cardinality(A) = n + 1 PROVE i[A] = j[A]
      OBVIOUS
    <2>1. A # {} /\ IsFiniteSet(A)
      BY <1>0, FS_EmptySet
    <2>4. AnyOf(A) \in A
      BY <2>1 DEF AnyOf
    <2>2. Cardinality(A \ {AnyOf(A)}) = n
      <3>1. Cardinality(A \ {AnyOf(A)}) = Cardinality(A) - 1
        BY <2>1, <2>4, FS_RemoveElement
      <3> QED
        BY <3>1
    <2>3. i[A \ {AnyOf(A)}] = j[A \ {AnyOf(A)}]
      BY <2>2
    <2>5. i[A] = f[AnyOf(A)] + i[A \ {AnyOf(A)}]
      BY <2>1 DEF IsSum
    <2>6. j[A] = g[AnyOf(A)] + j[A \ {AnyOf(A)}]
      BY <2>1 DEF IsSum
    <2>7. f[AnyOf(A)] = g[AnyOf(A)]
      BY <2>4
    <2> QED
      BY <2>3, <2>5, <2>6, <2>7
  <1>3. N = Nat
    <2> HIDE DEF N
    <2>1. N \in SUBSET Nat
      BY DEF N
    <2> QED
      BY <1>1, <1>2, <2>1, EveryNumber
  <1> QED
    BY <1>0, <1>3

\* The sum over the empty set.
LEMMA SumEmpty ==
    ASSUME NEW f
    PROVE  SumFunctionOnSet(f, {}) = 0
  BY SumIsSum, FS_EmptySet DEF IsSum

\* A sum is that of its summands.
LEMMA SumEqual ==
    ASSUME NEW f, NEW g, NEW S, IsFiniteSet(S), \A x \in S : f[x] = g[x]
    PROVE  SumFunctionOnSet(f, S) = SumFunctionOnSet(g, S)
  <1>1. PICK i : IsSum(i, f, SUBSET S) /\ SumFunctionOnSet(f, S) = i[S]
    BY SumIsSum
  <1>2. PICK j : IsSum(j, g, SUBSET S) /\ SumFunctionOnSet(g, S) = j[S]
    BY SumIsSum
  <1> QED
    BY <1>1, <1>2, SumUnique

LEMMA SumSame ==
    ASSUME NEW f, NEW S, NEW T, IsFiniteSet(S), IsFiniteSet(T), NEW i, NEW j,
           IsSum(i, f, SUBSET S), IsSum(j, f, SUBSET T)
    PROVE  \A A \in SUBSET (S \cap T) : i[A] = j[A]
  BY SumUnique

\* The summand that is taken first, and the rest.
LEMMA SumStep ==
    ASSUME NEW f, NEW S, IsFiniteSet(S), S # {}
    PROVE  /\ AnyOf(S) \in S
           /\ SumFunctionOnSet(f, S) = f[AnyOf(S)] + SumFunctionOnSet(f, S \ {AnyOf(S)})
  <1>0. PICK R : R = S \ {AnyOf(S)}
    OBVIOUS
  <1>1. PICK i : IsSum(i, f, SUBSET S) /\ SumFunctionOnSet(f, S) = i[S]
    BY SumIsSum
  <1>2. IsFiniteSet(R) /\ R \in SUBSET (S \cap R)
    BY <1>0, FS_Subset
  <1>3. PICK j : IsSum(j, f, SUBSET R) /\ SumFunctionOnSet(f, R) = j[R]
    BY <1>2, SumIsSum
  <1>4. i[R] = j[R]
    <2>1. \A A \in SUBSET (S \cap R) : i[A] = j[A]
      BY <1>1, <1>2, <1>3, SumSame
    <2> QED
      BY <1>2, <2>1
  <1>5. AnyOf(S) \in S
    BY DEF AnyOf
  <1>6. i[S] = f[AnyOf(S)] + i[R]
    BY <1>0, <1>1 DEF IsSum
  <1> QED
    BY <1>0, <1>1, <1>3, <1>4, <1>5, <1>6

LEMMA SumType ==
    ASSUME NEW f, NEW S, IsFiniteSet(S), \A x \in S : f[x] \in Int
    PROVE  SumFunctionOnSet(f, S) \in Int
  <1> DEFINE N == {n \in Nat : \A A \in SUBSET S :
                       Cardinality(A) = n => SumFunctionOnSet(f, A) \in Int}
  <1>0. \A A \in SUBSET S : IsFiniteSet(A) /\ Cardinality(A) \in Nat
    BY FS_Subset, FS_CardinalityType
  <1>1. 0 \in N
    BY <1>0, FS_EmptySet, SumEmpty
  <1>2. ASSUME NEW n \in N PROVE n + 1 \in N
    <2> SUFFICES ASSUME NEW A \in SUBSET S, Cardinality(A) = n + 1 PROVE SumFunctionOnSet(f, A) \in Int
      OBVIOUS
    <2>1. A # {} /\ IsFiniteSet(A)
      BY <1>0, FS_EmptySet
    <2>2. /\ AnyOf(A) \in A
          /\ SumFunctionOnSet(f, A) = f[AnyOf(A)] + SumFunctionOnSet(f, A \ {AnyOf(A)})
      BY <2>1, SumStep
    <2>3. Cardinality(A \ {AnyOf(A)}) = n
      <3>1. Cardinality(A \ {AnyOf(A)}) = Cardinality(A) - 1
        BY <2>1, <2>2, FS_RemoveElement
      <3> QED
        BY <3>1
    <2>4. SumFunctionOnSet(f, A \ {AnyOf(A)}) \in Int
      BY <2>3
    <2> QED
      BY <2>2, <2>4
  <1>3. N = Nat
    <2> HIDE DEF N
    <2>1. N \in SUBSET Nat
      BY DEF N
    <2> QED
      BY <1>1, <1>2, <2>1, EveryNumber
  <1> QED
    BY <1>0, <1>3

\* Any summand may be taken out.
LEMMA SumRemove ==
    ASSUME NEW f, NEW S, IsFiniteSet(S), \A x \in S : f[x] \in Int, NEW e \in S
    PROVE  SumFunctionOnSet(f, S) = f[e] + SumFunctionOnSet(f, S \ {e})
  <1> DEFINE N == {n \in Nat : \A A \in SUBSET S : Cardinality(A) = n =>
                       \A x \in A : SumFunctionOnSet(f, A) = f[x] + SumFunctionOnSet(f, A \ {x})}
  <1>0. \A A \in SUBSET S : IsFiniteSet(A) /\ Cardinality(A) \in Nat
    BY FS_Subset, FS_CardinalityType
  <1>1. 0 \in N
    BY <1>0, FS_EmptySet
  <1>2. ASSUME NEW n \in N PROVE n + 1 \in N
    <2> SUFFICES ASSUME NEW A \in SUBSET S, Cardinality(A) = n + 1, NEW x \in A
                 PROVE  SumFunctionOnSet(f, A) = f[x] + SumFunctionOnSet(f, A \ {x})
      OBVIOUS
    <2>0. IsFiniteSet(A) /\ A # {}
      BY <1>0
    <2>1. PICK c \in A : SumFunctionOnSet(f, A) = f[c] + SumFunctionOnSet(f, A \ {c})
      <3>1. /\ AnyOf(A) \in A
            /\ SumFunctionOnSet(f, A) = f[AnyOf(A)] + SumFunctionOnSet(f, A \ {AnyOf(A)})
        BY <2>0, SumStep
      <3> QED
        BY <3>1, Zenon
    <2>2. CASE c = x
      BY <2>1, <2>2
    <2>3. CASE c # x
      <3>1. Cardinality(A \ {c}) = n /\ Cardinality(A \ {x}) = n
        <4>1. Cardinality(A \ {c}) = Cardinality(A) - 1 /\ Cardinality(A \ {x}) = Cardinality(A) - 1
          BY <2>0, FS_RemoveElement
        <4> QED
          BY <4>1
      <3> DEFINE a == f[x]  b == f[c]
                 all == SumFunctionOnSet(f, A)
                 rest(y) == SumFunctionOnSet(f, A \ {y})
                 both == SumFunctionOnSet(f, (A \ {c}) \ {x})
      <3>2. rest(c) = a + both
        BY <2>3, <3>1
      <3>3. rest(x) = b + SumFunctionOnSet(f, (A \ {x}) \ {c})
        BY <2>3, <3>1
      <3>4. SumFunctionOnSet(f, (A \ {x}) \ {c}) = both
        <4>1. (A \ {c}) \ {x} = (A \ {x}) \ {c}
          OBVIOUS
        <4> QED
          BY <4>1
      <3>5. both \in Int
        <4>1. IsFiniteSet((A \ {c}) \ {x})
          BY <1>0
        <4> QED
          BY <4>1, SumType
      <3>6. a \in Int /\ b \in Int /\ all = b + rest(c)
        BY <2>1
      <3>7. all = a + rest(x)
        <4> HIDE DEF a, b, all, rest, both
        <4> QED
          BY <3>2, <3>3, <3>4, <3>5, <3>6
      <3> QED
        BY <3>7
    <2> QED
      BY <2>2, <2>3
  <1>3. N = Nat
    <2> HIDE DEF N
    <2>1. N \in SUBSET Nat
      BY DEF N
    <2> QED
      BY <1>1, <1>2, <2>1, EveryNumber
  <1>4. S \in SUBSET S /\ Cardinality(S) \in N
    BY <1>0, <1>3
  <1> QED
    BY <1>4

\* One more summand.
LEMMA SumInsert ==
    ASSUME NEW f, NEW S, IsFiniteSet(S), NEW x, x \notin S, \A y \in S \cup {x} : f[y] \in Int
    PROVE  SumFunctionOnSet(f, S \cup {x}) = f[x] + SumFunctionOnSet(f, S)
  <1>1. PICK T : T = S \cup {x}
    OBVIOUS
  <1>2. IsFiniteSet(T)
    BY <1>1, FS_AddElement
  <1>3. SumFunctionOnSet(f, T) = f[x] + SumFunctionOnSet(f, T \ {x})
    BY <1>1, <1>2, SumRemove
  <1>4. T \ {x} = S
    BY <1>1
  <1> QED
    BY <1>1, <1>3, <1>4

\* A sum over two disjoint sets.
LEMMA SumUnion ==
    ASSUME NEW f, NEW S, NEW T, IsFiniteSet(S), IsFiniteSet(T), S \cap T = {},
           \A x \in S \cup T : f[x] \in Int
    PROVE  SumFunctionOnSet(f, S \cup T) = SumFunctionOnSet(f, S) + SumFunctionOnSet(f, T)
  <1> DEFINE P == {A \in SUBSET T : SumFunctionOnSet(f, S \cup A)
                                    = SumFunctionOnSet(f, S) + SumFunctionOnSet(f, A)}
  <1>1. {} \in P
    <2>1. SumFunctionOnSet(f, S) \in Int
      BY SumType
    <2>2. S \cup {} = S
      OBVIOUS
    <2> QED
      BY <2>1, <2>2, SumEmpty
  <1>2. ASSUME NEW A \in SUBSET T, NEW x \in T \ A, A \in P PROVE A \cup {x} \in P
    <2>1. PICK B : B = S \cup A
      OBVIOUS
    <2>2. IsFiniteSet(A) /\ IsFiniteSet(B)
      BY <2>1, FS_Subset, FS_Union
    <2>3. SumFunctionOnSet(f, A \cup {x}) = f[x] + SumFunctionOnSet(f, A)
      BY <2>2, SumInsert
    <2>4. SumFunctionOnSet(f, B \cup {x}) = f[x] + SumFunctionOnSet(f, B)
      BY <2>1, <2>2, SumInsert
    <2>5. B \cup {x} = S \cup (A \cup {x})
      BY <2>1
    <2>6. SumFunctionOnSet(f, A) \in Int /\ SumFunctionOnSet(f, S) \in Int /\ f[x] \in Int
      BY <2>2, SumType
    <2>7. SumFunctionOnSet(f, B) = SumFunctionOnSet(f, S) + SumFunctionOnSet(f, A)
      BY <1>2, <2>1
    <2>8. SumFunctionOnSet(f, S \cup (A \cup {x})) = SumFunctionOnSet(f, B \cup {x})
      BY <2>5
    <2>9. SumFunctionOnSet(f, S \cup (A \cup {x}))
          = SumFunctionOnSet(f, S) + SumFunctionOnSet(f, A \cup {x})
      BY <2>3, <2>4, <2>6, <2>7, <2>8
    <2> QED
      BY <2>9
  <1>3. T \in P
    <2> HIDE DEF P
    <2> QED
      BY <1>1, <1>2, EveryFiniteSet
  <1> QED
    BY <1>3

\* Summands that are sums.
LEMMA SumPlus ==
    ASSUME NEW f, NEW g, NEW h, NEW S, IsFiniteSet(S),
           \A x \in S : f[x] \in Int /\ g[x] \in Int /\ h[x] = f[x] + g[x]
    PROVE  SumFunctionOnSet(h, S) = SumFunctionOnSet(f, S) + SumFunctionOnSet(g, S)
  <1> DEFINE P == {A \in SUBSET S : SumFunctionOnSet(h, A)
                                    = SumFunctionOnSet(f, A) + SumFunctionOnSet(g, A)}
  <1>1. {} \in P
    BY SumEmpty
  <1>2. ASSUME NEW A \in SUBSET S, NEW x \in S \ A, A \in P PROVE A \cup {x} \in P
    <2>1. IsFiniteSet(A) /\ \A y \in A \cup {x} : f[y] \in Int /\ g[y] \in Int /\ h[y] \in Int
      BY FS_Subset
    <2>2. /\ SumFunctionOnSet(f, A \cup {x}) = f[x] + SumFunctionOnSet(f, A)
          /\ SumFunctionOnSet(g, A \cup {x}) = g[x] + SumFunctionOnSet(g, A)
          /\ SumFunctionOnSet(h, A \cup {x}) = h[x] + SumFunctionOnSet(h, A)
      BY <2>1, SumInsert
    <2>3. SumFunctionOnSet(f, A) \in Int /\ SumFunctionOnSet(g, A) \in Int
      BY <2>1, SumType
    <2>4. SumFunctionOnSet(h, A) = SumFunctionOnSet(f, A) + SumFunctionOnSet(g, A)
      BY <1>2
    <2>5. SumFunctionOnSet(h, A \cup {x}) = SumFunctionOnSet(f, A \cup {x}) + SumFunctionOnSet(g, A \cup {x})
      BY <2>2, <2>3, <2>4
    <2> QED
      BY <2>5
  <1>3. S \in P
    <2> HIDE DEF P
    <2> QED
      BY <1>1, <1>2, EveryFiniteSet
  <1> QED
    BY <1>3

\* A sum of ones counts.
LEMMA SumOfOnes ==
    ASSUME NEW f, NEW S, IsFiniteSet(S), \A x \in S : f[x] = 1
    PROVE  SumFunctionOnSet(f, S) = Cardinality(S)
  <1> DEFINE P == {A \in SUBSET S : SumFunctionOnSet(f, A) = Cardinality(A)}
  <1>1. {} \in P
    BY SumEmpty, FS_EmptySet
  <1>2. ASSUME NEW A \in SUBSET S, NEW x \in S \ A, A \in P PROVE A \cup {x} \in P
    <2>1. IsFiniteSet(A) /\ Cardinality(A) \in Nat /\ \A y \in A \cup {x} : f[y] \in Int
      BY FS_Subset, FS_CardinalityType
    <2>2. SumFunctionOnSet(f, A \cup {x}) = f[x] + SumFunctionOnSet(f, A)
      BY <2>1, SumInsert
    <2>3. Cardinality(A \cup {x}) = Cardinality(A) + 1
      BY <2>1, FS_AddElement
    <2>4. SumFunctionOnSet(f, A) = Cardinality(A)
      BY <1>2
    <2>5. SumFunctionOnSet(f, A \cup {x}) = Cardinality(A \cup {x})
      BY <2>1, <2>2, <2>3, <2>4
    <2> QED
      BY <2>5
  <1>3. S \in P
    <2> HIDE DEF P
    <2> QED
      BY <1>1, <1>2, EveryFiniteSet
  <1> QED
    BY <1>3

SumsByKey(g, K, f, S, key) ==
    \A k \in K : g[k] = SumFunctionOnSet(f, {x \in S : key[x] = k})

\* Grouped by a key, the groups add up to the whole.
LEMMA SumByKey ==
    ASSUME NEW f, NEW S, IsFiniteSet(S), \A x \in S : f[x] \in Int,
           NEW key, NEW K, IsFiniteSet(K), \A x \in S : key[x] \in K,
           NEW g, SumsByKey(g, K, f, S, key)
    PROVE  SumFunctionOnSet(g, K) = SumFunctionOnSet(f, S)
  <1> DEFINE of(A) == {x \in S : key[x] \in A}
             P == {A \in SUBSET K : SumFunctionOnSet(g, A) = SumFunctionOnSet(f, of(A))}
  <1>0. \A A \in SUBSET S : IsFiniteSet(A) /\ SumFunctionOnSet(f, A) \in Int
    <2> SUFFICES ASSUME NEW A \in SUBSET S PROVE IsFiniteSet(A) /\ SumFunctionOnSet(f, A) \in Int
      OBVIOUS
    <2>1. IsFiniteSet(A)
      BY FS_Subset
    <2> QED
      BY <2>1, SumType
  <1>1. {} \in P
    <2>1. of({}) = {}
      OBVIOUS
    <2> QED
      BY <2>1, SumEmpty
  <1>2. ASSUME NEW A \in SUBSET K, NEW k \in K \ A, A \in P PROVE A \cup {k} \in P
    <2>1. PICK B : B = {x \in S : key[x] = k}
      OBVIOUS
    <2>2. PICK C : C = of(A)
      OBVIOUS
    <2>3. of(A \cup {k}) = C \cup B /\ C \cap B = {} /\ B \in SUBSET S /\ C \in SUBSET S
      BY <2>1, <2>2
    <2>4. SumFunctionOnSet(f, C \cup B) = SumFunctionOnSet(f, C) + SumFunctionOnSet(f, B)
      BY <1>0, <2>3, SumUnion
    <2>5. \A j \in K : g[j] \in Int
      <3> SUFFICES ASSUME NEW j \in K PROVE g[j] \in Int
        OBVIOUS
      <3>1. {x \in S : key[x] = j} \in SUBSET S
        OBVIOUS
      <3> QED
        BY <1>0, <3>1 DEF SumsByKey
    <2>6. IsFiniteSet(A)
      BY FS_Subset
    <2>7. SumFunctionOnSet(g, A \cup {k}) = g[k] + SumFunctionOnSet(g, A)
      BY <2>5, <2>6, SumInsert
    <2>8. g[k] = SumFunctionOnSet(f, B) /\ SumFunctionOnSet(g, A) = SumFunctionOnSet(f, C)
      BY <1>2, <2>1, <2>2 DEF SumsByKey
    <2>9. SumFunctionOnSet(g, A \cup {k}) = SumFunctionOnSet(f, C \cup B)
      BY <1>0, <2>3, <2>4, <2>7, <2>8
    <2>10. SumFunctionOnSet(g, A \cup {k}) = SumFunctionOnSet(f, of(A \cup {k}))
      <3> HIDE DEF of
      <3> QED
        BY <2>3, <2>9
    <2> QED
      BY <2>10
  <1>3. K \in P
    <2> HIDE DEF P
    <2> QED
      BY <1>1, <1>2, EveryFiniteSet
  <1>4. of(K) = S
    OBVIOUS
  <1>5. SumFunctionOnSet(g, K) = SumFunctionOnSet(f, of(K))
    BY <1>3
  <1> QED
    BY <1>4, <1>5

AddUp(S, C, rows, columns, row, column) ==
    /\ \A x \in S : \A c \in C : rows[x][c] \in Int /\ columns[c][x] = rows[x][c]
    /\ \A x \in S : row[x] = SumFunctionOnSet(rows[x], C)
    /\ \A c \in C : column[c] = SumFunctionOnSet(columns[c], S)

\* Rows and columns add up to the same.
LEMMA SumByRowsAndColumns ==
    ASSUME NEW S, IsFiniteSet(S), NEW C, IsFiniteSet(C), NEW rows, NEW columns,
           NEW row, NEW column, AddUp(S, C, rows, columns, row, column)
    PROVE  SumFunctionOnSet(row, S) = SumFunctionOnSet(column, C)
  <1> SUFFICES ASSUME \A x \in S : \A c \in C : rows[x][c] \in Int /\ columns[c][x] = rows[x][c],
                      \A x \in S : row[x] = SumFunctionOnSet(rows[x], C),
                      \A c \in C : column[c] = SumFunctionOnSet(columns[c], S)
               PROVE  SumFunctionOnSet(row, S) = SumFunctionOnSet(column, C)
    BY DEF AddUp
  <1> DEFINE part(A) == [c \in C |-> SumFunctionOnSet(columns[c], A)]
             P == {A \in SUBSET S : SumFunctionOnSet(row, A) = SumFunctionOnSet(part(A), C)}
  <1>1. {} \in P
    <2>1. \A c \in C : part({})[c] = 0
      BY SumEmpty
    <2>2. PICK z : z = part({})
      OBVIOUS
    <2>3. \A c \in C : z[c] \in Int /\ z[c] = z[c] + z[c]
      BY <2>1, <2>2
    <2>4. SumFunctionOnSet(z, C) = SumFunctionOnSet(z, C) + SumFunctionOnSet(z, C)
      BY <2>3, SumPlus
    <2>5. SumFunctionOnSet(z, C) \in Int
      BY <2>3, SumType
    <2>6. SumFunctionOnSet(z, C) = 0
      <3>1. PICK s \in Int : s = SumFunctionOnSet(z, C)
        BY <2>5
      <3>2. s = s + s
        BY <2>4, <3>1
      <3>3. s = 0
        BY <3>2
      <3> QED
        BY <3>1, <3>3
    <2>7. SumFunctionOnSet(row, {}) = SumFunctionOnSet(part({}), C)
      <3> HIDE DEF part
      <3> QED
        BY <2>2, <2>6, SumEmpty
    <2> QED
      BY <2>7
  <1>2. ASSUME NEW A \in SUBSET S, NEW x \in S \ A, A \in P PROVE A \cup {x} \in P
    <2>1. PICK p : p = part(A)
      OBVIOUS
    <2>2. PICK q : q = part(A \cup {x})
      OBVIOUS
    <2>3. IsFiniteSet(A)
      BY FS_Subset
    <2>4. ASSUME NEW c \in C PROVE rows[x][c] \in Int /\ p[c] \in Int /\ q[c] = rows[x][c] + p[c]
      <3>1. PICK f : f = columns[c]
        OBVIOUS
      <3>2. \A y \in A \cup {x} : f[y] \in Int
        BY <3>1
      <3>3. SumFunctionOnSet(f, A \cup {x}) = f[x] + SumFunctionOnSet(f, A)
        BY <2>3, <3>2, SumInsert
      <3>4. SumFunctionOnSet(f, A) \in Int
        BY <2>3, <3>2, SumType
      <3>5. p[c] = SumFunctionOnSet(f, A) /\ q[c] = SumFunctionOnSet(f, A \cup {x})
        BY <2>1, <2>2, <3>1
      <3>6. f[x] = rows[x][c] /\ rows[x][c] \in Int
        BY <3>1
      <3> QED
        BY <3>3, <3>4, <3>5, <3>6
    <2>5. PICK h : h = rows[x]
      OBVIOUS
    <2>6. SumFunctionOnSet(q, C) = SumFunctionOnSet(h, C) + SumFunctionOnSet(p, C)
      BY <2>4, <2>5, SumPlus
    <2>7. \A y \in S : row[y] \in Int
      <3> SUFFICES ASSUME NEW y \in S PROVE row[y] \in Int
        OBVIOUS
      <3>1. PICK r : r = rows[y]
        OBVIOUS
      <3>2. SumFunctionOnSet(r, C) \in Int
        BY <3>1, SumType
      <3> QED
        BY <3>1, <3>2
    <2>8. SumFunctionOnSet(row, A \cup {x}) = row[x] + SumFunctionOnSet(row, A)
      BY <2>3, <2>7, SumInsert
    <2>9. SumFunctionOnSet(row, A) = SumFunctionOnSet(p, C)
      BY <1>2, <2>1
    <2>10. SumFunctionOnSet(row, A \cup {x}) = SumFunctionOnSet(part(A \cup {x}), C)
      <3> HIDE DEF part
      <3> QED
        BY <2>2, <2>5, <2>6, <2>8, <2>9
    <2> QED
      BY <2>10
  <1>3. S \in P
    <2> HIDE DEF P
    <2> QED
      BY <1>1, <1>2, EveryFiniteSet
  <1>4. SumFunctionOnSet(row, S) = SumFunctionOnSet(part(S), C)
    BY <1>3
  <1>5. \A c \in C : part(S)[c] = column[c]
    OBVIOUS
  <1>6. SumFunctionOnSet(part(S), C) = SumFunctionOnSet(column, C)
    <2> HIDE DEF part
    <2> QED
      BY <1>5, SumEqual
  <1> QED
    BY <1>4, <1>6

-----------------------------------------------------------------------------
(* Distances along a route                                                 *)

LEMMA DistanceType ==
    ASSUME NEW a, NEW b, a \in Int, b \in Int
    PROVE  Distance(a, b) \in Nat /\ Distance(a, b) = Distance(b, a) /\ Distance(a, a) = 0
  BY DEF Distance

LEMMA Triangle ==
    ASSUME NEW a, NEW b, NEW c, a \in Int, b \in Int, c \in Int
    PROVE  Distance(a, c) <= Distance(a, b) + Distance(b, c)
  BY DEF Distance

\* The part of the route up to its i-th point.
Before(points, i) == RouteTotalDistance(SubSeq(points, 1, i))

\* The lengths of the route's segments.
Legs(points) == [i \in 1 .. Len(points) - 1 |-> Distance(points[i], points[i + 1])]

LEMMA LegsBefore ==
    ASSUME NEW points \in Seq(Int), NEW i \in 1 .. Len(points)
    PROVE  Before(points, i) = SumFunctionOnSet(Legs(points), 1 .. i - 1)
  <1>1. PICK s : s = SubSeq(points, 1, i)
    OBVIOUS
  <1>2. Len(s) = i /\ \A j \in 1 .. i : s[j] = points[j]
    BY <1>1
  <1>3. PICK f : f = [j \in 1 .. Len(s) - 1 |-> Distance(s[j], s[j + 1])]
    OBVIOUS
  <1>4. RouteTotalDistance(s) = SumFunctionOnSet(f, 1 .. i - 1)
    BY <1>2, <1>3 DEF RouteTotalDistance, SumFunction
  <1>5. \A j \in 1 .. i - 1 : f[j] = Legs(points)[j]
    <2>1. f = [j \in 1 .. i - 1 |-> Distance(s[j], s[j + 1])]
      BY <1>2, <1>3
    <2> SUFFICES ASSUME NEW j \in 1 .. i - 1 PROVE f[j] = Legs(points)[j]
      OBVIOUS
    <2>2. j \in 1 .. Len(points) - 1 /\ s[j] = points[j] /\ s[j + 1] = points[j + 1]
      BY <1>2
    <2> QED
      BY <2>1, <2>2 DEF Legs
  <1>6. IsFiniteSet(1 .. i - 1)
    BY FS_Interval
  <1>7. SumFunctionOnSet(f, 1 .. i - 1) = SumFunctionOnSet(Legs(points), 1 .. i - 1)
    BY <1>5, <1>6, SumEqual
  <1> QED
    BY <1>1, <1>4, <1>7 DEF Before

\* The distance before a point grows by each segment.
LEMMA BeforeStep ==
    ASSUME NEW points \in Seq(Int)
    PROVE  /\ Len(points) > 0 => Before(points, 1) = 0
           /\ \A i \in 1 .. Len(points) : Before(points, i) \in Int
           /\ \A i \in 1 .. Len(points) - 1 :
                  Before(points, i + 1) = Before(points, i) + Distance(points[i], points[i + 1])
  <1>1. PICK legs : legs = Legs(points)
    OBVIOUS
  <1>2. \A i \in 1 .. Len(points) - 1 : legs[i] = Distance(points[i], points[i + 1]) /\ legs[i] \in Int
    <2> SUFFICES ASSUME NEW i \in 1 .. Len(points) - 1
                 PROVE  legs[i] = Distance(points[i], points[i + 1]) /\ legs[i] \in Int
      OBVIOUS
    <2>1. points[i] \in Int /\ points[i + 1] \in Int
      OBVIOUS
    <2>2. Distance(points[i], points[i + 1]) \in Nat
      BY <2>1, DistanceType
    <2> QED
      BY <1>1, <2>2 DEF Legs
  <1>3. Len(points) > 0 => Before(points, 1) = 0
    <2>1. 1 .. 1 - 1 = {}
      OBVIOUS
    <2> QED
      BY <2>1, LegsBefore, SumEmpty
  <1>4. ASSUME NEW i \in 1 .. Len(points) PROVE Before(points, i) \in Int
    <2>1. IsFiniteSet(1 .. i - 1) /\ \A j \in 1 .. i - 1 : legs[j] \in Int
      BY <1>2, FS_Interval
    <2> QED
      BY <1>1, <2>1, LegsBefore, SumType
  <1>5. ASSUME NEW i \in 1 .. Len(points) - 1
        PROVE  Before(points, i + 1) = Before(points, i) + Distance(points[i], points[i + 1])
    <2>1. PICK S : S = 1 .. i - 1
      OBVIOUS
    <2>2. IsFiniteSet(S) /\ i \notin S /\ \A j \in S \cup {i} : legs[j] \in Int
      <3>1. IsFiniteSet(1 .. i - 1)
        BY FS_Interval
      <3>2. i \notin S /\ S \cup {i} \subseteq 1 .. Len(points) - 1
        BY <2>1
      <3> QED
        BY <1>2, <2>1, <3>1, <3>2
    <2>3. SumFunctionOnSet(legs, S \cup {i}) = legs[i] + SumFunctionOnSet(legs, S)
      BY <2>2, SumInsert
    <2>4. S \cup {i} = 1 .. (i + 1) - 1
      BY <2>1
    <2>5. Before(points, i + 1) = SumFunctionOnSet(legs, S \cup {i})
      <3>1. i + 1 \in 1 .. Len(points)
        OBVIOUS
      <3> QED
        BY <1>1, <2>4, <3>1, LegsBefore
    <2>6. Before(points, i) = SumFunctionOnSet(legs, S)
      <3>1. i \in 1 .. Len(points)
        OBVIOUS
      <3> QED
        BY <1>1, <2>1, <3>1, LegsBefore
    <2>7. legs[i] = Distance(points[i], points[i + 1]) /\ legs[i] \in Int
      BY <1>2
    <2>8. Before(points, i) \in Int
      BY <1>4
    <2> QED
      BY <2>3, <2>5, <2>6, <2>7, <2>8
  <1> QED
    BY <1>3, <1>4, <1>5

\* The whole is what is before the last point.
LEMMA BeforeLast ==
    ASSUME NEW points \in Seq(Int), Len(points) > 0
    PROVE  RouteTotalDistance(points) = Before(points, Len(points))
  <1>1. SubSeq(points, 1, Len(points)) = points
    OBVIOUS
  <1> QED
    BY <1>1 DEF Before

\* Between two points the route is at least as long as the straight way.
LEMMA BeforeMonotone ==
    ASSUME NEW points \in Seq(Int), NEW a \in 1 .. Len(points), NEW b \in a .. Len(points)
    PROVE  Before(points, b) - Before(points, a) >= Distance(points[a], points[b])
  <1> DEFINE N == {n \in Nat : a + n <= Len(points) =>
                       Before(points, a + n) - Before(points, a) >= Distance(points[a], points[a + n])}
  <1>1. 0 \in N
    <2>1. Before(points, a) \in Int /\ points[a] \in Int
      BY BeforeStep
    <2>2. a + 0 = a
      OBVIOUS
    <2> QED
      BY <2>1, <2>2 DEF Distance
  <1>2. ASSUME NEW n \in N PROVE n + 1 \in N
    <2> SUFFICES ASSUME a + (n + 1) <= Len(points)
                 PROVE  Before(points, a + (n + 1)) - Before(points, a)
                        >= Distance(points[a], points[a + (n + 1)])
      OBVIOUS
    <2>1. PICK i : i = a + n
      OBVIOUS
    <2>2. i \in 1 .. Len(points) - 1 /\ a + (n + 1) = i + 1
      BY <2>1
    <2>3. Before(points, i) - Before(points, a) >= Distance(points[a], points[i])
      BY <2>1, <2>2
    <2>4. Before(points, i + 1) = Before(points, i) + Distance(points[i], points[i + 1])
      BY <2>2, BeforeStep
    <2>5. Before(points, i) \in Int /\ Before(points, a) \in Int
      BY <2>2, BeforeStep
    <2>6. points[a] \in Int /\ points[i] \in Int /\ points[i + 1] \in Int
      BY <2>2
    <2>8. Before(points, i + 1) \in Int
      BY <2>2, BeforeStep
    <2>9. Before(points, i + 1) - Before(points, a) >= Distance(points[a], points[i + 1])
      <3>1. Distance(points[a], points[i + 1])
            <= Distance(points[a], points[i]) + Distance(points[i], points[i + 1])
        BY <2>6, Triangle
      <3>2. Distance(points[a], points[i + 1]) \in Nat /\ Distance(points[a], points[i]) \in Nat
            /\ Distance(points[i], points[i + 1]) \in Nat
        BY <2>6, DistanceType
      <3> HIDE DEF N
      <3>3. PICK ba \in Int, bi \in Int, bj \in Int, ai \in Nat, ij \in Nat, aj \in Nat :
                /\ ba = Before(points, a) /\ bi = Before(points, i) /\ bj = Before(points, i + 1)
                /\ ai = Distance(points[a], points[i]) /\ ij = Distance(points[i], points[i + 1])
                /\ aj = Distance(points[a], points[i + 1])
        BY <2>5, <2>8, <3>2
      <3>4. bi - ba >= ai /\ bj = bi + ij /\ aj <= ai + ij
        BY <2>3, <2>4, <3>1, <3>3
      <3>5. bj - ba >= aj
        BY <3>4
      <3> QED
        BY <3>3, <3>5
    <2> QED
      BY <2>2, <2>9
  <1>3. N = Nat
    <2> HIDE DEF N
    <2>1. N \in SUBSET Nat
      BY DEF N
    <2> QED
      BY <1>1, <1>2, <2>1, EveryNumber
  <1>4. PICK n \in Nat : b = a + n
    <2>1. b - a \in Nat /\ b = a + (b - a)
      OBVIOUS
    <2> QED
      BY <2>1
  <1>5. n \in N
    BY <1>3
  <1> QED
    BY <1>4, <1>5

\* Of finitely many distances one is the least, and of its equals one the first.
LEMMA FirstLeast ==
    ASSUME NEW S \in SUBSET Nat, S # {}, NEW far \in [S -> Nat]
    PROVE  \E i \in S : \A j \in S : far[i] < far[j] \/ (far[i] = far[j] /\ i <= j)
  <1>1. PICK T : T = {far[i] : i \in S}
    OBVIOUS
  <1>2. T \in SUBSET Nat /\ T # {}
    BY <1>1
  <1>3. PICK m \in T : \A n \in T : m <= n
    BY <1>2, LeastNumber
  <1>4. PICK U : U = {i \in S : far[i] = m}
    OBVIOUS
  <1>5. U \in SUBSET Nat /\ U # {}
    BY <1>1, <1>3, <1>4
  <1>6. PICK i \in U : \A j \in U : i <= j
    BY <1>5, LeastNumber
  <1>7. ASSUME NEW j \in S PROVE far[i] < far[j] \/ (far[i] = far[j] /\ i <= j)
    <2>1. far[i] = m /\ m <= far[j] /\ far[j] \in Nat /\ m \in Nat
      BY <1>1, <1>2, <1>3, <1>4
    <2>2. far[j] = m => i <= j
      BY <1>4, <1>6
    <2> QED
      BY <2>1, <2>2
  <1> QED
    BY <1>4, <1>7

-----------------------------------------------------------------------------
(* The covered distance                                                    *)

\* q is a point of the segment from a to b.
Between(a, q, b) == Distance(a, q) + Distance(q, b) = Distance(a, b)

\* The projection is the one point of the segment that is nearest.
LEMMA ProjectionNearest ==
    ASSUME NEW a \in Int, NEW b \in Int, NEW p \in Int
    PROVE  /\ Projection(a, b, p) \in Int
           /\ Between(a, Projection(a, b, p), b)
           /\ \A q \in Int : Between(a, q, b) =>
                  /\ Distance(p, Projection(a, b, p)) <= Distance(p, q)
                  /\ Distance(p, Projection(a, b, p)) = Distance(p, q) => q = Projection(a, b, p)
  BY DEF Projection, Between, Distance

\* On a segment a distance from its start names one point.
LEMMA BetweenUnique ==
    ASSUME NEW a \in Int, NEW b \in Int, NEW q \in Int, NEW r \in Int,
           Between(a, q, b), Between(a, r, b), Distance(a, q) = Distance(a, r)
    PROVE  q = r
  BY DEF Between, Distance

LEMMA ProgressIs ==
    ASSUME NEW points \in Seq(Int), NEW position \in Int, position # Missing,
           Len(points) > 1, RouteTotalDistance(points) # 0
    PROVE  \E best \in 1 .. Len(points) - 1, near \in Int :
               /\ near = Projection(points[best], points[best + 1], position)
               /\ RouteProgress(points, position)
                  = [total |-> RouteTotalDistance(points),
                     covered |-> Before(points, best) + Distance(points[best], near),
                     remaining |-> RouteTotalDistance(points)
                                   - (Before(points, best) + Distance(points[best], near)),
                     deviation |-> Distance(position, near)]
               /\ \A j \in 1 .. Len(points) - 1 :
                      LET other == Distance(position, Projection(points[j], points[j + 1], position))
                      IN Distance(position, near) < other
                         \/ (Distance(position, near) = other /\ best <= j)
  <1> DEFINE segments == 1 .. Len(points) - 1
             off(i) == Distance(position, Projection(points[i], points[i + 1], position))
             first(i) == \A j \in segments : off(i) < off(j) \/ (off(i) = off(j) /\ i <= j)
             best == CHOOSE i \in segments : first(i)
  <1>1. \A i \in segments : /\ points[i] \in Int /\ points[i + 1] \in Int
                            /\ Projection(points[i], points[i + 1], position) \in Int
    <2> SUFFICES ASSUME NEW i \in segments
                 PROVE  /\ points[i] \in Int /\ points[i + 1] \in Int
                        /\ Projection(points[i], points[i + 1], position) \in Int
      OBVIOUS
    <2>1. points[i] \in Int /\ points[i + 1] \in Int
      OBVIOUS
    <2> QED
      BY <2>1, ProjectionNearest
  <1>2. \A i \in segments : off(i) \in Nat
    BY <1>1, DistanceType
  <1>3. \E i \in segments : first(i)
    <2>1. PICK far : far = [i \in segments |-> off(i)]
      OBVIOUS
    <2>2. far \in [segments -> Nat] /\ segments \in SUBSET Nat /\ segments # {}
      <3>1. segments \in SUBSET Nat /\ 1 \in segments
        OBVIOUS
      <3> HIDE DEF segments, off
      <3> QED
        BY <1>2, <2>1, <3>1
    <2>3. \E i \in segments : \A j \in segments : far[i] < far[j] \/ (far[i] = far[j] /\ i <= j)
      <3> HIDE DEF segments
      <3> QED
        BY <2>2, FirstLeast
    <2> QED
      BY <2>1, <2>3
  <1>4. best \in segments /\ first(best)
    <2> HIDE DEF segments, first
    <2> QED
      BY <1>3
  <1>5. PICK near \in Int : near = Projection(points[best], points[best + 1], position)
    <2> HIDE DEF best
    <2> QED
      BY <1>1, <1>4
  <1>6. RouteProgress(points, position)
        = [total |-> RouteTotalDistance(points),
           covered |-> Before(points, best) + Distance(points[best], near),
           remaining |-> RouteTotalDistance(points)
                         - (Before(points, best) + Distance(points[best], near)),
           deviation |-> Distance(position, near)]
    BY <1>5 DEF RouteProgress, Before
  <1> HIDE DEF best
  <1> QED
    BY <1>4, <1>5, <1>6

\* Every distance along the route is on one of its segments.
LEMMA SegmentAt ==
    ASSUME NEW points \in Seq(Int), Len(points) > 1, NEW x \in 0 .. RouteTotalDistance(points)
    PROVE  \E j \in 1 .. Len(points) - 1 :
               x - Before(points, j) \in 0 .. Distance(points[j], points[j + 1])
  <1>1. PICK T : T = {i \in 2 .. Len(points) : Before(points, i) >= x}
    OBVIOUS
  <1>2. RouteTotalDistance(points) = Before(points, Len(points))
    BY BeforeLast
  <1>3. \A i \in 1 .. Len(points) : Before(points, i) \in Int
    BY BeforeStep
  <1>4. Len(points) \in T
    BY <1>1, <1>2, <1>3
  <1>5. PICK k \in T : \A i \in T : k <= i
    <2>1. T \in SUBSET Nat /\ T # {}
      BY <1>1, <1>4
    <2> QED
      BY <2>1, LeastNumber
  <1>6. PICK j \in 1 .. Len(points) - 1 : j + 1 = k
    <2>1. k - 1 \in 1 .. Len(points) - 1 /\ (k - 1) + 1 = k
      BY <1>1
    <2> QED
      BY <2>1
  <1>7. Before(points, j) <= x
    <2>1. CASE j = 1
      <3>1. Before(points, 1) = 0
        BY BeforeStep
      <3>2. 0 <= x
        BY <1>2, <1>3
      <3> QED
        BY <2>1, <3>1, <3>2
    <2>2. CASE j # 1
      <3>1. j \notin T /\ j \in 2 .. Len(points) /\ Before(points, j) \in Int
        BY <1>3, <1>5, <1>6, <2>2
      <3>2. ~(Before(points, j) >= x)
        BY <1>1, <3>1
      <3> QED
        BY <3>1, <3>2
    <2> QED
      BY <2>1, <2>2
  <1>8. Before(points, j + 1) = Before(points, j) + Distance(points[j], points[j + 1])
    BY BeforeStep
  <1>9. Before(points, j) \in Int /\ Before(points, j + 1) >= x
    <2>1. Before(points, k) >= x /\ j \in 1 .. Len(points)
      BY <1>1
    <2> QED
      BY <1>3, <1>6, <2>1
  <1>10. Distance(points[j], points[j + 1]) \in Nat
    <2>1. points[j] \in Int /\ points[j + 1] \in Int
      OBVIOUS
    <2> QED
      BY <2>1, DistanceType
  <1>11. x \in Int
    BY <1>2, <1>3
  <1>12. PICK b, d : b = Before(points, j) /\ d = Distance(points[j], points[j + 1])
    OBVIOUS
  <1>13. b \in Int /\ d \in Nat /\ b <= x /\ x <= b + d
    BY <1>7, <1>8, <1>9, <1>10, <1>12
  <1>14. x - b \in 0 .. d
    BY <1>11, <1>13
  <1> QED
    BY <1>12, <1>14

\* The point at a distance is on a segment, that far along the route.
LEMMA PointAtIs ==
    ASSUME NEW points \in Seq(Int), Len(points) > 1, NEW x \in 0 .. RouteTotalDistance(points)
    PROVE  \E j \in 1 .. Len(points) - 1, q \in Int :
               /\ PointAt(points, x) = q
               /\ Between(points[j], q, points[j + 1])
               /\ x = Before(points, j) + Distance(points[j], q)
  <1> DEFINE At(j) == x - Before(points, j) \in 0 .. Distance(points[j], points[j + 1])
             i == CHOOSE j \in 1 .. Len(points) - 1 : At(j)
  <1>1. i \in 1 .. Len(points) - 1 /\ At(i)
    <2>1. \E j \in 1 .. Len(points) - 1 : At(j)
      BY SegmentAt
    <2> HIDE DEF At
    <2> QED
      BY <2>1
  <1>2. PointAt(points, x) = IF points[i] < points[i + 1] THEN points[i] + (x - Before(points, i))
                             ELSE points[i] - (x - Before(points, i))
    BY DEF PointAt, Before
  <1> HIDE DEF i
  <1>3. points[i] \in Int /\ points[i + 1] \in Int /\ Before(points, i) \in Int
    BY <1>1, BeforeStep
  <1>4. PICK q : q = PointAt(points, x)
    OBVIOUS
  <1>5. q \in Int /\ Between(points[i], q, points[i + 1]) /\ x = Before(points, i) + Distance(points[i], q)
    <2>1. PICK a, b, c, d : a = points[i] /\ b = points[i + 1] /\ c = Before(points, i) /\ d = x - c
      OBVIOUS
    <2>2. a \in Int /\ b \in Int /\ c \in Int /\ d \in 0 .. Distance(a, b)
      BY <1>1, <1>3, <2>1
    <2>3. q = IF a < b THEN a + d ELSE a - d
      BY <1>2, <1>4, <2>1
    <2>4. q \in Int /\ Between(a, q, b) /\ Distance(a, q) = d
      BY <2>2, <2>3 DEF Between, Distance
    <2>5. x \in Int /\ x = c + d
      BY <2>1, <2>2
    <2> QED
      BY <2>1, <2>4, <2>5
  <1> QED
    BY <1>1, <1>4, <1>5

LEMMA LegFacts ==
    ASSUME NEW points \in Seq(Int), NEW k \in 1 .. Len(points) - 1
    PROVE  /\ points[k] \in Int /\ points[k + 1] \in Int
           /\ Before(points, k) \in Int /\ Before(points, k + 1) \in Int
           /\ Before(points, k + 1) = Before(points, k) + Distance(points[k], points[k + 1])
  <1>1. k \in 1 .. Len(points) /\ k + 1 \in 1 .. Len(points)
    OBVIOUS
  <1>2. points[k] \in Int /\ points[k + 1] \in Int
    BY <1>1
  <1>3. Before(points, k) \in Int /\ Before(points, k + 1) \in Int
    BY <1>1, BeforeStep
  <1> QED
    BY <1>2, <1>3, BeforeStep

LEMMA BetweenBounds ==
    ASSUME NEW a, NEW b, NEW q, a \in Int, b \in Int, q \in Int, Between(a, q, b)
    PROVE  Distance(a, q) \in Nat /\ Distance(q, b) \in Nat /\ Distance(a, b) \in Nat
           /\ Distance(a, q) <= Distance(a, b)
  BY DEF Between, Distance

LEMMA NoDistance ==
    ASSUME NEW a, NEW b, a \in Int, b \in Int, Distance(a, b) = 0
    PROVE  a = b
  BY DEF Distance

\* A point of the route and the distance to it determine each other.
LEMMA SamePlace ==
    ASSUME NEW points \in Seq(Int), NEW i \in 1 .. Len(points) - 1, NEW j \in 1 .. Len(points) - 1,
           NEW p \in Int, NEW q \in Int,
           Between(points[i], p, points[i + 1]), Between(points[j], q, points[j + 1]),
           Before(points, i) + Distance(points[i], p) = Before(points, j) + Distance(points[j], q)
    PROVE  p = q
  <1>1. \A k \in 1 .. Len(points) - 1 :
            /\ points[k] \in Int /\ points[k + 1] \in Int
            /\ Before(points, k) \in Int /\ Before(points, k + 1) \in Int
            /\ Before(points, k + 1) = Before(points, k) + Distance(points[k], points[k + 1])
    BY LegFacts
  <1>2. CASE i = j
    <2>1. Distance(points[i], p) \in Int /\ Distance(points[i], q) \in Int
      <3>1. PICK a : a = points[i]
        OBVIOUS
      <3>2. a \in Int
        BY <1>1, <3>1
      <3>3. Distance(a, p) \in Int /\ Distance(a, q) \in Int
        BY <3>2, DistanceType DEF Distance
      <3> QED
        BY <3>1, <3>3
    <2>2. Distance(points[i], p) = Distance(points[i], q)
      BY <1>1, <1>2, <2>1
    <2> QED
      BY <1>1, <1>2, <2>2, BetweenUnique
  <1>3. ASSUME NEW a \in 1 .. Len(points) - 1, NEW b \in 1 .. Len(points) - 1, a < b,
               NEW r \in Int, NEW s \in Int,
               Between(points[a], r, points[a + 1]), Between(points[b], s, points[b + 1]),
               Before(points, a) + Distance(points[a], r) = Before(points, b) + Distance(points[b], s)
        PROVE  r = s
    <2>1. Before(points, b) - Before(points, a + 1) >= Distance(points[a + 1], points[b])
      <3>1. a + 1 \in 1 .. Len(points) /\ b \in a + 1 .. Len(points)
        BY <1>3
      <3> QED
        BY <3>1, BeforeMonotone
    <2>2. PICK x \in Int, y \in Int, z \in Int, w \in Int, ba \in Int, bb \in Int, bc \in Int :
              /\ x = points[a] /\ y = points[a + 1] /\ z = points[b] /\ w = points[b + 1]
              /\ ba = Before(points, a) /\ bb = Before(points, a + 1) /\ bc = Before(points, b)
      BY <1>1
    <2>3. bb = ba + Distance(x, y)
      BY <1>1, <2>2
    <2>4. /\ Between(x, r, y) /\ Between(z, s, w)
          /\ ba + Distance(x, r) = bc + Distance(z, s)
          /\ bc - bb >= Distance(y, z)
      BY <1>3, <2>1, <2>2
    <2>5. PICK xy \in Nat, xr \in Nat, ry \in Nat, yz \in Nat, zs \in Nat :
              /\ xy = Distance(x, y) /\ xr = Distance(x, r) /\ ry = Distance(r, y)
              /\ yz = Distance(y, z) /\ zs = Distance(z, s)
      BY <1>3, DistanceType
    <2>6. xr + ry = xy
      BY <2>4, <2>5 DEF Between
    <2>7. bb = ba + xy /\ ba + xr = bc + zs /\ bc - bb >= yz
      BY <2>3, <2>4, <2>5
    <2>8. ry = 0 /\ yz = 0 /\ zs = 0
      <3>1. ba + xr >= ba + xy + yz + zs
        BY <2>7
      <3>2. ry + yz + zs <= 0
        BY <2>6, <3>1
      <3>3. ry = 0
        BY <3>2
      <3>4. yz = 0
        BY <3>2
      <3>5. zs = 0
        BY <3>2
      <3> QED
        BY <3>3, <3>4, <3>5
    <2>9. r = y /\ y = z /\ z = s
      BY <1>3, <2>5, <2>8, NoDistance
    <2> QED
      BY <2>9
  <1>4. CASE i < j
    BY <1>3, <1>4
  <1>5. CASE j < i
    BY <1>3, <1>5
  <1> QED
    BY <1>2, <1>4, <1>5

\* computeRouteProgress, for every route and position: the covered distance names the
\* first place on the route that is nearest to the vehicle.
THEOREM NearestIsCovered ==
    ASSUME NEW points \in Seq(Int), NEW position \in Int \cup {Missing}, Grid \in Nat \ {0}
    PROVE  CoversNearest(points, position)
  <1> DEFINE progress == RouteProgress(points, position)
             off(x) == Distance(position, PointAt(points, x))
  <1> SUFFICES ASSUME position # Missing, Len(points) > 1, progress.total > 0
               PROVE  /\ off(progress.covered) = progress.deviation
                      /\ \A x \in {Grid * n : n \in 0 .. progress.total \div Grid} :
                             off(x) > progress.deviation
                             \/ (off(x) = progress.deviation /\ x >= progress.covered)
    BY DEF CoversNearest
  <1>1. progress.total = RouteTotalDistance(points)
    BY DEF RouteProgress
  <1>2. PICK best \in 1 .. Len(points) - 1, near \in Int :
            /\ near = Projection(points[best], points[best + 1], position)
            /\ progress = [total |-> RouteTotalDistance(points),
                           covered |-> Before(points, best) + Distance(points[best], near),
                           remaining |-> RouteTotalDistance(points)
                                         - (Before(points, best) + Distance(points[best], near)),
                           deviation |-> Distance(position, near)]
            /\ \A j \in 1 .. Len(points) - 1 :
                   LET other == Distance(position, Projection(points[j], points[j + 1], position))
                   IN Distance(position, near) < other
                      \/ (Distance(position, near) = other /\ best <= j)
    <2>1. position \in Int /\ RouteTotalDistance(points) # 0
      BY <1>1
    <2> HIDE DEF progress
    <2> QED
      BY <2>1, ProgressIs DEF progress
  <1> DEFINE total == RouteTotalDistance(points)
             covered == Before(points, best) + Distance(points[best], near)
             deviation == Distance(position, near)
  <1>3. \A k \in 1 .. Len(points) - 1 :
            /\ points[k] \in Int /\ points[k + 1] \in Int
            /\ Before(points, k) \in Int /\ Before(points, k + 1) \in Int
            /\ Before(points, k + 1) = Before(points, k) + Distance(points[k], points[k + 1])
    BY LegFacts
  <1>4. total \in Int /\ total = Before(points, Len(points))
    BY BeforeLast, BeforeStep
  <1>5. Between(points[best], near, points[best + 1])
    BY <1>2, <1>3, ProjectionNearest
  <1>6. covered \in 0 .. total
    <2>1. Before(points, 1) = 0
      BY BeforeStep
    <2>2. Before(points, best) - Before(points, 1) >= Distance(points[1], points[best])
      BY BeforeMonotone
    <2>3. Before(points, Len(points)) - Before(points, best + 1) >= Distance(points[best + 1], points[Len(points)])
      BY BeforeMonotone
    <2>4. points[1] \in Int /\ points[Len(points)] \in Int
      OBVIOUS
    <2>5. Distance(points[1], points[best]) \in Nat /\ Distance(points[best + 1], points[Len(points)]) \in Nat
      BY <1>3, <2>4, DistanceType
    <2>6. Distance(points[best], near) \in 0 .. Distance(points[best], points[best + 1])
      BY <1>3, <1>5, BetweenBounds
    <2>7. PICK b \in Int, c \in Int, d \in Int, e \in Int, f \in Int :
              /\ b = Before(points, best) /\ c = Before(points, best + 1)
              /\ d = Distance(points[best], near) /\ f = total
              /\ e = Distance(points[best], points[best + 1])
      <3>1. Distance(points[best], points[best + 1]) \in Int /\ Distance(points[best], near) \in Int
        <4>1. points[best] \in Int /\ points[best + 1] \in Int
          BY <1>3
        <4> QED
          BY <4>1, DistanceType
      <3>2. Before(points, best) \in Int /\ Before(points, best + 1) \in Int /\ total \in Int
        BY <1>3, <1>4
      <3> HIDE DEF total
      <3> QED
        BY <3>1, <3>2
    <2>8. d \in 0 .. e /\ c = b + e
      BY <1>3, <2>6, <2>7
    <2>9. b >= 0 /\ f >= c
      <3>1. PICK near1 \in Nat, near2 \in Nat :
                /\ near1 = Distance(points[1], points[best])
                /\ near2 = Distance(points[best + 1], points[Len(points)])
        BY <2>5
      <3>2. b - 0 >= near1 /\ f - c >= near2
        BY <1>3, <1>4, <2>1, <2>2, <2>3, <2>7, <3>1
      <3> QED
        BY <2>8, <3>2
    <2>10. b + d \in 0 .. f
      BY <2>8, <2>9
    <2> QED
      BY <2>7, <2>10
  <1>7. off(covered) = deviation
    <2>1. PICK j \in 1 .. Len(points) - 1, q \in Int :
              /\ PointAt(points, covered) = q
              /\ Between(points[j], q, points[j + 1])
              /\ covered = Before(points, j) + Distance(points[j], q)
      <3> HIDE DEF covered, total
      <3> QED
        BY <1>6, PointAtIs DEF total
    <2>2. q = near
      BY <1>5, <2>1, SamePlace
    <2> QED
      BY <2>1, <2>2
  <1>8. ASSUME NEW x \in 0 .. total
        PROVE  off(x) > deviation \/ (off(x) = deviation /\ x >= covered)
    <2>1. PICK j \in 1 .. Len(points) - 1, q \in Int :
              /\ PointAt(points, x) = q
              /\ Between(points[j], q, points[j + 1])
              /\ x = Before(points, j) + Distance(points[j], q)
      BY PointAtIs
    <2>2. PICK proj : proj = Projection(points[j], points[j + 1], position)
      OBVIOUS
    <2>3. /\ proj \in Int /\ Between(points[j], proj, points[j + 1])
          /\ Distance(position, proj) <= Distance(position, q)
          /\ Distance(position, proj) = Distance(position, q) => q = proj
      <3>1. PICK a, b : a = points[j] /\ b = points[j + 1]
        OBVIOUS
      <3>2. a \in Int /\ b \in Int /\ Between(a, q, b) /\ position \in Int
        BY <1>3, <2>1, <3>1
      <3>3. proj = Projection(a, b, position)
        BY <2>2, <3>1
      <3>4. /\ proj \in Int /\ Between(a, proj, b)
            /\ Distance(position, proj) <= Distance(position, q)
            /\ Distance(position, proj) = Distance(position, q) => q = proj
        BY <3>2, <3>3, ProjectionNearest
      <3> QED
        BY <3>1, <3>4
    <2>4. deviation < Distance(position, proj) \/ (deviation = Distance(position, proj) /\ best <= j)
      BY <1>2, <2>2
    <2>5. PICK least \in Int, toProj \in Int, toQ \in Int :
              least = deviation /\ toProj = Distance(position, proj) /\ toQ = Distance(position, q)
      <3>1. Distance(position, near) \in Nat
        BY DistanceType
      <3>2. Distance(position, proj) \in Nat
        BY <2>3, DistanceType
      <3>3. Distance(position, q) \in Nat
        BY DistanceType
      <3> QED
        BY <3>1, <3>2, <3>3
    <2>6. CASE least < toQ
      <3>1. toQ > least
        BY <2>6
      <3> QED
        BY <2>1, <2>5, <3>1
    <2>7. CASE ~ (least < toQ)
      <3>1. deviation = Distance(position, q) /\ q = proj /\ best <= j
        <4>1. least < toProj \/ (least = toProj /\ best <= j)
          BY <2>4, <2>5
        <4>2. toProj <= toQ
          BY <2>3, <2>5
        <4>3. least = toQ
          BY <2>7, <4>1, <4>2
        <4>4. toProj = toQ
          BY <2>7, <4>1, <4>2
        <4>5. best <= j
          BY <4>1, <4>3, <4>4
        <4> QED
          BY <2>3, <2>5, <4>3, <4>4, <4>5
      <3>2. x >= covered
        <4>1. CASE best = j
          BY <1>2, <2>1, <2>2, <3>1, <4>1, <1>6
        <4>2. CASE best < j
          <5>1. Before(points, j) - Before(points, best + 1) >= Distance(points[best + 1], points[j])
            BY <4>2, BeforeMonotone
          <5>2. Distance(points[best + 1], points[j]) \in Nat /\ Distance(points[j], q) \in Nat
            <6>1. points[best + 1] \in Int /\ points[j] \in Int
              BY <1>3
            <6>2. Distance(points[best + 1], points[j]) \in Nat
              BY <6>1, DistanceType
            <6>3. Distance(points[j], q) \in Nat
              BY <6>1, DistanceType
            <6> QED
              BY <6>2, <6>3
          <5>3. Distance(points[best], near) \in 0 .. Distance(points[best], points[best + 1])
            BY <1>3, <1>5, BetweenBounds
          <5> QED
            <6>1. PICK b, c, d, e, f, g, h :
                      /\ b = Before(points, best) /\ c = Before(points, best + 1)
                      /\ d = Distance(points[best], near)
                      /\ e = Distance(points[best], points[best + 1])
                      /\ f = Before(points, j) /\ g = Distance(points[j], q)
                      /\ h = Distance(points[best + 1], points[j])
              OBVIOUS
            <6>2. b \in Int /\ c \in Int /\ f \in Int /\ g \in Nat /\ h \in Nat /\ e \in Nat
                  /\ d \in 0 .. e /\ c = b + e
              BY <1>3, <5>2, <5>3, <6>1, DistanceType
            <6>3. f - c >= h /\ x = f + g
              BY <2>1, <5>1, <6>1
            <6>4. x >= b + d
              BY <6>2, <6>3
            <6> QED
              BY <6>1, <6>4
        <4> QED
          BY <3>1, <4>1, <4>2
      <3> QED
        BY <2>1, <3>1, <3>2
    <2> QED
      BY <2>6, <2>7
  <1>9. \A x \in {Grid * n : n \in 0 .. total \div Grid} : x \in 0 .. total
    <2>1. \A a, d \in Nat : \A n \in 0 .. a \div d : d # 0 => d * n \in 0 .. a
      OBVIOUS
    <2>2. total \in Nat
      BY <1>4, <1>6
    <2> HIDE DEF total
    <2> QED
      BY <2>1, <2>2
  <1> QED
    BY <1>2, <1>7, <1>8, <1>9

\* A function on 0 .. n may be defined by its first value and the step to the next.
Steps(step, n, V) == \A k \in 1 .. n : \A v \in V : step[<<k, v>>] \in V

Follows(f, n, base, step) == f[0] = base /\ \A k \in 1 .. n : f[k] = step[<<k, f[k - 1]>>]

\* There is such a function: what a recursive function of the model denotes.
LEMMA RecursionExists ==
    ASSUME NEW n \in Nat, NEW V, NEW base \in V, NEW step, Steps(step, n, V)
    PROVE  \E f \in [0 .. n -> V] : Follows(f, n, base, step)
  <1> SUFFICES \E f \in [0 .. n -> V] :
                   f[0] = base /\ \A k \in 1 .. n : f[k] = step[<<k, f[k - 1]>>]
    BY DEF Follows
  <1>0. \A k \in 1 .. n : \A v \in V : step[<<k, v>>] \in V
    BY DEF Steps
  <1> DEFINE Fits(f, m) == f[0] = base /\ \A k \in 1 .. m : f[k] = step[<<k, f[k - 1]>>]
             M == {m \in Nat : m <= n => \E f \in [0 .. m -> V] : Fits(f, m)}
  <1>1. 0 \in M
    <2>1. PICK f : f = [k \in 0 .. 0 |-> base]
      OBVIOUS
    <2>2. f \in [0 .. 0 -> V] /\ Fits(f, 0)
      BY <2>1
    <2> HIDE DEF Fits
    <2> QED
      BY <2>2
  <1>2. ASSUME NEW m \in M PROVE m + 1 \in M
    <2> SUFFICES ASSUME m + 1 <= n PROVE \E f \in [0 .. m + 1 -> V] : Fits(f, m + 1)
      OBVIOUS
    <2>1. PICK g \in [0 .. m -> V] : Fits(g, m)
      OBVIOUS
    <2>2. PICK f : f = [k \in 0 .. m + 1 |-> IF k = m + 1 THEN step[<<k, g[m]>>] ELSE g[k]]
      OBVIOUS
    <2>3. \A k \in 0 .. m : f[k] = g[k] /\ g[k] \in V
      BY <2>2
    <2>4. f[m + 1] = step[<<m + 1, g[m]>>] /\ f[m + 1] \in V
      <3>1. m + 1 \in 1 .. n /\ m + 1 \in 0 .. m + 1 /\ g[m] \in V
        BY <2>3
      <3>2. step[<<m + 1, g[m]>>] \in V
        BY <1>0, <3>1
      <3> QED
        BY <2>2, <3>1, <3>2
    <2>5. f \in [0 .. m + 1 -> V]
      <3>1. \A k \in 0 .. m + 1 : f[k] \in V
        BY <2>3, <2>4
      <3> QED
        BY <2>2, <3>1
    <2>6. f[0] = base
      BY <2>1, <2>3
    <2>7. ASSUME NEW k \in 1 .. m + 1 PROVE f[k] = step[<<k, f[k - 1]>>]
      <3>1. CASE k = m + 1
        <4>1. k - 1 = m /\ f[m] = g[m]
          BY <2>3, <3>1
        <4> QED
          BY <2>4, <3>1, <4>1
      <3>2. CASE k # m + 1
        <4>1. k \in 1 .. m /\ k - 1 \in 0 .. m
          BY <3>2
        <4> QED
          BY <2>1, <2>3, <4>1
      <3> QED
        BY <3>1, <3>2
    <2> QED
      BY <2>5, <2>6, <2>7
  <1>3. M = Nat
    <2> HIDE DEF M
    <2>1. M \in SUBSET Nat
      BY DEF M
    <2> QED
      BY <1>1, <1>2, <2>1, EveryNumber
  <1> QED
    BY <1>3

-----------------------------------------------------------------------------
(* The points that have coordinates                                        *)


\* What the located points grow by.
Locates(upTo, points) ==
    /\ upTo[0] = <<>>
    /\ \A n \in 1 .. Len(points) :
           upTo[n] = IF points[n] = Missing THEN upTo[n - 1] ELSE Append(upTo[n - 1], points[n])

\* Located is defined, and drops the points that are Missing.
LEMMA LocatedIs ==
    ASSUME NEW points \in Seq(Places)
    PROVE  \E upTo \in [0 .. Len(points) -> Seq(Int)] :
               Locates(upTo, points) /\ Located(points) = upTo[Len(points)]
  <1> DEFINE Body(g) == [n \in 0 .. Len(points) |->
                            IF n = 0 THEN <<>>
                            ELSE IF points[n] = Missing THEN g[n - 1]
                            ELSE Append(g[n - 1], points[n])]
  <1>1. Located(points) = (CHOOSE g : g = Body(g))[Len(points)]
    BY DEF Located
  <1>2. \E f : f = Body(f)
    <2>1. PICK step : step = [x \in (1 .. Len(points)) \X Seq(Int) |->
                                  IF points[x[1]] = Missing THEN x[2] ELSE Append(x[2], points[x[1]])]
      OBVIOUS
    <2>2. ASSUME NEW k \in 1 .. Len(points), NEW v \in Seq(Int)
          PROVE  /\ step[<<k, v>>] = IF points[k] = Missing THEN v ELSE Append(v, points[k])
                 /\ step[<<k, v>>] \in Seq(Int)
      <3>1. step[<<k, v>>] = IF points[k] = Missing THEN v ELSE Append(v, points[k])
        BY <2>1
      <3>2. points[k] \in Places
        OBVIOUS
      <3> QED
        BY <3>1, <3>2 DEF Places
    <2>3. Len(points) \in Nat /\ <<>> \in Seq(Int)
      OBVIOUS
    <2>4. PICK f \in [0 .. Len(points) -> Seq(Int)] :
              f[0] = <<>> /\ \A k \in 1 .. Len(points) : f[k] = step[<<k, f[k - 1]>>]
      <3>1. Steps(step, Len(points), Seq(Int))
        BY <2>2 DEF Steps
      <3>2. \E f \in [0 .. Len(points) -> Seq(Int)] : Follows(f, Len(points), <<>>, step)
        BY <2>3, <3>1, RecursionExists
      <3> QED
        BY <3>2 DEF Follows
    <2>5. ASSUME NEW k \in 1 .. Len(points)
          PROVE  f[k] = IF points[k] = Missing THEN f[k - 1] ELSE Append(f[k - 1], points[k])
      <3>1. f[k - 1] \in Seq(Int)
        BY <2>4
      <3> QED
        BY <2>2, <2>4, <3>1
    <2>6. f = Body(f)
      <3>1. ASSUME NEW k \in 0 .. Len(points)
            PROVE  f[k] = IF k = 0 THEN <<>>
                          ELSE IF points[k] = Missing THEN f[k - 1]
                          ELSE Append(f[k - 1], points[k])
        <4>1. k # 0 => k \in 1 .. Len(points)
          OBVIOUS
        <4> QED
          BY <2>4, <2>5, <4>1
      <3> QED
        BY <2>4, <3>1
    <2> QED
      BY <2>6
  <1>3. PICK g : g = Body(g) /\ Located(points) = g[Len(points)]
    <2> HIDE DEF Body
    <2> QED
      BY <1>1, <1>2
  <1>4. Locates(g, points)
    <2>1. 0 \in 0 .. Len(points)
      OBVIOUS
    <2>2. g[0] = <<>>
      BY <1>3, <2>1
    <2>3. ASSUME NEW k \in 1 .. Len(points)
          PROVE  g[k] = IF points[k] = Missing THEN g[k - 1] ELSE Append(g[k - 1], points[k])
      <3>1. k \in 0 .. Len(points) /\ k # 0
        OBVIOUS
      <3> QED
        BY <1>3, <3>1
    <2> QED
      BY <2>2, <2>3 DEF Locates
  <1>5. \A n \in 0 .. Len(points) : g[n] \in Seq(Int)
    <2> DEFINE M == {m \in Nat : m <= Len(points) => g[m] \in Seq(Int)}
    <2>1. 0 \in M
      <3>1. g[0] = <<>>
        BY <1>4 DEF Locates
      <3>2. <<>> \in Seq(Int)
        OBVIOUS
      <3> QED
        BY <3>1, <3>2
    <2>2. ASSUME NEW m \in M PROVE m + 1 \in M
      <3> SUFFICES ASSUME m + 1 <= Len(points) PROVE g[m + 1] \in Seq(Int)
        OBVIOUS
      <3>1. m + 1 \in 1 .. Len(points) /\ g[m] \in Seq(Int) /\ (m + 1) - 1 = m
        OBVIOUS
      <3>2. points[m + 1] \in Places
        BY <3>1
      <3>3. g[m + 1] = IF points[m + 1] = Missing THEN g[m] ELSE Append(g[m], points[m + 1])
        BY <1>4, <3>1 DEF Locates
      <3> QED
        BY <3>1, <3>2, <3>3 DEF Places
    <2>3. M = Nat
      <3> HIDE DEF M
      <3>1. M \in SUBSET Nat
        BY DEF M
      <3> QED
        BY <2>1, <2>2, <3>1, EveryNumber
    <2> QED
      BY <2>3
  <1>6. g \in [0 .. Len(points) -> Seq(Int)]
    BY <1>3, <1>5
  <1> QED
    BY <1>3, <1>4, <1>6

\* A prefix keeps its located points.
LEMMA LocatedOfPrefix ==
    ASSUME NEW points \in Seq(Places)
    PROVE  \E upTo \in [0 .. Len(points) -> Seq(Int)] :
               /\ Locates(upTo, points)
               /\ \A n \in 0 .. Len(points) : Located(SubSeq(points, 1, n)) = upTo[n]
  <1>1. PICK upTo \in [0 .. Len(points) -> Seq(Int)] :
            Locates(upTo, points) /\ Located(points) = upTo[Len(points)]
    BY LocatedIs
  <1>2. ASSUME NEW n \in 0 .. Len(points) PROVE Located(SubSeq(points, 1, n)) = upTo[n]
    <2>1. PICK s : s = SubSeq(points, 1, n)
      OBVIOUS
    <2>2. s \in Seq(Places) /\ Len(s) = n /\ \A k \in 1 .. n : s[k] = points[k]
      BY <2>1
    <2>3. PICK g \in [0 .. n -> Seq(Int)] : Locates(g, s) /\ Located(s) = g[n]
      BY <2>2, LocatedIs
    <2> DEFINE M == {m \in Nat : m <= n => g[m] = upTo[m]}
    <2>4. 0 \in M
      BY <1>1, <2>3 DEF Locates
    <2>5. ASSUME NEW m \in M PROVE m + 1 \in M
      <3> SUFFICES ASSUME m + 1 <= n PROVE g[m + 1] = upTo[m + 1]
        OBVIOUS
      <3>1. PICK k \in 1 .. n : k = m + 1 /\ k - 1 = m /\ k \in 1 .. Len(points)
        OBVIOUS
      <3>2. g[k] = IF s[k] = Missing THEN g[k - 1] ELSE Append(g[k - 1], s[k])
        BY <2>2, <2>3 DEF Locates
      <3>3. upTo[k] = IF points[k] = Missing THEN upTo[k - 1] ELSE Append(upTo[k - 1], points[k])
        BY <1>1, <3>1 DEF Locates
      <3>4. s[k] = points[k] /\ g[k - 1] = upTo[k - 1]
        BY <2>2, <3>1
      <3>5. g[k] = upTo[k]
        BY <3>2, <3>3, <3>4
      <3> QED
        BY <3>1, <3>5
    <2>6. M = Nat
      <3> HIDE DEF M
      <3>1. M \in SUBSET Nat
        BY DEF M
      <3> QED
        BY <2>4, <2>5, <3>1, EveryNumber
    <2>7. g[n] = upTo[n]
      <3>1. n \in M
        <4> HIDE DEF M
        <4> QED
          BY <2>6
      <3> QED
        BY <3>1
    <2> QED
      BY <2>1, <2>3, <2>7
  <1> QED
    BY <1>1, <1>2

LEMMA TotalIsNat ==
    ASSUME NEW p \in Seq(Int)
    PROVE  RouteTotalDistance(p) \in Nat
  <1>1. CASE Len(p) > 0
    <2>1. RouteTotalDistance(p) = Before(p, Len(p)) /\ Before(p, 1) = 0 /\ Before(p, Len(p)) \in Int
      BY <1>1, BeforeLast, BeforeStep
    <2>2. Before(p, Len(p)) - Before(p, 1) >= Distance(p[1], p[Len(p)])
      BY <1>1, BeforeMonotone
    <2>3. p[1] \in Int /\ p[Len(p)] \in Int
      BY <1>1
    <2>4. Distance(p[1], p[Len(p)]) \in Nat
      BY <2>3, DistanceType
    <2> QED
      BY <2>1, <2>2, <2>4
  <1>2. CASE Len(p) = 0
    <2>1. PICK f : f = [i \in 1 .. Len(p) - 1 |-> Distance(p[i], p[i + 1])]
      OBVIOUS
    <2>2. 1 .. Len(p) - 1 = {}
      BY <1>2
    <2>3. RouteTotalDistance(p) = SumFunctionOnSet(f, {})
      BY <2>1, <2>2 DEF RouteTotalDistance, SumFunction
    <2> QED
      BY <2>3, SumEmpty
  <1> QED
    BY <1>1, <1>2

\* One more point makes a route no shorter.
LEMMA RouteGrows ==
    ASSUME NEW p, NEW x, p \in Seq(Int), x \in Int
    PROVE  RouteTotalDistance(p) <= RouteTotalDistance(Append(p, x))
  <1>1. PICK q : q = Append(p, x)
    OBVIOUS
  <1>2. q \in Seq(Int) /\ Len(q) = Len(p) + 1
    BY <1>1
  <1>3. RouteTotalDistance(q) \in Nat
    BY <1>2, TotalIsNat
  <1>4. CASE Len(p) = 0
    <2>1. Len(q) - 1 = 0 /\ Len(p) - 1 < 1
      BY <1>2, <1>4
    <2>2. 1 .. Len(p) - 1 = {}
      BY <1>4
    <2>3. PICK f : f = [i \in 1 .. Len(p) - 1 |-> Distance(p[i], p[i + 1])]
      OBVIOUS
    <2>4. RouteTotalDistance(p) = SumFunctionOnSet(f, {})
      BY <2>2, <2>3 DEF RouteTotalDistance, SumFunction
    <2>5. RouteTotalDistance(p) = 0
      BY <2>4, SumEmpty
    <2> QED
      BY <1>1, <1>3, <2>5
  <1>5. CASE Len(p) > 0
    <2>1. SubSeq(q, 1, Len(p)) = p
      BY <1>1
    <2>2. RouteTotalDistance(p) = Before(q, Len(p))
      BY <2>1 DEF Before
    <2>3. Len(p) \in 1 .. Len(q) - 1
      BY <1>2, <1>5
    <2>4. RouteTotalDistance(q) = Before(q, Len(p) + 1)
      BY <1>2, <1>5, BeforeLast
    <2>5. PICK a, b, k : a = q[Len(p)] /\ b = q[Len(p) + 1] /\ k = Len(p)
      OBVIOUS
    <2>6. a \in Int /\ b \in Int
      BY <1>2, <2>3, <2>5, LegFacts
    <2>7. Before(q, k + 1) = Before(q, k) + Distance(a, b) /\ Before(q, k) \in Int
      BY <1>2, <2>3, <2>5, LegFacts
    <2>8. Distance(a, b) \in Nat
      BY <2>6, DistanceType
    <2> QED
      <3>1. PICK u, v, d : u = Before(q, k) /\ v = Before(q, k + 1) /\ d = Distance(a, b)
        OBVIOUS
      <3>2. u \in Int /\ d \in Nat /\ v = u + d
        BY <2>7, <2>8, <3>1
      <3>3. u <= v
        BY <3>2
      <3> QED
        BY <1>1, <2>2, <2>4, <2>5, <3>1, <3>3
  <1> QED
    BY <1>2, <1>4, <1>5

\* A longer part of the points has a longer route.
LEMMA LocatedGrows ==
    ASSUME NEW r \in Seq(Places), NEW a \in 0 .. Len(r), NEW b \in a .. Len(r)
    PROVE  /\ RouteTotalDistance(Located(SubSeq(r, 1, a))) <= RouteTotalDistance(Located(SubSeq(r, 1, b)))
           /\ Located(SubSeq(r, 1, a)) \in Seq(Int)
           /\ b = a + 1 /\ r[b] = Missing => Located(SubSeq(r, 1, b)) = Located(SubSeq(r, 1, a))
  <1>1. PICK upTo \in [0 .. Len(r) -> Seq(Int)] :
            /\ Locates(upTo, r)
            /\ \A n \in 0 .. Len(r) : Located(SubSeq(r, 1, n)) = upTo[n]
    BY LocatedOfPrefix
  <1> DEFINE length(n) == RouteTotalDistance(upTo[n])
             M == {m \in Nat : a + m <= Len(r) => length(a) <= length(a + m)}
  <1>2. \A n \in 0 .. Len(r) : length(n) \in Nat /\ upTo[n] \in Seq(Int)
    BY <1>1, TotalIsNat
  <1>3. 0 \in M
    <2>1. a + 0 = a /\ length(a) <= length(a)
      BY <1>2
    <2> QED
      BY <2>1
  <1>4. ASSUME NEW m \in M PROVE m + 1 \in M
    <2> SUFFICES ASSUME a + (m + 1) <= Len(r) PROVE length(a) <= length(a + (m + 1))
      OBVIOUS
    <2>1. PICK n : n = a + m
      OBVIOUS
    <2>2. n \in 0 .. Len(r) /\ n + 1 \in 1 .. Len(r) /\ n + 1 = a + (m + 1) /\ (n + 1) - 1 = n
      BY <2>1
    <2>3. length(a) <= length(n)
      BY <2>1, <2>2
    <2>4. upTo[n + 1] = IF r[n + 1] = Missing THEN upTo[n] ELSE Append(upTo[n], r[n + 1])
      BY <1>1, <2>2 DEF Locates
    <2>5. r[n + 1] \in Places
      BY <2>2
    <2>6. length(n) <= length(n + 1)
      <3>1. CASE r[n + 1] = Missing
        BY <1>2, <2>2, <2>4, <3>1
      <3>2. CASE r[n + 1] # Missing
        <4>1. r[n + 1] \in Int
          BY <2>5, <3>2 DEF Places
        <4> QED
          BY <1>2, <2>2, <2>4, <3>2, <4>1, RouteGrows
      <3> QED
        BY <3>1, <3>2
    <2>7. length(a) \in Nat /\ length(n) \in Nat /\ length(n + 1) \in Nat
      BY <1>2, <2>2
    <2>8. length(a) <= length(n + 1)
      <3> HIDE DEF length
      <3> QED
        BY <2>3, <2>6, <2>7
    <2> QED
      BY <2>2, <2>8
  <1>5. M = Nat
    <2> HIDE DEF M
    <2>1. M \in SUBSET Nat
      BY DEF M
    <2> QED
      BY <1>3, <1>4, <2>1, EveryNumber
  <1>6. length(a) <= length(b)
    <2>1. b - a \in Nat /\ a + (b - a) = b
      OBVIOUS
    <2>2. b - a \in M
      <3> HIDE DEF M
      <3> QED
        BY <1>5, <2>1
    <2> QED
      BY <2>1, <2>2
  <1>7. ASSUME b = a + 1, r[b] = Missing PROVE upTo[b] = upTo[a]
    <2>1. b \in 1 .. Len(r) /\ b - 1 = a
      BY <1>7
    <2> QED
      BY <1>1, <1>7, <2>1 DEF Locates
  <1> QED
    BY <1>1, <1>2, <1>6, <1>7

-----------------------------------------------------------------------------
(* Arrival times                                                           *)

LEMMA ProgressRemaining ==
    ASSUME NEW points \in Seq(Int), NEW position \in Places
    PROVE  /\ RouteProgress(points, position).covered \in Int
           /\ RouteProgress(points, position).remaining
              = RouteTotalDistance(points) - RouteProgress(points, position).covered
  <1>0. RouteTotalDistance(points) \in Nat
    BY TotalIsNat
  <1>1. CASE position = Missing \/ Len(points) < 2 \/ RouteTotalDistance(points) = 0
    BY <1>0, <1>1 DEF RouteProgress
  <1>2. CASE ~ (position = Missing \/ Len(points) < 2 \/ RouteTotalDistance(points) = 0)
    <2>1. position \in Int /\ position # Missing /\ Len(points) > 1 /\ RouteTotalDistance(points) # 0
      BY <1>2 DEF Places
    <2>2. PICK best \in 1 .. Len(points) - 1, near \in Int :
              RouteProgress(points, position)
                  = [total |-> RouteTotalDistance(points),
                     covered |-> Before(points, best) + Distance(points[best], near),
                     remaining |-> RouteTotalDistance(points)
                                   - (Before(points, best) + Distance(points[best], near)),
                     deviation |-> Distance(position, near)]
      BY <2>1, ProgressIs
    <2>3. Before(points, best) \in Int /\ points[best] \in Int
      BY LegFacts
    <2>4. Distance(points[best], near) \in Int
      BY <2>3, DistanceType DEF Distance
    <2> QED
      BY <2>2, <2>3, <2>4
  <1> QED
    BY <1>1, <1>2

\* The further, the later.
LEMMA EtaMonotone ==
    ASSUME NEW r \in Int, NEW s \in Int, r <= s, NEW speed \in Places, NEW now \in Int
    PROVE  ComputeEta(r, speed, now) \in Int /\ ComputeEta(r, speed, now) <= ComputeEta(s, speed, now)
  <1>1. PICK v : v = EffectiveSpeedKmh(speed)
    OBVIOUS
  <1>2. v \in Nat \ {0}
    BY <1>1 DEF EffectiveSpeedKmh, Places
  <1>3. PICK d, a, b : d = 2 * 10 * v /\ a = 2 * 36 * r + 10 * v /\ b = 2 * 36 * s + 10 * v
    OBVIOUS
  <1>4. d \in Nat \ {0} /\ a \in Int /\ b \in Int /\ a <= b
    BY <1>2, <1>3
  <1>5. a \div d \in Int /\ a \div d <= b \div d
    BY <1>4
  <1>6. ComputeEta(r, speed, now) = now + (a \div d) /\ ComputeEta(s, speed, now) = now + (b \div d)
    BY <1>1, <1>3 DEF ComputeEta
  <1>7. b \div d \in Int
    BY <1>4
  <1> QED
    BY <1>5, <1>6, <1>7

\* The route to a stop is a part of the whole route.
LEMMA RouteOfTrip ==
    ASSUME NEW trip, IsJourney(trip)
    PROVE  \E r \in Seq(Places) :
               /\ Len(r) = Len(trip.stops) + 2
               /\ r[Len(r)] = trip.destination
               /\ RoutePoints(trip) = Located(SubSeq(r, 1, Len(r)))
               /\ \A i \in 1 .. Len(trip.stops) : Prefix(trip, i) = Located(SubSeq(r, 1, i + 1))
  <1>1. PICK o, d, s : o = trip.origin /\ d = trip.destination /\ s = trip.stops
    OBVIOUS
  <1>2. o \in Places /\ d \in Places /\ s \in Seq(Places)
    BY <1>1 DEF IsJourney
  <1>3. PICK r : r = <<o>> \o s \o <<d>>
    OBVIOUS
  <1>4. r \in Seq(Places) /\ Len(r) = Len(s) + 2 /\ r[Len(r)] = d
    BY <1>2, <1>3
  <1>5. SubSeq(r, 1, Len(r)) = r
    BY <1>4
  <1>6. ASSUME NEW i \in 1 .. Len(s) PROVE <<o>> \o SubSeq(s, 1, i) = SubSeq(r, 1, i + 1)
    <2>1. PICK x : x = SubSeq(s, 1, i)
      OBVIOUS
    <2>2. x \in Seq(Places) /\ Len(x) = i /\ \A k \in 1 .. i : x[k] = s[k]
      BY <1>2, <2>1
    <2>3. PICK y : y = <<o>> \o x
      OBVIOUS
    <2>4. y \in Seq(Places) /\ Len(y) = i + 1 /\ y[1] = o /\ \A k \in 1 .. i : y[k + 1] = s[k]
      BY <1>2, <2>2, <2>3
    <2>5. PICK z : z = SubSeq(r, 1, i + 1)
      OBVIOUS
    <2>6. r[1] = o /\ \A k \in 1 .. Len(s) : r[k + 1] = s[k]
      BY <1>2, <1>3
    <2>7. z \in Seq(Places) /\ Len(z) = i + 1 /\ \A k \in 1 .. i + 1 : z[k] = r[k]
      BY <1>2, <1>4, <2>5
    <2>8. \A k \in 1 .. i + 1 : y[k] = z[k]
      <3> SUFFICES ASSUME NEW k \in 1 .. i + 1 PROVE y[k] = z[k]
        OBVIOUS
      <3>1. CASE k = 1
        BY <2>4, <2>6, <2>7, <3>1
      <3>2. CASE k # 1
        <4>1. k - 1 \in 1 .. i /\ k - 1 \in 1 .. Len(s) /\ (k - 1) + 1 = k
          BY <1>2, <3>2
        <4> QED
          BY <2>4, <2>6, <2>7, <4>1
      <3> QED
        BY <3>1, <3>2
    <2>9. y = z
      BY <2>4, <2>7, <2>8
    <2> QED
      BY <2>1, <2>3, <2>5, <2>9
  <1>7. RoutePoints(trip) = Located(r)
    BY <1>1, <1>3 DEF RoutePoints
  <1>8. \A i \in 1 .. Len(s) : Prefix(trip, i) = Located(SubSeq(r, 1, i + 1))
    BY <1>1, <1>6 DEF Prefix
  <1> QED
    BY <1>1, <1>4, <1>5, <1>7, <1>8

\* What the arrival times of a trip rest on.
LEMMA StopsOnTheWay ==
    ASSUME NEW trip, IsJourney(trip)
    PROVE  /\ RoutePoints(trip) \in Seq(Int)
           /\ RouteProgress(RoutePoints(trip), trip.position).remaining \in Int
           /\ \A i \in DOMAIN trip.stops :
                  /\ RemainingTo(trip, i) \in Int
                  /\ RemainingTo(trip, i) <= RouteProgress(RoutePoints(trip), trip.position).remaining
                  /\ i = Len(trip.stops) /\ trip.destination = Missing =>
                         RemainingTo(trip, i) = RouteProgress(RoutePoints(trip), trip.position).remaining
                  /\ \A j \in DOMAIN trip.stops : i <= j => RemainingTo(trip, i) <= RemainingTo(trip, j)
  <1>1. PICK r \in Seq(Places) :
            /\ Len(r) = Len(trip.stops) + 2
            /\ r[Len(r)] = trip.destination
            /\ RoutePoints(trip) = Located(SubSeq(r, 1, Len(r)))
            /\ \A i \in 1 .. Len(trip.stops) : Prefix(trip, i) = Located(SubSeq(r, 1, i + 1))
    BY RouteOfTrip
  <1>2. DOMAIN trip.stops = 1 .. Len(trip.stops) /\ Len(trip.stops) \in Nat /\ trip.position \in Places
    BY DEF IsJourney
  <1> DEFINE points == RoutePoints(trip)
             covered == RouteProgress(points, trip.position).covered
             remaining == RouteProgress(points, trip.position).remaining
             part(n) == RouteTotalDistance(Located(SubSeq(r, 1, n)))
  <1>3. points \in Seq(Int)
    <2>1. Len(r) \in 0 .. Len(r) /\ Len(r) \in Len(r) .. Len(r)
      BY <1>1, <1>2
    <2> QED
      BY <1>1, <2>1, LocatedGrows
  <1>4. covered \in Int /\ remaining = part(Len(r)) - covered
    BY <1>1, <1>2, <1>3, ProgressRemaining
  <1>5. \A n \in 0 .. Len(r) : part(n) \in Nat
    <2> SUFFICES ASSUME NEW n \in 0 .. Len(r) PROVE part(n) \in Nat
      OBVIOUS
    <2>1. n \in n .. Len(r)
      OBVIOUS
    <2>2. Located(SubSeq(r, 1, n)) \in Seq(Int)
      BY <2>1, LocatedGrows
    <2> QED
      BY <2>2, TotalIsNat
  <1>6. \A i \in 1 .. Len(trip.stops) : RemainingTo(trip, i) = part(i + 1) - covered
    BY <1>1 DEF RemainingTo
  <1>7. Len(r) \in 0 .. Len(r) /\ part(Len(r)) \in Nat
    BY <1>1, <1>2, <1>5
  <1>8. ASSUME NEW i \in 1 .. Len(trip.stops)
        PROVE  /\ i + 1 \in 0 .. Len(r) /\ part(i + 1) \in Nat
               /\ part(i + 1) <= part(Len(r))
               /\ i = Len(trip.stops) /\ trip.destination = Missing => part(i + 1) = part(Len(r))
               /\ \A j \in 1 .. Len(trip.stops) : i <= j => part(i + 1) <= part(j + 1)
    <2>1. i + 1 \in 0 .. Len(r) /\ Len(r) \in i + 1 .. Len(r)
      BY <1>1, <1>2
    <2>2. ASSUME NEW j \in 1 .. Len(trip.stops), i <= j PROVE part(i + 1) <= part(j + 1)
      <3>1. j + 1 \in i + 1 .. Len(r)
        BY <1>1, <1>2, <2>2
      <3> QED
        BY <2>1, <3>1, LocatedGrows
    <2>3. ASSUME i = Len(trip.stops), trip.destination = Missing PROVE part(i + 1) = part(Len(r))
      <3>1. Len(r) = (i + 1) + 1 /\ r[Len(r)] = Missing
        BY <1>1, <1>2, <2>3
      <3>2. Located(SubSeq(r, 1, Len(r))) = Located(SubSeq(r, 1, i + 1))
        BY <2>1, <3>1, LocatedGrows
      <3> QED
        BY <3>2
    <2>4. part(i + 1) <= part(Len(r))
      BY <2>1, LocatedGrows
    <2> QED
      BY <1>5, <2>1, <2>2, <2>3, <2>4
  <1> HIDE DEF part, covered, remaining, points
  <1>9. ASSUME NEW i \in 1 .. Len(trip.stops)
        PROVE  /\ RemainingTo(trip, i) \in Int
               /\ RemainingTo(trip, i) <= remaining
               /\ i = Len(trip.stops) /\ trip.destination = Missing => RemainingTo(trip, i) = remaining
               /\ \A j \in 1 .. Len(trip.stops) : i <= j => RemainingTo(trip, i) <= RemainingTo(trip, j)
    BY <1>4, <1>6, <1>7, <1>8
  <1>10. remaining \in Int
    BY <1>4, <1>7
  <1> QED
    BY <1>2, <1>3, <1>9, <1>10 DEF remaining, points

\* The shift of an arrival by the threshold is an alert, a shift by half a minute less is none.
LEMMA ShiftAlerts ==
    ASSUME NEW eta \in Int, NEW late \in 0 .. 1
    PROVE  EtaShifted(eta - ShiftMinutes * 60 + late * 31, eta) <=> late = 0
  <1>1. PICK s : s = ShiftMinutes /\ s \in Nat \ {0}
    BY ProgressAssumption
  <1>2. CASE late = 0
    <2>1. 2 * (eta - (eta - s * 60 + late * 31)) + 60 = 120 * s + 60
      BY <1>1, <1>2
    <2>2. (120 * s + 60) \div 120 = s
      BY <1>1
    <2>3. Distance(0, s) >= s
      BY <1>1 DEF Distance
    <2> QED
      BY <1>1, <1>2, <2>1, <2>2, <2>3 DEF EtaShifted
  <1>3. CASE late = 1
    <2>1. 2 * (eta - (eta - s * 60 + late * 31)) + 60 = 120 * s - 2
      BY <1>1, <1>3
    <2>2. (120 * s - 2) \div 120 = s - 1
      BY <1>1
    <2>3. ~ (Distance(0, s - 1) >= s)
      BY <1>1 DEF Distance
    <2> QED
      BY <1>1, <1>3, <2>1, <2>2, <2>3 DEF EtaShifted
  <1> QED
    BY <1>2, <1>3

\* The arrival times of any one trip agree: stops are reached in their order and not
\* after the trip, which is delayed if a stop is; a drift by the threshold is an alert.
THEOREM JourneyIsOrdered ==
    ASSUME NEW trip, IsJourney(trip), Grid \in Nat \ {0}
    PROVE  JourneyOrdered(trip)
  <1> DEFINE stops == StopEtas(trip, 0)
             eta == TripEta(trip, 0)
             remaining == RouteProgress(RoutePoints(trip), trip.position).remaining
  <1>1. /\ RoutePoints(trip) \in Seq(Int) /\ remaining \in Int
        /\ trip.position \in Places /\ trip.speed \in Places /\ trip.end \in Int
    BY StopsOnTheWay DEF IsJourney
  <1>2. CoversNearest(RoutePoints(trip), trip.position)
    BY <1>1, NearestIsCovered DEF Places
  <1>3. eta # Missing => eta \in Int
    <2>1. PICK k, v : k = remaining /\ v = trip.speed
      OBVIOUS
    <2>2. k \in Int /\ k <= k /\ v \in Places /\ 0 \in Int
      BY <1>1, <2>1
    <2>3. ComputeEta(k, v, 0) \in Int
      BY <2>2, EtaMonotone
    <2> QED
      BY <2>1, <2>3 DEF TripEta
  <1>4. ASSUME NEW i \in DOMAIN stops
        PROVE  /\ i \in DOMAIN trip.stops
               /\ trip.status \in InTransit /\ trip.position # Missing
               /\ RemainingTo(trip, i) > 0
               /\ stops[i] = ComputeEta(RemainingTo(trip, i), trip.speed, 0)
    BY DEF StopEtas
  <1>5. ASSUME NEW i \in DOMAIN stops, NEW j \in DOMAIN stops, i <= j
        PROVE  stops[i] <= stops[j]
    <2>1. RemainingTo(trip, i) \in Int /\ RemainingTo(trip, j) \in Int
          /\ RemainingTo(trip, i) <= RemainingTo(trip, j)
      BY <1>4, <1>5, StopsOnTheWay
    <2> QED
      BY <1>1, <1>4, <2>1, EtaMonotone
  <1>6. ASSUME NEW i \in DOMAIN stops
        PROVE  /\ eta # Missing /\ eta \in Int /\ stops[i] \in Int
               /\ stops[i] <= eta
               /\ i = Len(trip.stops) /\ trip.destination = Missing => stops[i] = eta
               /\ stops[i] > trip.end + DelayMargin => Delay(trip, 0)
    <2>1. RemainingTo(trip, i) \in Int /\ RemainingTo(trip, i) <= remaining
      BY <1>4, StopsOnTheWay
    <2>2. remaining > 0
      BY <1>1, <1>4, <2>1
    <2>3. eta = ComputeEta(remaining, trip.speed, 0)
      BY <1>4, <2>2 DEF TripEta
    <2>4. stops[i] \in Int /\ stops[i] <= eta /\ eta \in Int
      <3>1. PICK k, l, v : k = RemainingTo(trip, i) /\ l = remaining /\ v = trip.speed
        OBVIOUS
      <3>2. k \in Int /\ l \in Int /\ k <= l /\ l <= l /\ v \in Places /\ 0 \in Int
        BY <1>1, <2>1, <3>1
      <3>3. ComputeEta(k, v, 0) \in Int /\ ComputeEta(k, v, 0) <= ComputeEta(l, v, 0)
            /\ ComputeEta(l, v, 0) \in Int
        BY <3>2, EtaMonotone
      <3> QED
        BY <1>4, <2>3, <3>1, <3>3
    <2>5. eta # Missing
      BY <2>4, ProgressAssumption
    <2>6. i = Len(trip.stops) /\ trip.destination = Missing => stops[i] = eta
      BY <1>4, <2>3, StopsOnTheWay
    <2>7. ASSUME stops[i] > trip.end + DelayMargin PROVE Delay(trip, 0)
      <3>1. trip.status \notin {"COMPLETED", "CANCELLED"}
        BY <1>4 DEF InTransit
      <3>2. eta - trip.end > DelayMargin
        BY <1>1, <2>4, <2>7, ProgressAssumption
      <3> QED
        BY <2>5, <3>1, <3>2 DEF Delay, DetectDelay
    <2> QED
      BY <2>4, <2>5, <2>6, <2>7
  <1>7. ASSUME eta # Missing, NEW late \in 0 .. 1
        PROVE  "ETA_SHIFT" \in EtaAlerts(trip, eta - ShiftMinutes * 60 + late * 31, 0) <=> late = 0
    <2>1. PICK baseline : baseline = eta - ShiftMinutes * 60 + late * 31
      OBVIOUS
    <2>2. baseline \in Int /\ eta \in Int
      BY <1>3, <1>7, <2>1, ProgressAssumption
    <2>3. EtaShifted(baseline, eta) <=> late = 0
      BY <2>1, <2>2, ShiftAlerts
    <2>4. baseline # Missing
      BY <2>2, ProgressAssumption
    <2>5. "ETA_SHIFT" \in EtaAlerts(trip, baseline, 0) <=> EtaShifted(baseline, eta)
      BY <1>7, <2>4 DEF EtaAlerts
    <2> QED
      BY <2>1, <2>3, <2>5
  <1> QED
    BY <1>2, <1>5, <1>6, <1>7 DEF JourneyOrdered

-----------------------------------------------------------------------------
(* The order of the stops                                                  *)

\* Stops to be visited from an origin, all of them points with distances between them.
OnMap(P, far, origin, stops) ==
    /\ far \in [P \X P -> Nat]
    /\ origin \in P
    /\ stops \in Seq(P)

\* Where the n-th stop is looked for from.
Here(origin, stops, v, n) == IF n = 1 THEN origin ELSE stops[v[n - 1]]

NearestIs(i, far, origin, stops, v, n) ==
    LET to(k) == far[Here(origin, stops, v, n), stops[k]]
    IN /\ i \in Unvisited(stops, v)
       /\ \A j \in Unvisited(stops, v) : to(i) < to(j) \/ (to(i) = to(j) /\ i <= j)

NearestStop(far, origin, stops, v, n) ==
    LET here == Here(origin, stops, v, n)
        to(i) == far[here, stops[i]]
    IN CHOOSE i \in Unvisited(stops, v) :
           \A j \in Unvisited(stops, v) : to(i) < to(j) \/ (to(i) = to(j) /\ i <= j)

\* m different stops.
Visits(v, stops, m) ==
    /\ v \in Seq(DOMAIN stops) /\ Len(v) = m
    /\ \A i, j \in 1 .. m : v[i] = v[j] => i = j

\* Fewer visits than stops leave a stop.
LEMMA StopIsLeft ==
    ASSUME NEW P, NEW stops \in Seq(P), NEW v, NEW m \in Nat, Visits(v, stops, m), m < Len(stops)
    PROVE  Unvisited(stops, v) # {}
  <1>1. PICK T : T = ToSet(v)
    OBVIOUS
  <1>2. v \in [1 .. m -> T] /\ \A t \in T : \E i \in 1 .. m : v[i] = t
    <2>1. v \in [1 .. m -> DOMAIN stops]
      BY DEF Visits
    <2>2. T = {v[i] : i \in 1 .. m}
      BY <1>1, <2>1 DEF ToSet
    <2> QED
      BY <2>1, <2>2
  <1>3. v \in Surjection(1 .. m, T)
    BY <1>2 DEF Surjection
  <1>4. ExistsSurjection(1 .. m, T)
    BY <1>3 DEF ExistsSurjection
  <1>5. Cardinality(T) <= m
    BY <1>4, FS_SurjCardinalityBound
  <1>6. Cardinality(1 .. Len(stops)) = Len(stops)
    <2>1. PICK k : k = Len(stops)
      OBVIOUS
    <2>2. 1 \in Int /\ k \in Int /\ k >= 1
      BY <2>1
    <2>3. Cardinality(1 .. k) = k - 1 + 1
      BY <2>2, FS_Interval
    <2> QED
      BY <2>1, <2>2, <2>3
  <1>7. SUFFICES ASSUME DOMAIN stops \subseteq T PROVE FALSE
    BY <1>1 DEF Unvisited
  <1>8. T \subseteq 1 .. Len(stops)
    <2>1. v \in [1 .. m -> DOMAIN stops] /\ DOMAIN stops = 1 .. Len(stops)
      BY DEF Visits
    <2> QED
      BY <1>2, <2>1
  <1>9. T = 1 .. Len(stops)
    <2>1. DOMAIN stops = 1 .. Len(stops)
      OBVIOUS
    <2> QED
      BY <1>7, <1>8, <2>1
  <1> QED
    BY <1>5, <1>6, <1>9

\* A stop that is left is one more; the nearest is well defined.
LEMMA NearestIsLeft ==
    ASSUME NEW P, NEW far, NEW origin, NEW stops, OnMap(P, far, origin, stops),
           NEW n \in 1 .. Len(stops), NEW v,
           Visits(v, stops, n - 1)
    PROVE  /\ Here(origin, stops, v, n) \in P
           /\ NearestIs(NearestStop(far, origin, stops, v, n), far, origin, stops, v, n)
           /\ Visits(Append(v, NearestStop(far, origin, stops, v, n)), stops, n)
  <1>0. far \in [P \X P -> Nat] /\ origin \in P /\ stops \in Seq(P)
    BY DEF OnMap
  <1> USE <1>0
  <1>1. Here(origin, stops, v, n) \in P
    <2>1. CASE n = 1
      BY <2>1 DEF Here
    <2>2. CASE n # 1
      <3>1. n - 1 \in 1 .. Len(v) /\ v \in Seq(DOMAIN stops)
        BY <2>2 DEF Visits
      <3>2. v[n - 1] \in DOMAIN stops
        BY <3>1
      <3>3. stops[v[n - 1]] \in P
        BY <3>2
      <3> QED
        BY <2>2, <3>3 DEF Here
    <2> QED
      BY <2>1, <2>2
  <1>2. PICK S, here : S = Unvisited(stops, v) /\ here = Here(origin, stops, v, n)
    OBVIOUS
  <1>3. S # {}
    <2>1. n - 1 \in Nat /\ n - 1 < Len(stops)
      OBVIOUS
    <2> QED
      BY <1>2, <2>1, StopIsLeft
  <1>4. PICK to : to = [i \in S |-> far[here, stops[i]]]
    OBVIOUS
  <1>5. S \in SUBSET (1 .. Len(stops))
    BY <1>2 DEF Unvisited
  <1>6. to \in [S -> Nat]
    <2>1. \A i \in S : stops[i] \in P
      BY <1>5
    <2>2. \A i \in S : far[here, stops[i]] \in Nat
      BY <1>1, <1>2, <2>1
    <2> QED
      BY <1>4, <2>2
  <1>7. \E i \in S : \A j \in S : to[i] < to[j] \/ (to[i] = to[j] /\ i <= j)
    <2>1. S \in SUBSET Nat
      BY <1>5
    <2> QED
      BY <1>3, <1>6, <2>1, FirstLeast
  <1>8. PICK c : c = NearestStop(far, origin, stops, v, n)
    OBVIOUS
  <1>9. c \in S /\ \A j \in S : to[c] < to[j] \/ (to[c] = to[j] /\ c <= j)
    <2>1. c = CHOOSE i \in S : \A j \in S :
                  far[here, stops[i]] < far[here, stops[j]]
                  \/ (far[here, stops[i]] = far[here, stops[j]] /\ i <= j)
      BY <1>2, <1>8 DEF NearestStop
    <2>2. \E i \in S : \A j \in S :
                  far[here, stops[i]] < far[here, stops[j]]
                  \/ (far[here, stops[i]] = far[here, stops[j]] /\ i <= j)
      BY <1>4, <1>7
    <2>3. c \in S /\ \A j \in S :
                  far[here, stops[c]] < far[here, stops[j]]
                  \/ (far[here, stops[c]] = far[here, stops[j]] /\ c <= j)
      BY <2>1, <2>2
    <2> QED
      BY <1>4, <2>3
  <1>10. NearestIs(c, far, origin, stops, v, n)
    BY <1>2, <1>4, <1>9 DEF NearestIs
  <1>11. Visits(Append(v, c), stops, n)
    <2>1. c \in DOMAIN stops /\ c \notin ToSet(v)
      BY <1>2, <1>9 DEF Unvisited
    <2>2. \A i \in 1 .. n - 1 : v[i] # c
      <3>1. DOMAIN v = 1 .. n - 1
        BY DEF Visits
      <3> QED
        BY <2>1, <3>1 DEF ToSet
    <2>3. PICK w : w = Append(v, c)
      OBVIOUS
    <2>4. w \in Seq(DOMAIN stops) /\ Len(w) = n /\ w[n] = c /\ \A i \in 1 .. n - 1 : w[i] = v[i]
      BY <2>1, <2>3 DEF Visits
    <2>5. ASSUME NEW i \in 1 .. n, NEW j \in 1 .. n, w[i] = w[j] PROVE i = j
      <3>1. i # n => i \in 1 .. n - 1
        OBVIOUS
      <3>2. j # n => j \in 1 .. n - 1
        OBVIOUS
      <3>3. \A k, l \in 1 .. n - 1 : v[k] = v[l] => k = l
        BY DEF Visits
      <3>4. CASE i = n
        BY <2>2, <2>4, <2>5, <3>2, <3>4
      <3>5. CASE j = n
        BY <2>2, <2>4, <2>5, <3>1, <3>5
      <3>6. CASE i # n /\ j # n
        <4>1. w[i] = v[i] /\ w[j] = v[j] /\ i \in 1 .. n - 1 /\ j \in 1 .. n - 1
          BY <2>4, <3>1, <3>2, <3>6
        <4> QED
          BY <2>5, <3>3, <4>1
      <3> QED
        BY <3>4, <3>5, <3>6
    <2> QED
      BY <2>3, <2>4, <2>5 DEF Visits
  <1> QED
    BY <1>1, <1>8, <1>10, <1>11

\* What the order grows by.
Orders(g, far, origin, stops) ==
    /\ g[0] = <<>>
    /\ \A n \in 1 .. Len(stops) :
           g[n] = Append(g[n - 1], NearestStop(far, origin, stops, g[n - 1], n))

\* Every visit is to a stop that was left.
LEMMA OrdersVisit ==
    ASSUME NEW P, NEW far, NEW origin, NEW stops, OnMap(P, far, origin, stops),
           NEW g, g[0] = <<>>,
           \A n \in 1 .. Len(stops) :
               Visits(g[n - 1], stops, n - 1)
               => g[n] = Append(g[n - 1], NearestStop(far, origin, stops, g[n - 1], n))
    PROVE  Orders(g, far, origin, stops) /\ \A n \in 0 .. Len(stops) : Visits(g[n], stops, n)
  <1>0. far \in [P \X P -> Nat] /\ origin \in P /\ stops \in Seq(P)
    BY DEF OnMap
  <1> USE <1>0
  <1> DEFINE M == {m \in Nat : m <= Len(stops) => Visits(g[m], stops, m)}
  <1>1. 0 \in M
    <2>1. <<>> \in Seq(DOMAIN stops) /\ Len(<<>>) = 0
      OBVIOUS
    <2>2. Visits(g[0], stops, 0)
      BY <2>1 DEF Visits
    <2> QED
      BY <2>2
  <1>2. ASSUME NEW m \in M PROVE m + 1 \in M
    <2> SUFFICES ASSUME m + 1 <= Len(stops) PROVE Visits(g[m + 1], stops, m + 1)
      OBVIOUS
    <2>1. PICK n : n = m + 1
      OBVIOUS
    <2>2. n \in 1 .. Len(stops) /\ n - 1 = m /\ Visits(g[n - 1], stops, n - 1)
      BY <2>1
    <2>3. g[n] = Append(g[n - 1], NearestStop(far, origin, stops, g[n - 1], n))
      BY <2>2
    <2> QED
      BY <2>1, <2>2, <2>3, NearestIsLeft
  <1>3. M = Nat
    <2> HIDE DEF M
    <2>1. M \in SUBSET Nat
      BY DEF M
    <2> QED
      BY <1>1, <1>2, <2>1, EveryNumber
  <1>4. \A n \in 0 .. Len(stops) : Visits(g[n], stops, n)
    BY <1>3
  <1>5. \A n \in 1 .. Len(stops) : Visits(g[n - 1], stops, n - 1)
    BY <1>4
  <1> QED
    BY <1>4, <1>5 DEF Orders

\* The order that StopOrder builds exists, and visits the stops.
LEMMA StopOrderIs ==
    ASSUME NEW P, NEW far, NEW origin, NEW stops, OnMap(P, far, origin, stops)
    PROVE  \E g : /\ Orders(g, far, origin, stops)
                  /\ \A n \in 0 .. Len(stops) : Visits(g[n], stops, n)
                  /\ StopOrder(far, origin, stops) = g[Len(stops)]
  <1>0. far \in [P \X P -> Nat] /\ origin \in P /\ stops \in Seq(P)
    BY DEF OnMap
  <1> USE <1>0
  <1> DEFINE Body(g) == [n \in 0 .. Len(stops) |->
                            IF n = 0 THEN <<>>
                            ELSE Append(g[n - 1], NearestStop(far, origin, stops, g[n - 1], n))]
  <1>1. StopOrder(far, origin, stops) = (CHOOSE g : g = Body(g))[Len(stops)]
    BY DEF StopOrder, NearestStop, Here
  <1>2. \E f : f = Body(f)
    <2>1. PICK V : V = Seq(DOMAIN stops)
      OBVIOUS
    <2>2. PICK step : step = [x \in (1 .. Len(stops)) \X V |->
                                  IF NearestStop(far, origin, stops, x[2], x[1]) \in DOMAIN stops
                                  THEN Append(x[2], NearestStop(far, origin, stops, x[2], x[1]))
                                  ELSE x[2]]
      OBVIOUS
    <2>3. ASSUME NEW k \in 1 .. Len(stops), NEW v \in V
          PROVE  /\ step[<<k, v>>] = IF NearestStop(far, origin, stops, v, k) \in DOMAIN stops
                                     THEN Append(v, NearestStop(far, origin, stops, v, k)) ELSE v
                 /\ step[<<k, v>>] \in V
      <3>1. PICK c : c = NearestStop(far, origin, stops, v, k)
        OBVIOUS
      <3>2. step[<<k, v>>] = IF c \in DOMAIN stops THEN Append(v, c) ELSE v
        BY <2>2, <3>1
      <3>3. PICK D : D = DOMAIN stops
        OBVIOUS
      <3>4. v \in Seq(D) /\ V = Seq(D)
        BY <2>1, <3>3
      <3>5. c \in D => Append(v, c) \in Seq(D)
        BY <3>4
      <3> QED
        BY <3>1, <3>2, <3>3, <3>4, <3>5
    <2>4. Len(stops) \in Nat /\ <<>> \in V
      BY <2>1
    <2>5. Steps(step, Len(stops), V)
      BY <2>3 DEF Steps
    <2>6. PICK f \in [0 .. Len(stops) -> V] : Follows(f, Len(stops), <<>>, step)
      BY <2>4, <2>5, RecursionExists
    <2>7. f[0] = <<>>
      BY <2>6 DEF Follows
    <2>8. ASSUME NEW n \in 1 .. Len(stops), Visits(f[n - 1], stops, n - 1)
          PROVE  f[n] = Append(f[n - 1], NearestStop(far, origin, stops, f[n - 1], n))
      <3>1. NearestIs(NearestStop(far, origin, stops, f[n - 1], n), far, origin, stops, f[n - 1], n)
        BY <2>8, NearestIsLeft
      <3>2. NearestStop(far, origin, stops, f[n - 1], n) \in DOMAIN stops
        BY <3>1 DEF NearestIs, Unvisited
      <3>3. f[n] = step[<<n, f[n - 1]>>]
        BY <2>6 DEF Follows
      <3>4. f[n - 1] \in V
        <4>1. n - 1 \in 0 .. Len(stops)
          OBVIOUS
        <4> QED
          BY <2>6, <4>1
      <3> QED
        BY <2>3, <3>2, <3>3, <3>4
    <2>9. Orders(f, far, origin, stops)
      BY <2>7, <2>8, OrdersVisit
    <2>10. ASSUME NEW n \in 0 .. Len(stops)
           PROVE  f[n] = IF n = 0 THEN <<>>
                         ELSE Append(f[n - 1], NearestStop(far, origin, stops, f[n - 1], n))
      <3>1. n # 0 => n \in 1 .. Len(stops)
        OBVIOUS
      <3> QED
        BY <2>9, <3>1 DEF Orders
    <2>11. f = Body(f)
      BY <2>6, <2>10
    <2> QED
      BY <2>11
  <1>3. PICK g : g = Body(g) /\ StopOrder(far, origin, stops) = g[Len(stops)]
    <2> HIDE DEF Body
    <2> QED
      BY <1>1, <1>2
  <1>4. g[0] = <<>>
    <2>1. 0 \in 0 .. Len(stops)
      OBVIOUS
    <2> QED
      BY <1>3, <2>1
  <1>5. \A n \in 1 .. Len(stops) : g[n] = Append(g[n - 1], NearestStop(far, origin, stops, g[n - 1], n))
    <2> SUFFICES ASSUME NEW n \in 1 .. Len(stops)
                 PROVE  g[n] = Append(g[n - 1], NearestStop(far, origin, stops, g[n - 1], n))
      OBVIOUS
    <2>1. n \in 0 .. Len(stops) /\ n # 0
      OBVIOUS
    <2> QED
      BY <1>3, <2>1
  <1> QED
    BY <1>3, <1>4, <1>5, OrdersVisit

\* An order that visits as many stops as there are visits all.
LEMMA VisitsAll ==
    ASSUME NEW P, NEW stops \in Seq(P), NEW v, Visits(v, stops, Len(stops))
    PROVE  v \in [1 .. Len(stops) -> 1 .. Len(stops)] /\ ToSet(v) = DOMAIN stops
  <1>1. PICK D, L : D = 1 .. Len(stops) /\ D = DOMAIN stops /\ L = Len(stops) /\ L \in Nat
    OBVIOUS
  <1>2. v \in [D -> D] /\ \A i, j \in D : v[i] = v[j] => i = j
    BY <1>1 DEF Visits
  <1>3. v \in Injection(D, D)
    BY <1>2 DEF Injection, IsInjective
  <1>4. IsFiniteSet(D)
    <2>1. 1 \in Int /\ L \in Int /\ D = 1 .. L
      BY <1>1
    <2> QED
      BY <2>1, FS_Interval
  <1>5. v \in Surjection(D, D)
    BY <1>3, <1>4, FS_Injection
  <1>6. \A d \in D : \E i \in D : v[i] = d
    BY <1>5 DEF Surjection
  <1> QED
    BY <1>1, <1>2, <1>6 DEF ToSet

\* What was visited stays visited, in its place.
LEMMA OrderPrefix ==
    ASSUME NEW P, NEW far, NEW origin, NEW stops, OnMap(P, far, origin, stops),
           NEW g, Orders(g, far, origin, stops),
           \A n \in 0 .. Len(stops) : Visits(g[n], stops, n)
    PROVE  \A m \in 0 .. Len(stops) : \A k \in 1 .. m : g[m][k] = g[k][k]
  <1>0. far \in [P \X P -> Nat] /\ origin \in P /\ stops \in Seq(P)
    BY DEF OnMap
  <1> USE <1>0
  <1> DEFINE M == {m \in Nat : m <= Len(stops) => \A k \in 1 .. m : g[m][k] = g[k][k]}
  <1>1. 0 \in M
    OBVIOUS
  <1>2. ASSUME NEW m \in M PROVE m + 1 \in M
    <2> SUFFICES ASSUME m + 1 <= Len(stops), NEW k \in 1 .. m + 1 PROVE g[m + 1][k] = g[k][k]
      OBVIOUS
    <2>1. PICK n : n = m + 1
      OBVIOUS
    <2>2. n \in 1 .. Len(stops) /\ n - 1 = m /\ m \in 0 .. Len(stops)
      BY <2>1
    <2>3. PICK v, c : v = g[m] /\ c = NearestStop(far, origin, stops, g[m], n)
      OBVIOUS
    <2>4. g[n] = Append(v, c)
      BY <2>2, <2>3 DEF Orders
    <2>5. v \in Seq(DOMAIN stops) /\ Len(v) = m
      BY <2>2, <2>3 DEF Visits
    <2>6. CASE k = n
      BY <2>1, <2>6
    <2>7. CASE k # n
      <3>1. k \in 1 .. m
        BY <2>1, <2>7
      <3>2. Append(v, c)[k] = v[k]
        BY <2>5, <3>1
      <3>3. g[m][k] = g[k][k]
        BY <2>2, <3>1
      <3> QED
        BY <2>1, <2>3, <2>4, <3>2, <3>3
    <2> QED
      BY <2>6, <2>7
  <1>3. M = Nat
    <2> HIDE DEF M
    <2>1. M \in SUBSET Nat
      BY DEF M
    <2> QED
      BY <1>1, <1>2, <2>1, EveryNumber
  <1> QED
    BY <1>3

\* Among the stops in the order they were chosen in, the n-th is chosen again.
LEMMA NearestStays ==
    ASSUME NEW P, NEW far, NEW origin, NEW stops, OnMap(P, far, origin, stops),
           NEW q, OnMap(P, far, origin, q), NEW v, NEW n \in 1 .. Len(stops), NEW u, NEW x, NEW c,
           Visits(v, stops, Len(stops)), Visits(u, stops, n - 1), Visits(x, q, n - 1),
           Len(q) = Len(stops), \A k \in 1 .. Len(stops) : q[k] = stops[v[k]],
           \A k \in 1 .. n - 1 : u[k] = v[k] /\ x[k] = k,
           Here(origin, stops, u, n) \in P,
           NearestIs(v[n], far, origin, stops, u, n), NearestIs(c, far, origin, q, x, n)
    PROVE  c = n
  <1>0. far \in [P \X P -> Nat] /\ origin \in P /\ stops \in Seq(P) /\ q \in Seq(P)
    BY DEF OnMap
  <1> USE <1>0
  <1>1. PICK L : L = Len(stops) /\ L \in Nat
    OBVIOUS
  <1>2. /\ DOMAIN stops = 1 .. L /\ DOMAIN q = 1 .. L /\ n \in 1 .. L
        /\ DOMAIN u = 1 .. n - 1 /\ DOMAIN x = 1 .. n - 1
    BY <1>1 DEF Visits
  <1>3. v \in [1 .. L -> 1 .. L] /\ \A i, j \in 1 .. L : v[i] = v[j] => i = j
    BY <1>1, <1>2 DEF Visits
  <1>4. PICK here \in P : here = Here(origin, stops, u, n)
    OBVIOUS
  <1>5. Here(origin, q, x, n) = here
    <2>1. CASE n = 1
      BY <1>4, <2>1 DEF Here
    <2>2. CASE n # 1
      <3>1. PICK m : m = n - 1
        OBVIOUS
      <3>2. m \in 1 .. n - 1 /\ m \in 1 .. Len(stops)
        BY <2>2, <3>1
      <3>3. u[m] = v[m] /\ x[m] = m /\ q[m] = stops[v[m]]
        BY <3>2
      <3> QED
        BY <1>4, <2>2, <3>1, <3>3 DEF Here
    <2> QED
      BY <2>1, <2>2
  <1>6. c \in 1 .. L /\ c \notin 1 .. n - 1
    <2>1. c \in DOMAIN q /\ c \notin ToSet(x)
      BY DEF NearestIs, Unvisited
    <2>2. \A k \in 1 .. n - 1 : k \in ToSet(x)
      BY <1>2 DEF ToSet
    <2> QED
      BY <1>2, <2>1, <2>2
  <1>7. n \in Unvisited(q, x)
    <2>1. n \notin ToSet(x)
      <3>1. \A k \in 1 .. n - 1 : x[k] # n
        OBVIOUS
      <3> QED
        BY <1>2, <3>1 DEF ToSet
    <2> QED
      BY <1>2, <2>1 DEF Unvisited
  <1>8. v[c] \in Unvisited(stops, u)
    <2>1. v[c] \in 1 .. L
      BY <1>3, <1>6
    <2>2. ASSUME NEW k \in 1 .. n - 1 PROVE u[k] # v[c]
      <3>1. k \in 1 .. L /\ k # c
        BY <1>1, <1>2, <1>6
      <3>2. v[k] # v[c]
        BY <1>3, <1>6, <3>1
      <3> QED
        BY <3>2
    <2>3. v[c] \notin ToSet(u)
      BY <1>2, <2>2 DEF ToSet
    <2> QED
      BY <1>2, <2>1, <2>3 DEF Unvisited
  <1>9. q[c] = stops[v[c]] /\ q[n] = stops[v[n]] /\ q[c] \in P /\ q[n] \in P
    BY <1>1, <1>2, <1>6
  <1>10. PICK a \in Nat, b \in Nat : a = far[here, q[n]] /\ b = far[here, q[c]]
    BY <1>9
  <1>11. b < a \/ (b = a /\ c <= n)
    BY <1>5, <1>7, <1>10 DEF NearestIs
  <1>12. a < b \/ a = b
    BY <1>4, <1>8, <1>9, <1>10 DEF NearestIs
  <1> QED
    BY <1>1, <1>2, <1>6, <1>11, <1>12

LEMMA AppendedAt ==
    ASSUME NEW D, NEW u \in Seq(D), NEW d, NEW n \in Nat, Len(u) = n - 1
    PROVE  Append(u, d)[n] = d /\ \A k \in 1 .. n - 1 : Append(u, d)[k] = u[k]
  OBVIOUS

\* The stops in the order they were visited in are visited in that order again.
LEMMA OrderStays ==
    ASSUME NEW P, NEW far, NEW origin, NEW stops, OnMap(P, far, origin, stops),
           NEW q, OnMap(P, far, origin, q), NEW g, NEW h,
           Orders(g, far, origin, stops), \A n \in 0 .. Len(stops) : Visits(g[n], stops, n),
           Orders(h, far, origin, q), \A n \in 0 .. Len(q) : Visits(h[n], q, n),
           Len(q) = Len(stops), \A k \in 1 .. Len(stops) : q[k] = stops[g[Len(stops)][k]]
    PROVE  \A n \in 0 .. Len(stops) : \A k \in 1 .. n : h[n][k] = k
  <1>0. far \in [P \X P -> Nat] /\ origin \in P /\ stops \in Seq(P) /\ q \in Seq(P)
    BY DEF OnMap
  <1> USE <1>0
  <1> DEFINE M == {m \in Nat : m <= Len(stops) => \A k \in 1 .. m : h[m][k] = k}
  <1>1. 0 \in M
    OBVIOUS
  <1>2. ASSUME NEW m \in M PROVE m + 1 \in M
    <2> SUFFICES ASSUME m + 1 <= Len(stops), NEW k \in 1 .. m + 1 PROVE h[m + 1][k] = k
      OBVIOUS
    <2>1. PICK n : n = m + 1
      OBVIOUS
    <2>2. n \in 1 .. Len(stops) /\ n - 1 = m /\ m \in 0 .. Len(stops) /\ n \in 1 .. Len(q)
      BY <2>1
    <2>3. PICK u, x, v : u = g[m] /\ x = h[m] /\ v = g[Len(stops)]
      OBVIOUS
    <2>4. Visits(u, stops, n - 1) /\ Visits(x, q, n - 1) /\ Visits(v, stops, Len(stops))
      BY <2>2, <2>3
    <2>5. PICK c : c = NearestStop(far, origin, q, x, n)
      OBVIOUS
    <2>6. h[n] = Append(x, c)
      BY <2>2, <2>3, <2>5 DEF Orders
    <2>7. NearestIs(c, far, origin, q, x, n)
      BY <2>2, <2>4, <2>5, NearestIsLeft
    <2>8. /\ \A i \in 1 .. Len(stops) : v[i] = g[i][i] /\ q[i] = stops[v[i]]
          /\ \A i \in 1 .. n - 1 : u[i] = v[i] /\ x[i] = i
      <3>1. \A j \in 0 .. Len(stops) : \A i \in 1 .. j : g[j][i] = g[i][i]
        BY OrderPrefix
      <3>2. Len(stops) \in 0 .. Len(stops)
        BY <2>2
      <3>3. \A i \in 1 .. Len(stops) : v[i] = g[i][i] /\ q[i] = stops[v[i]]
        BY <2>3, <3>1, <3>2
      <3>4. ASSUME NEW i \in 1 .. n - 1 PROVE u[i] = v[i]
        <4>1. i \in 1 .. m /\ i \in 1 .. Len(stops)
          BY <2>2
        <4> QED
          BY <2>2, <2>3, <3>1, <3>3, <4>1
      <3>5. ASSUME NEW i \in 1 .. n - 1 PROVE x[i] = i
        BY <2>2, <2>3
      <3> QED
        BY <3>3, <3>4, <3>5
    <2>9. NearestIs(v[n], far, origin, stops, u, n) /\ Here(origin, stops, u, n) \in P
      <3>1. PICK d : d = NearestStop(far, origin, stops, u, n)
        OBVIOUS
      <3>2. NearestIs(d, far, origin, stops, u, n) /\ Here(origin, stops, u, n) \in P
        BY <2>2, <2>4, <3>1, NearestIsLeft
      <3>3. g[n] = Append(u, d)
        BY <2>2, <2>3, <3>1 DEF Orders
      <3>4. u \in Seq(DOMAIN stops) /\ Len(u) = n - 1
        BY <2>4 DEF Visits
      <3>5. n \in Nat
        BY <2>2
      <3>6. g[n][n] = d
        BY <3>3, <3>4, <3>5, AppendedAt
      <3>7. v[n] = g[n][n]
        BY <2>2, <2>8
      <3> QED
        BY <3>2, <3>6, <3>7
    <2>10. c = n
      <3>1. \A i \in 1 .. Len(stops) : q[i] = stops[v[i]]
        BY <2>8
      <3> QED
        BY <2>2, <2>4, <2>7, <2>8, <2>9, <3>1, NearestStays
    <2>11. x \in Seq(DOMAIN q) /\ Len(x) = m
      BY <2>2, <2>4 DEF Visits
    <2>12. CASE k = n
      BY <2>1, <2>6, <2>10, <2>11, <2>12
    <2>13. CASE k # n
      <3>1. k \in 1 .. m /\ k \in 1 .. n - 1
        BY <2>1, <2>13
      <3>2. Append(x, c)[k] = x[k]
        BY <2>11, <3>1
      <3> QED
        BY <2>1, <2>6, <2>8, <3>1, <3>2
    <2> QED
      BY <2>12, <2>13
  <1>3. M = Nat
    <2> HIDE DEF M
    <2>1. M \in SUBSET Nat
      BY DEF M
    <2> QED
      BY <1>1, <1>2, <2>1, EveryNumber
  <1> QED
    BY <1>3

\* An order that leaves every stop where it is makes no new list of stops.
LEMMA NothingMoves ==
    ASSUME NEW P, NEW q \in Seq(P), NEW w, w = [n \in 1 .. Len(q) |-> n]
    PROVE  Reordered(q, w) = q
  BY DEF Reordered

\* computeStopOptimization, on any map: the order visits each stop once, and applied to
\* the stops it has put in order, computeStopOptimization moves none of them, so the
\* length it reports is the one reported before, twice.
THEOREM OrderIsServed ==
    ASSUME NEW l, IsStopList(l)
    PROVE  LET optimize(stops) == StopOptimization(l.far, l.origin, l.destination, stops)
               first == optimize(l.stops)
               second == optimize(Reordered(l.stops, first.order))
           IN /\ ToSet(first.order) = DOMAIN l.stops
              /\ Len(first.order) = Len(l.stops)
              /\ second.order = [n \in DOMAIN l.stops |-> n]
              /\ second.original = first.optimized
              /\ second.optimized = first.optimized
  <1>1. PICK P, far, origin, destination, stops :
            /\ P = l.points /\ far = l.far
            /\ origin = l.origin /\ destination = l.destination /\ stops = l.stops
    OBVIOUS
  <1>2. OnMap(P, far, origin, stops) /\ stops \in Seq(P)
    BY <1>1 DEF IsStopList, OnMap
  <1>3. PICK g : /\ Orders(g, far, origin, stops)
                 /\ \A n \in 0 .. Len(stops) : Visits(g[n], stops, n)
                 /\ StopOrder(far, origin, stops) = g[Len(stops)]
    BY <1>2, StopOrderIs
  <1>4. PICK L, v : L = Len(stops) /\ L \in Nat /\ v = g[L] /\ v = g[Len(stops)]
    BY <1>2
  <1>5. Visits(v, stops, Len(stops)) /\ L \in 0 .. Len(stops)
    BY <1>3, <1>4
  <1>6. v \in [1 .. Len(stops) -> 1 .. Len(stops)] /\ ToSet(v) = DOMAIN stops
    BY <1>2, <1>5, VisitsAll
  <1>7. Len(v) = Len(stops)
    BY <1>5 DEF Visits
  <1>8. PICK q : q = Reordered(stops, v)
    OBVIOUS
  <1>9. /\ OnMap(P, far, origin, q) /\ q \in Seq(P)
        /\ Len(q) = Len(stops) /\ \A n \in 1 .. Len(stops) : q[n] = stops[v[n]]
    <2>1. DOMAIN v = 1 .. L
      BY <1>4, <1>6
    <2>2. \A n \in 1 .. L : stops[v[n]] \in P
      BY <1>2, <1>4, <1>6
    <2>3. q = [n \in 1 .. L |-> stops[v[n]]]
      BY <1>8, <2>1 DEF Reordered
    <2>4. q \in [1 .. L -> P]
      BY <2>2, <2>3
    <2>5. q \in Seq(P) /\ Len(q) = L
      BY <1>4, <2>4
    <2>6. OnMap(P, far, origin, q)
      BY <1>2, <2>5 DEF OnMap
    <2> QED
      BY <1>4, <2>3, <2>5, <2>6
  <1>10. PICK h : /\ Orders(h, far, origin, q)
                  /\ \A n \in 0 .. Len(q) : Visits(h[n], q, n)
                  /\ StopOrder(far, origin, q) = h[Len(q)]
    BY <1>2, <1>9, StopOrderIs
  <1>11. PICK w : w = h[Len(q)]
    OBVIOUS
  <1>12. w = [n \in 1 .. Len(q) |-> n]
    <2>1. \A n \in 0 .. Len(stops) : \A k \in 1 .. n : h[n][k] = k
      BY <1>2, <1>3, <1>4, <1>9, <1>10, OrderStays
    <2>2. Len(q) \in 0 .. Len(stops) /\ Len(q) \in 0 .. Len(q)
      BY <1>2, <1>9
    <2>3. \A k \in 1 .. Len(q) : w[k] = k
      BY <1>11, <2>1, <2>2
    <2>4. w \in Seq(DOMAIN q) /\ Len(w) = Len(q)
      BY <1>10, <1>11, <2>2 DEF Visits
    <2> QED
      BY <2>3, <2>4
  <1>13. Reordered(q, w) = q
    BY <1>9, <1>12, NothingMoves
  <1>14. PICK length :
             /\ StopOptimization(far, origin, destination, stops).order = v
             /\ StopOptimization(far, origin, destination, stops).optimized = length
             /\ StopOptimization(far, origin, destination, q).order = w
             /\ StopOptimization(far, origin, destination, q).original = length
             /\ StopOptimization(far, origin, destination, q).optimized = length
    BY <1>3, <1>4, <1>8, <1>10, <1>11, <1>13 DEF StopOptimization
  <1>15. w = [n \in DOMAIN stops |-> n]
    BY <1>2, <1>9, <1>12
  <1> QED
    BY <1>1, <1>6, <1>7, <1>8, <1>14, <1>15

-----------------------------------------------------------------------------
(* Counting by key                                                         *)

\* A finite table has finitely many keys.
LEMMA KeysFinite ==
    ASSUME NEW key, IsFiniteSet(DOMAIN key)
    PROVE  IsFiniteSet({key[i] : i \in DOMAIN key})
  <1>1. PICK S, K : S = DOMAIN key /\ K = {key[i] : i \in DOMAIN key}
    OBVIOUS
  <1>2. PICK f : f = [i \in S |-> key[i]]
    OBVIOUS
  <1>3. f \in Surjection(S, K)
    BY <1>1, <1>2 DEF Surjection
  <1> QED
    BY <1>1, <1>3, FS_Surjection

CountsByKey(g, K, X, key) == \A k \in K : g[k] = Cardinality({x \in X : key[x] = k})

\* Counting key by key counts everything that has one of the keys.
LEMMA CountByKey ==
    ASSUME NEW S, IsFiniteSet(S), NEW key, NEW K, IsFiniteSet(K), NEW X \in SUBSET S,
           \A x \in X : key[x] \in K,
           NEW g, CountsByKey(g, K, X, key)
    PROVE  SumFunctionOnSet(g, K) = Cardinality(X)
  <1>1. IsFiniteSet(X)
    BY FS_Subset
  <1>2. PICK ones : ones = [x \in X |-> 1]
    OBVIOUS
  <1>3. ASSUME NEW k \in K PROVE g[k] = SumFunctionOnSet(ones, {x \in X : key[x] = k})
    <2>1. PICK Y : Y = {x \in X : key[x] = k}
      OBVIOUS
    <2>2. IsFiniteSet(Y)
      BY <1>1, <2>1, FS_Subset
    <2>3. SumFunctionOnSet(ones, Y) = Cardinality(Y)
      BY <1>2, <2>1, <2>2, SumOfOnes
    <2> QED
      BY <2>1, <2>3 DEF CountsByKey
  <1>4. SumFunctionOnSet(ones, X) = Cardinality(X)
    BY <1>1, <1>2, SumOfOnes
  <1>5. \A x \in X : ones[x] \in Int
    BY <1>2
  <1>6. SumFunctionOnSet(g, K) = SumFunctionOnSet(ones, X)
    <2>1. SumsByKey(g, K, ones, X, key)
      BY <1>3 DEF SumsByKey
    <2> QED
      BY <1>1, <1>5, <2>1, SumByKey
  <1> QED
    BY <1>4, <1>6

LEMMA TotalIs ==
    ASSUME NEW rows, NEW column
    PROVE  Total(rows, column) = SumFunctionOnSet([k \in DOMAIN rows |-> rows[k][column]], DOMAIN rows)
  BY DEF Total, SumFunction

\* A part of a finite set, and the rest of it.
LEMMA PartAndRest ==
    ASSUME NEW S, IsFiniteSet(S), NEW A \in SUBSET S
    PROVE  /\ IsFiniteSet(A) /\ IsFiniteSet(S \ A)
           /\ Cardinality(A) \in Nat /\ Cardinality(S) \in Nat
           /\ Cardinality(A) <= Cardinality(S)
           /\ Cardinality(A) + Cardinality(S \ A) = Cardinality(S)
  <1>1. IsFiniteSet(A) /\ Cardinality(A) <= Cardinality(S)
    BY FS_Subset
  <1>2. PICK B : B = S \ A
    OBVIOUS
  <1>3. IsFiniteSet(B)
    BY <1>2, FS_Subset
  <1>4. Cardinality(A) \in Nat /\ Cardinality(B) \in Nat /\ Cardinality(S) \in Nat
    BY <1>1, <1>3, FS_CardinalityType
  <1>5. A \cup B = S /\ A \cap B = {}
    BY <1>2
  <1>6. Cardinality(S) = Cardinality(A) + Cardinality(B) - Cardinality({})
    BY <1>1, <1>3, <1>5, FS_Union
  <1>7. Cardinality({}) = 0
    BY FS_EmptySet
  <1> QED
    BY <1>1, <1>2, <1>3, <1>4, <1>6, <1>7

\* Two disjoint parts of a finite set.
Parts(S, A, B, C) == A \subseteq S /\ B \subseteq S /\ A \cap B = {} /\ C = A \cup B

LEMMA TwoParts ==
    ASSUME NEW S, IsFiniteSet(S), NEW A, NEW B, NEW C, Parts(S, A, B, C)
    PROVE  /\ Cardinality(A) \in Nat /\ Cardinality(B) \in Nat /\ Cardinality(C) \in Nat
           /\ Cardinality(C) = Cardinality(A) + Cardinality(B)
           /\ Cardinality(C) <= Cardinality(S)
  <1>2. C \in SUBSET S /\ C \ A = B /\ A \in SUBSET C
    BY DEF Parts
  <1>3. IsFiniteSet(C) /\ Cardinality(C) <= Cardinality(S) /\ Cardinality(C) \in Nat
    BY <1>2, PartAndRest
  <1>4. IsFiniteSet(B) /\ Cardinality(A) \in Nat /\ Cardinality(A) + Cardinality(B) = Cardinality(C)
    BY <1>2, <1>3, PartAndRest
  <1>5. Cardinality(B) \in Nat
    BY <1>4, FS_CardinalityType
  <1> QED
    BY <1>3, <1>4, <1>5

LEMMA PctIsRate ==
    ASSUME NEW part, NEW whole, part \in Nat, whole \in Nat
    PROVE  /\ Pct(part, whole) \in Nat
           /\ part <= whole => Pct(part, whole) \in 0 .. 1000
  <1>1. Pct(part, whole) \in Nat
    <2>1. CASE whole = 0
      BY <2>1 DEF Pct
    <2>2. CASE whole # 0
      BY <2>2 DEF Pct, RoundDiv
    <2> QED
      BY <2>1, <2>2
  <1>2. ASSUME part <= whole PROVE Pct(part, whole) \in 0 .. 1000
    BY <1>2, ShareBounded
  <1> QED
    BY <1>1, <1>2

\* The trips of S with a status, and those that arrived late.
In(T, S, statuses) == {i \in S : T[i].status \in statuses}

Late(T, S) == {i \in S : T[i].status = "COMPLETED" /\ IsDelayed(T[i].end, Arrived(T[i]))}

\* What a row counts.
LEMMA TallyIs ==
    ASSUME NEW T, IsTable(T), NEW S \in SUBSET DOMAIN T
    PROVE  LET row == Tally(T, S)
           IN /\ row.trips = Cardinality(S) /\ row.trips \in Nat
              /\ row.completed = Cardinality(In(T, S, {"COMPLETED"})) /\ row.completed \in Nat
              /\ row.delayed = Cardinality(Late(T, S)) /\ row.delayed \in Nat
              /\ row.onTime \in Nat /\ row.onTime + row.delayed = row.completed
              /\ row.active \in Nat /\ row.cancelled \in Nat
              /\ row.completed + row.active + row.cancelled <= row.trips
              /\ Rates(row).completionRate \in 0 .. 1000
  <1>1. IsFiniteSet(S) /\ Cardinality(S) \in Nat
    BY FS_Subset, FS_CardinalityType DEF IsTable
  <1>2. PICK done, late : done = In(T, S, {"COMPLETED"}) /\ late = Late(T, S)
    OBVIOUS
  <1>3. PICK row : row = Tally(T, S)
    OBVIOUS
  <1>4. /\ row.trips = Cardinality(S)
        /\ row.completed = Cardinality(done)
        /\ row.delayed = Cardinality(late)
        /\ row.onTime = Cardinality(done \ late)
        /\ row.active = Cardinality(In(T, S, Active))
        /\ row.cancelled = Cardinality(In(T, S, {"CANCELLED"}))
    <2>1. done = {i \in S : T[i].status = "COMPLETED"}
      BY <1>2 DEF In
    <2>2. late = {i \in done : IsDelayed(T[i].end, Arrived(T[i]))}
      BY <1>2, <2>1 DEF Late
    <2> QED
      BY <1>3, <2>1, <2>2 DEF Tally, Count, In
  <1>5. IsFiniteSet(done) /\ late \in SUBSET done
    BY <1>1, <1>2, FS_Subset DEF In, Late
  <1>6. /\ Cardinality(late) \in Nat /\ Cardinality(done) \in Nat /\ IsFiniteSet(done \ late)
        /\ Cardinality(late) + Cardinality(done \ late) = Cardinality(done)
    BY <1>5, PartAndRest
  <1>7. Cardinality(done \ late) \in Nat
    BY <1>6, FS_CardinalityType
  <1>8. PICK active, cancelled : active = In(T, S, Active) /\ cancelled = In(T, S, {"CANCELLED"})
    OBVIOUS
  <1>9. /\ done \in SUBSET S /\ active \in SUBSET S /\ cancelled \in SUBSET S
        /\ done \cap active = {} /\ (done \cup active) \cap cancelled = {}
    BY <1>2, <1>8 DEF In, Active
  <1>10. PICK both, all : both = done \cup active /\ all = both \cup cancelled
    OBVIOUS
  <1>11. /\ Cardinality(active) \in Nat
         /\ Cardinality(both) = Cardinality(done) + Cardinality(active)
    <2>1. Parts(S, done, active, both)
      BY <1>9, <1>10 DEF Parts
    <2> QED
      BY <1>1, <2>1, TwoParts
  <1>12. /\ Cardinality(cancelled) \in Nat
         /\ Cardinality(all) = Cardinality(both) + Cardinality(cancelled)
         /\ Cardinality(all) <= Cardinality(S)
    <2>1. Parts(S, both, cancelled, all)
      BY <1>9, <1>10 DEF Parts
    <2> QED
      BY <1>1, <2>1, TwoParts
  <1>13. row.completed + row.active + row.cancelled <= row.trips
    BY <1>1, <1>4, <1>6, <1>8, <1>11, <1>12
  <1>14. Rates(row).completionRate \in 0 .. 1000
    <2>1. PICK some, every : some = row.completed /\ every = row.trips
      OBVIOUS
    <2>2. some \in Nat /\ every \in Nat /\ some <= every
      BY <2>1, <1>1, <1>4, <1>6, <1>8, <1>11, <1>12, <1>13
    <2>3. Pct(some, every) \in 0 .. 1000
      BY <2>2, PctIsRate
    <2> QED
      BY <2>1, <2>3 DEF Rates
  <1> QED
    BY <1>1, <1>2, <1>3, <1>4, <1>6, <1>7, <1>8, <1>11, <1>12, <1>13, <1>14

-----------------------------------------------------------------------------
(* The rows of the reports                                                 *)

\* A report by key counts the trips that have a key, each in one row.
LEMMA GroupedTrips ==
    ASSUME NEW T, IsTable(T), NEW key, DOMAIN key \subseteq DOMAIN T
    PROVE  LET rows == GroupBy(T, key)
               keyed == {i \in DOMAIN key : key[i] # Null}
           IN /\ DOMAIN rows = {key[i] : i \in DOMAIN key} \ {Null}
              /\ Total(rows, "trips") = Cardinality(keyed)
              /\ Total(rows, "delayed") = Cardinality(Late(T, keyed))
              /\ Counted(rows)
  <1>1. PICK S, keyed, rows : /\ S = DOMAIN key /\ rows = GroupBy(T, key)
                              /\ keyed = {i \in S : key[i] # Null}
    OBVIOUS
  <1>2. PICK all, K : all = {key[i] : i \in DOMAIN key} /\ K = all \ {Null}
    OBVIOUS
  <1>3. IsFiniteSet(S) /\ S \in SUBSET DOMAIN T
    BY <1>1, FS_Subset DEF IsTable
  <1>4. IsFiniteSet(K)
    <2>1. IsFiniteSet(all)
      BY <1>1, <1>2, <1>3, KeysFinite
    <2> QED
      BY <1>2, <2>1, FS_Subset
  <1>5. PICK group : group = [k \in K |-> {i \in S : key[i] = k}]
    OBVIOUS
  <1>6. DOMAIN rows = K /\ \A k \in K : rows[k] = Tally(T, group[k])
    BY <1>1, <1>2, <1>5 DEF GroupBy
  <1>7. \A k \in K : group[k] \in SUBSET DOMAIN T
    BY <1>3, <1>5
  <1>8. PICK counted, completed, delayed, onTime :
            /\ counted = [k \in K |-> rows[k]["trips"]]
            /\ completed = [k \in K |-> rows[k]["completed"]]
            /\ delayed = [k \in K |-> rows[k]["delayed"]]
            /\ onTime = [k \in K |-> rows[k]["onTime"]]
    OBVIOUS
  <1>9. ASSUME NEW k \in K
        PROVE  /\ counted[k] = Cardinality(group[k])
               /\ delayed[k] = Cardinality(Late(T, group[k])) /\ delayed[k] \in Nat
               /\ onTime[k] \in Nat /\ completed[k] = onTime[k] + delayed[k]
               /\ rows[k].completed + rows[k].active + rows[k].cancelled <= rows[k].trips
               /\ Rates(rows[k]).completionRate \in 0 .. 1000
    <2>1. PICK row : row = Tally(T, group[k])
      OBVIOUS
    <2>2. /\ row.trips = Cardinality(group[k])
          /\ row.delayed = Cardinality(Late(T, group[k])) /\ row.delayed \in Nat
          /\ row.completed \in Nat /\ row.onTime \in Nat /\ row.onTime + row.delayed = row.completed
          /\ row.completed + row.active + row.cancelled <= row.trips
          /\ Rates(row).completionRate \in 0 .. 1000
      BY <1>7, <2>1, TallyIs
    <2>3. rows[k] = row
      BY <1>6, <2>1
    <2>4. /\ counted[k] = row.trips /\ completed[k] = row.completed
          /\ delayed[k] = row.delayed /\ onTime[k] = row.onTime
      BY <1>8, <2>3
    <2> QED
      BY <2>2, <2>3, <2>4
  <1>10. /\ Total(rows, "trips") = SumFunctionOnSet(counted, K)
         /\ Total(rows, "completed") = SumFunctionOnSet(completed, K)
         /\ Total(rows, "delayed") = SumFunctionOnSet(delayed, K)
         /\ Total(rows, "onTime") = SumFunctionOnSet(onTime, K)
    BY <1>6, <1>8, TotalIs
  <1>11. keyed \in SUBSET S /\ \A i \in keyed : key[i] \in K
    BY <1>1, <1>2
  <1>12. SumFunctionOnSet(counted, K) = Cardinality(keyed)
    <2>1. CountsByKey(counted, K, keyed, key)
      <3> SUFFICES ASSUME NEW k \in K PROVE counted[k] = Cardinality({i \in keyed : key[i] = k})
        BY DEF CountsByKey
      <3>1. group[k] = {i \in keyed : key[i] = k}
        BY <1>1, <1>2, <1>5
      <3>2. counted[k] = Cardinality(group[k])
        BY <1>9
      <3> QED
        BY <3>1, <3>2
    <2> QED
      BY <1>3, <1>4, <1>11, <2>1, CountByKey
  <1>13. SumFunctionOnSet(delayed, K) = Cardinality(Late(T, keyed))
    <2>1. PICK X : X = Late(T, keyed)
      OBVIOUS
    <2>2. X \in SUBSET S /\ \A i \in X : key[i] \in K
      BY <1>11, <2>1 DEF Late
    <2>3. CountsByKey(delayed, K, X, key)
      <3> SUFFICES ASSUME NEW k \in K PROVE delayed[k] = Cardinality({i \in X : key[i] = k})
        BY DEF CountsByKey
      <3>1. Late(T, group[k]) = {i \in X : key[i] = k}
        BY <1>1, <1>2, <1>5, <2>1 DEF Late
      <3>2. delayed[k] = Cardinality(Late(T, group[k]))
        BY <1>9
      <3> QED
        BY <3>1, <3>2
    <2> QED
      BY <1>3, <1>4, <2>1, <2>2, <2>3, CountByKey
  <1>14. SumFunctionOnSet(completed, K) = SumFunctionOnSet(onTime, K) + SumFunctionOnSet(delayed, K)
    <2>1. \A k \in K : onTime[k] \in Int /\ delayed[k] \in Int /\ completed[k] = onTime[k] + delayed[k]
      BY <1>9
    <2> QED
      BY <1>4, <2>1, SumPlus
  <1>15. Counted(rows)
    BY <1>6, <1>9, <1>10, <1>14 DEF Counted
  <1> QED
    BY <1>1, <1>2, <1>6, <1>10, <1>12, <1>13, <1>15

LEMMA SumNat ==
    ASSUME NEW f, NEW S, IsFiniteSet(S), \A x \in S : f[x] \in Nat
    PROVE  SumFunctionOnSet(f, S) \in Nat
  <1> DEFINE P == {A \in SUBSET S : SumFunctionOnSet(f, A) \in Nat}
  <1>1. {} \in P
    BY SumEmpty
  <1>2. ASSUME NEW A \in SUBSET S, NEW x \in S \ A, A \in P PROVE A \cup {x} \in P
    <2>1. IsFiniteSet(A)
      BY FS_Subset
    <2>2. \A y \in A \cup {x} : f[y] \in Int
      OBVIOUS
    <2>3. SumFunctionOnSet(f, A \cup {x}) = f[x] + SumFunctionOnSet(f, A)
      BY <2>1, <2>2, SumInsert
    <2>4. f[x] \in Nat /\ SumFunctionOnSet(f, A) \in Nat
      BY <1>2
    <2>5. SumFunctionOnSet(f, A \cup {x}) \in Nat
      BY <2>3, <2>4
    <2> QED
      BY <2>5
  <1>3. S \in P
    <2> HIDE DEF P
    <2> QED
      BY <1>1, <1>2, EveryFiniteSet
  <1> QED
    BY <1>3

\* Of finitely many numbers one is the least.
LEMMA LeastOf ==
    ASSUME NEW S, IsFiniteSet(S), S # {}, NEW f, \A x \in S : f[x] \in Int
    PROVE  \E x \in S : \A y \in S : f[x] <= f[y]
  <1> DEFINE P == {A \in SUBSET S : A # {} => \E x \in A : \A y \in A : f[x] <= f[y]}
  <1>1. {} \in P
    OBVIOUS
  <1>2. ASSUME NEW A \in SUBSET S, NEW e \in S \ A, A \in P PROVE A \cup {e} \in P
    <2>1. CASE A = {}
      BY <2>1
    <2>2. CASE A # {}
      <3>1. PICK x \in A : \A y \in A : f[x] <= f[y]
        BY <1>2, <2>2
      <3>2. f[x] \in Int /\ f[e] \in Int /\ \A y \in A : f[y] \in Int
        OBVIOUS
      <3>3. CASE f[x] <= f[e]
        BY <3>1, <3>2, <3>3
      <3>4. CASE f[e] <= f[x]
        BY <3>1, <3>2, <3>4
      <3> QED
        BY <3>2, <3>3, <3>4
    <2> QED
      BY <2>1, <2>2
  <1>3. S \in P
    <2> HIDE DEF P
    <2> QED
      BY <1>1, <1>2, EveryFiniteSet
  <1> QED
    BY <1>3

\* A report covers no negative time.
LEMMA WindowIsNat ==
    ASSUME NEW T, IsTable(T), NEW S \in SUBSET DOMAIN T,
           NEW q, q.from \in {Null} \cup Int, q.to \in {Null} \cup Int
    PROVE  WindowMinutes(T, S, q) \in Nat
  <1>1. IsFiniteSet(S) /\ \A i \in S : T[i].start \in Int /\ T[i].end \in Int
    BY FS_Subset DEF IsTable
  <1>2. \A d \in Int : RangeStart(d) \in Int /\ RangeEnd(d) \in Int
    BY ReportsAssumption DEF RangeStart, RangeEnd
  <1>3. CASE S = {} /\ Null \in {q.from, q.to}
    BY <1>3 DEF WindowMinutes
  <1>4. CASE ~ (S = {} /\ Null \in {q.from, q.to})
    <2>1. PICK first : first = IF q.from # Null THEN RangeStart(q.from)
                               ELSE CHOOSE m \in {T[i].start : i \in S} : \A i \in S : m <= T[i].start
      OBVIOUS
    <2>2. PICK last : last = IF q.to # Null THEN RangeEnd(q.to)
                             ELSE CHOOSE m \in {T[i].end : i \in S} : \A i \in S : m >= T[i].end
      OBVIOUS
    <2>3. WindowMinutes(T, S, q) = IF last < first THEN 0 ELSE last - first
      BY <1>4, <2>1, <2>2 DEF WindowMinutes
    <2>4. first \in Int
      <3>1. CASE q.from # Null
        BY <1>2, <2>1, <3>1
      <3>2. CASE q.from = Null
        <4>1. PICK f : f = [i \in S |-> T[i].start]
          OBVIOUS
        <4>2. \E i \in S : \A j \in S : f[i] <= f[j]
          BY <1>1, <1>4, <3>2, <4>1, LeastOf
        <4>3. \E m \in {T[i].start : i \in S} : \A i \in S : m <= T[i].start
          BY <4>1, <4>2
        <4>4. first \in {T[i].start : i \in S}
          BY <2>1, <3>2, <4>3
        <4> QED
          BY <1>1, <4>4
      <3> QED
        BY <3>1, <3>2
    <2>5. last \in Int
      <3>1. CASE q.to # Null
        BY <1>2, <2>2, <3>1
      <3>2. CASE q.to = Null
        <4>1. PICK f : f = [i \in S |-> -T[i].end]
          OBVIOUS
        <4>2. \E i \in S : \A j \in S : f[i] <= f[j]
          BY <1>1, <1>4, <3>2, <4>1, LeastOf
        <4>3. PICK i \in S : \A j \in S : T[i].end >= T[j].end
          BY <1>1, <4>1, <4>2
        <4>4. \E m \in {T[k].end : k \in S} : \A j \in S : m >= T[j].end
          BY <4>3
        <4>5. last \in {T[k].end : k \in S}
          BY <2>2, <3>2, <4>4
        <4> QED
          BY <1>1, <4>5
      <3> QED
        BY <3>1, <3>2
    <2> QED
      BY <2>3, <2>4, <2>5
  <1> QED
    BY <1>3, <1>4

LEMMA EngagedIsNat ==
    ASSUME NEW T, IsTable(T), NEW i \in DOMAIN T
    PROVE  Engaged(T[i]) \in Nat
  <1>1. PICK t : t = T[i]
    OBVIOUS
  <1>2. /\ t.start \in Int /\ t.end \in Int
        /\ t.started \in {Null} \cup Int /\ t.completed \in {Null} \cup Int
    BY <1>1 DEF IsTable
  <1>3. CASE HasElapsed(t)
    BY <1>1, <1>2, <1>3 DEF HasElapsed, Engaged
  <1>4. CASE ~HasElapsed(t)
    BY <1>1, <1>2, <1>4 DEF Engaged
  <1> QED
    BY <1>3, <1>4

IsQuery(q) == q.from \in {Null} \cup Int /\ q.to \in {Null} \cup Int

IsUser(user) == user.role = "CLIENT" => user.id # Null

LEMMA SelectedFinite ==
    ASSUME NEW T, IsTable(T), NEW user, NEW q
    PROVE  Selected(T, user, q) \in SUBSET DOMAIN T /\ IsFiniteSet(Selected(T, user, q))
  BY FS_Subset DEF Selected, IsTable

\* Whoever has a key has a row, the others are left out.
LEMMA DriverRows ==
    ASSUME NEW T, IsTable(T), NEW user, NEW q
    PROVE  \E keyed \in SUBSET Selected(T, user, q) :
               /\ keyed = Selected(T, user, q) \ {i \in Selected(T, user, q) :
                              /\ T[i].driverId = Null
                              /\ T[i].driverName = Null \/ IdOf[T[i].driverName] = Null}
               /\ Total(DriverReport(T, user, q), "trips") = Cardinality(keyed)
               /\ Total(DriverReport(T, user, q), "delayed") = Cardinality(Late(T, keyed))
               /\ Counted(DriverReport(T, user, q))
               /\ DOMAIN DriverReport(T, user, q)
                  = {DriverKey(T[i].driverId, T[i].driverName) : i \in keyed}
  <1>1. PICK S : S = Selected(T, user, q)
    OBVIOUS
  <1>2. PICK A : A = {i \in S : T[i].driverId # Null \/ T[i].driverName # Null}
    OBVIOUS
  <1>3. PICK key : key = [i \in A |-> DriverKey(T[i].driverId, T[i].driverName)]
    OBVIOUS
  <1>4. DriverReport(T, user, q) = GroupBy(T, key)
    BY <1>1, <1>2, <1>3 DEF DriverReport
  <1>5. DOMAIN key = A /\ A \subseteq DOMAIN T
    BY <1>1, <1>2, <1>3, SelectedFinite
  <1>6. PICK keyed : keyed = {i \in A : key[i] # Null}
    OBVIOUS
  <1>7. keyed = S \ {i \in S : /\ T[i].driverId = Null
                               /\ T[i].driverName = Null \/ IdOf[T[i].driverName] = Null}
    BY <1>2, <1>3, <1>6 DEF DriverKey, DriverIdFromName
  <1>8. LET rows == GroupBy(T, key)
        IN /\ DOMAIN rows = {key[i] : i \in DOMAIN key} \ {Null}
           /\ Total(rows, "trips") = Cardinality(keyed)
           /\ Total(rows, "delayed") = Cardinality(Late(T, keyed))
           /\ Counted(rows)
    BY <1>5, <1>6, GroupedTrips
  <1>9. {key[i] : i \in DOMAIN key} \ {Null} = {DriverKey(T[i].driverId, T[i].driverName) : i \in keyed}
    BY <1>3, <1>5, <1>6
  <1> QED
    BY <1>1, <1>4, <1>7, <1>8, <1>9

Unseen(T, S) == {i \in S : T[i].vehicle = Null \/ T[i].vehicle \in Restricted}

\* Restricted vehicles and trips without one are left out; no vehicle is busier than always.
LEMMA VehicleRows ==
    ASSUME NEW T, IsTable(T), NEW user, NEW q, IsQuery(q)
    PROVE  LET S == Selected(T, user, q)
               report == VehicleReport(T, user, q)
           IN /\ Total(report.rows, "trips") + Cardinality(Unseen(T, S)) = Cardinality(S)
              /\ Counted(report.rows)
              /\ \A v \in DOMAIN report.utilization : report.utilization[v] \in 0 .. 1000
  <1>1. PICK S, unseen : /\ S = Selected(T, user, q)
                         /\ unseen = Unseen(T, S)
    OBVIOUS
  <1>2. S \in SUBSET DOMAIN T /\ IsFiniteSet(S)
    BY <1>1, SelectedFinite
  <1>3. PICK with, shown : /\ with = {i \in S : T[i].vehicle # Null}
                           /\ shown = {i \in with : T[i].vehicle \notin Restricted}
    OBVIOUS
  <1>4. PICK key, minutes : key = [i \in shown |-> T[i].vehicle] /\ minutes = WindowMinutes(T, with, q)
    OBVIOUS
  <1>5. shown = S \ unseen /\ unseen \in SUBSET S /\ shown \in SUBSET DOMAIN T /\ with \in SUBSET DOMAIN T
    BY <1>1, <1>2, <1>3 DEF Unseen
  <1>6. PICK report : report = VehicleReport(T, user, q)
    OBVIOUS
  <1>7. report.rows = GroupBy(T, key)
    BY <1>1, <1>3, <1>4, <1>6 DEF VehicleReport
  <1>8. DOMAIN key = shown /\ {i \in shown : key[i] # Null} = shown
    BY <1>3, <1>4
  <1>9. Total(report.rows, "trips") = Cardinality(shown) /\ Counted(report.rows)
    <2>1. LET rows == GroupBy(T, key)
              keyed == {i \in DOMAIN key : key[i] # Null}
          IN Total(rows, "trips") = Cardinality(keyed) /\ Counted(rows)
      BY <1>5, <1>8, GroupedTrips
    <2> QED
      BY <1>7, <1>8, <2>1
  <1>10. Cardinality(shown) + Cardinality(unseen) = Cardinality(S)
    <2>1. Cardinality(unseen) \in Nat /\ Cardinality(unseen) + Cardinality(S \ unseen) = Cardinality(S)
          /\ IsFiniteSet(S \ unseen)
      BY <1>2, <1>5, PartAndRest
    <2>2. Cardinality(shown) \in Nat
      BY <1>5, <2>1, FS_CardinalityType
    <2> QED
      BY <1>5, <2>1, <2>2
  <1>11. ASSUME NEW v \in DOMAIN report.utilization PROVE report.utilization[v] \in 0 .. 1000
    <2>1. PICK busy : busy = {i \in shown : T[i].vehicle = v}
      OBVIOUS
    <2>2. PICK engaged : engaged = [i \in busy |-> Engaged(T[i])]
      OBVIOUS
    <2>3. PICK share : share = Pct(SumFunctionOnSet(engaged, busy), minutes)
      OBVIOUS
    <2>4. report.utilization[v] = IF share > 1000 THEN 1000 ELSE share
      <3>1. SumFunction(engaged) = SumFunctionOnSet(engaged, busy)
        BY <2>2 DEF SumFunction
      <3>2. report.utilization = [u \in {T[i].vehicle : i \in shown} |->
                LET part == Pct(SumFunction([i \in {i \in shown : T[i].vehicle = u} |-> Engaged(T[i])]), minutes)
                IN IF part > 1000 THEN 1000 ELSE part]
        BY <1>1, <1>3, <1>4, <1>6 DEF VehicleReport
      <3> QED
        BY <1>11, <2>1, <2>2, <2>3, <3>1, <3>2
    <2>5. IsFiniteSet(busy) /\ busy \in SUBSET DOMAIN T
      <3>1. busy \in SUBSET S
        BY <1>3, <2>1
      <3> QED
        BY <1>2, <3>1, FS_Subset
    <2>6. \A i \in busy : engaged[i] \in Nat
      BY <2>2, <2>5, EngagedIsNat
    <2>7. SumFunctionOnSet(engaged, busy) \in Nat
      BY <2>5, <2>6, SumNat
    <2>8. minutes \in Nat
      BY <1>4, <1>5, WindowIsNat DEF IsQuery
    <2>9. share \in Nat
      BY <2>3, <2>7, <2>8, PctIsRate
    <2> QED
      BY <2>4, <2>9
  <1> QED
    BY <1>1, <1>6, <1>9, <1>10, <1>11

\* A client's customers are those of the trips it may see.
LEMMA CustomerRows ==
    ASSUME NEW T, IsTable(T), NEW user, IsUser(user), user.role = "CLIENT", NEW q
    PROVE  LET S == Selected(T, user, q)
               unnamed == {i \in S : T[i].customer = Null}
           IN Total(CustomerReport(T, user.id, q), "trips") + Cardinality(unnamed) = Cardinality(S)
  <1>1. PICK S, unnamed : S = Selected(T, user, q) /\ unnamed = {i \in S : T[i].customer = Null}
    OBVIOUS
  <1>2. S \in SUBSET DOMAIN T /\ IsFiniteSet(S)
    BY <1>1, SelectedFinite
  <1>3. S = {i \in OfClient(T, user.id) : InRange(q, T[i])}
    BY <1>1 DEF Selected, InScope, OfClient, IsUser
  <1>4. PICK key, keyed : key = [i \in S |-> T[i].customer] /\ keyed = {i \in S : key[i] # Null}
    OBVIOUS
  <1>5. CustomerReport(T, user.id, q) = GroupBy(T, key)
    BY <1>3, <1>4 DEF CustomerReport
  <1>6. DOMAIN key = S /\ keyed = S \ unnamed /\ unnamed \in SUBSET S
    BY <1>1, <1>4
  <1>7. Total(GroupBy(T, key), "trips") = Cardinality(keyed)
    <2>1. DOMAIN key \subseteq DOMAIN T
      BY <1>2, <1>6
    <2>2. LET rows == GroupBy(T, key)
          IN Total(rows, "trips") = Cardinality({i \in DOMAIN key : key[i] # Null})
      BY <2>1, GroupedTrips
    <2> QED
      BY <1>4, <1>6, <2>2
  <1>8. Cardinality(unnamed) \in Nat /\ Cardinality(unnamed) + Cardinality(S \ unnamed) = Cardinality(S)
        /\ IsFiniteSet(S \ unnamed)
    BY <1>2, <1>6, PartAndRest
  <1>9. Cardinality(keyed) \in Nat
    BY <1>6, <1>8, FS_CardinalityType
  <1> QED
    BY <1>1, <1>5, <1>6, <1>7, <1>8, <1>9

LEMMA StatusesFinite == IsFiniteSet(Statuses)
  <1>1. PICK A : A = {"PLANNED"} \cup {"ASSIGNED"} /\ IsFiniteSet(A)
    BY FS_Singleton, FS_Union
  <1>2. PICK B : B = {"STARTED"} \cup {"ONGOING"} /\ IsFiniteSet(B)
    BY FS_Singleton, FS_Union
  <1>3. PICK C : C = {"DELAYED"} \cup {"COMPLETED"} /\ IsFiniteSet(C)
    BY FS_Singleton, FS_Union
  <1>4. PICK D : D = A \cup B /\ IsFiniteSet(D)
    BY <1>1, <1>2, FS_Union
  <1>5. PICK E : E = C \cup {"CANCELLED"} /\ IsFiniteSet(E)
    BY <1>3, FS_Singleton, FS_Union
  <1>6. PICK F : F = D \cup E /\ IsFiniteSet(F)
    BY <1>4, <1>5, FS_Union
  <1>7. F = Statuses
    BY <1>1, <1>2, <1>3, <1>4, <1>5, <1>6, ReportsAssumption
  <1> QED
    BY <1>6, <1>7

\* The trips of each status are all the trips.
LEMMA StatusRow ==
    ASSUME NEW T, IsTable(T), NEW user, NEW q
    PROVE  LET report == SummaryReport(T, user, q)
           IN /\ SumFunction(report.byStatus) = report.total
              /\ report.total = Cardinality(Selected(T, user, q))
  <1>1. PICK S, report : S = Selected(T, user, q) /\ report = SummaryReport(T, user, q)
    OBVIOUS
  <1>2. S \in SUBSET DOMAIN T /\ IsFiniteSet(S)
    BY <1>1, SelectedFinite
  <1>3. report.total = Cardinality(S) /\ report.byStatus = [s \in Statuses |-> Count(T, S, {s})]
    BY <1>1 DEF SummaryReport
  <1>4. PICK key, g : key = [i \in S |-> T[i].status] /\ g = report.byStatus
    OBVIOUS
  <1>5. \A i \in S : key[i] \in Statuses
    BY <1>2, <1>4 DEF IsTable
  <1>6. CountsByKey(g, Statuses, S, key)
    <2> SUFFICES ASSUME NEW s \in Statuses PROVE g[s] = Cardinality({i \in S : key[i] = s})
      BY DEF CountsByKey
    <2>1. {i \in S : key[i] = s} = {i \in S : T[i].status \in {s}}
      BY <1>4
    <2> QED
      BY <1>3, <1>4, <2>1 DEF Count
  <1>7. SumFunctionOnSet(g, Statuses) = Cardinality(S)
    BY <1>2, <1>5, <1>6, StatusesFinite, CountByKey
  <1>8. SumFunction(g) = SumFunctionOnSet(g, Statuses)
    BY <1>3, <1>4 DEF SumFunction
  <1> QED
    BY <1>1, <1>3, <1>4, <1>7, <1>8

\* In the reports of any table of trips each selected trip is in one row or lacks the
\* key, the columns add up and the rates are rates.
THEOREM RowsArePartition ==
    ASSUME NEW T, IsTable(T), NEW user, IsUser(user), NEW q, IsQuery(q)
    PROVE  RowsPartition(T, user, q)
  <1>1. PICK S, total : S = Selected(T, user, q) /\ total = SummaryReport(T, user, q).total
    OBVIOUS
  <1>2. total = Cardinality(S) /\ SumFunction(SummaryReport(T, user, q).byStatus) = total
    BY <1>1, StatusRow
  <1>3. PICK nobody : nobody = {i \in S : /\ T[i].driverId = Null
                                          /\ T[i].driverName = Null \/ IdOf[T[i].driverName] = Null}
    OBVIOUS
  <1>4. /\ Counted(DriverReport(T, user, q))
        /\ Total(DriverReport(T, user, q), "trips") + Cardinality(nobody) = total
    <2>1. PICK keyed \in SUBSET S : /\ keyed = S \ nobody
                                    /\ Total(DriverReport(T, user, q), "trips") = Cardinality(keyed)
                                    /\ Counted(DriverReport(T, user, q))
      BY <1>1, <1>3, DriverRows
    <2>2. IsFiniteSet(S) /\ nobody \in SUBSET S
      BY <1>1, <1>3, SelectedFinite
    <2>3. Cardinality(nobody) \in Nat /\ Cardinality(nobody) + Cardinality(S \ nobody) = Cardinality(S)
          /\ IsFiniteSet(S \ nobody)
      BY <2>2, PartAndRest
    <2>4. Cardinality(keyed) \in Nat
      BY <2>1, <2>3, FS_CardinalityType
    <2> QED
      BY <1>2, <2>1, <2>3, <2>4
  <1>5. PICK report, unseen : /\ report = VehicleReport(T, user, q)
                              /\ unseen = {i \in S : T[i].vehicle = Null \/ T[i].vehicle \in Restricted}
    OBVIOUS
  <1>6. /\ Counted(report.rows)
        /\ Total(report.rows, "trips") + Cardinality(unseen) = total
        /\ \A v \in DOMAIN report.utilization : report.utilization[v] \in 0 .. 1000
    <2>1. unseen = Unseen(T, Selected(T, user, q))
      BY <1>1, <1>5 DEF Unseen
    <2>2. Total(report.rows, "trips") + Cardinality(Unseen(T, Selected(T, user, q)))
          = Cardinality(Selected(T, user, q))
      BY <1>5, VehicleRows
    <2>3. Counted(report.rows)
      BY <1>5, VehicleRows
    <2>4. \A v \in DOMAIN report.utilization : report.utilization[v] \in 0 .. 1000
      BY <1>5, VehicleRows
    <2> QED
      BY <1>1, <1>2, <2>1, <2>2, <2>3, <2>4
  <1>7. PICK unnamed : unnamed = {i \in S : T[i].customer = Null}
    OBVIOUS
  <1>8. user.role = "CLIENT" =>
            Total(CustomerReport(T, user.id, q), "trips") + Cardinality(unnamed) = total
    BY <1>1, <1>2, <1>7, CustomerRows
  <1>9. Total(DriverReport(T, user, q), "trips") + Cardinality(nobody)
        = SummaryReport(T, user, q).total
    BY <1>1, <1>4
  <1> QED
    BY <1>1, <1>2, <1>3, <1>4, <1>5, <1>6, <1>7, <1>8, <1>9 DEF RowsPartition

\* A day ends where the next begins.
LEMMA DaysFollow ==
    ASSUME NEW d \in Int, NEW e \in Int
    PROVE  /\ RangeStart(d) \in Int /\ RangeEnd(d) \in Int
           /\ RangeEnd(d) = RangeStart(d + 1) - 1
           /\ d <= e => RangeStart(d) <= RangeStart(e) /\ RangeEnd(d) <= RangeEnd(e)
  BY ReportsAssumption DEF RangeStart, RangeEnd

\* A range of days splits at any day into two reports that share no trip and lose none.
THEOREM RangesAreSplit ==
    ASSUME NEW T, IsTable(T), NEW user, NEW q, IsQuery(q)
    PROVE  RangesSplit(T, user, q)
  <1> DEFINE range(from, to) == [client |-> q.client, from |-> from, to |-> to]
  <1>1. SUFFICES ASSUME q.from \in Int, q.to \in Int, NEW day \in q.from .. q.to - 1
                 PROVE  SummaryReport(T, user, range(q.from, q.to)).total
                        = SummaryReport(T, user, range(q.from, day)).total
                          + SummaryReport(T, user, range(day + 1, q.to)).total
    BY DEF RangesSplit, IsQuery
  <1>2. PICK all, first, second : /\ all = Selected(T, user, range(q.from, q.to))
                                  /\ first = Selected(T, user, range(q.from, day))
                                  /\ second = Selected(T, user, range(day + 1, q.to))
    OBVIOUS
  <1>3. ASSUME NEW from \in Int, NEW to \in Int
        PROVE  Selected(T, user, range(from, to))
               = {i \in DOMAIN T : /\ InScope(user, q.client, T[i])
                                   /\ T[i].start >= RangeStart(from) /\ T[i].start <= RangeEnd(to)}
    BY ReportsAssumption DEF Selected, InRange
  <1>4. Parts(all, first, second, all)
    <2>1. PICK from, to : from = q.from /\ to = q.to
      OBVIOUS
    <2>2. from \in Int /\ to \in Int /\ day \in Int /\ day + 1 \in Int /\ from <= day /\ day + 1 <= to
      BY <1>1, <2>1
    <2>3. /\ all = {i \in DOMAIN T : /\ InScope(user, q.client, T[i])
                                     /\ T[i].start >= RangeStart(from) /\ T[i].start <= RangeEnd(to)}
          /\ first = {i \in DOMAIN T : /\ InScope(user, q.client, T[i])
                                       /\ T[i].start >= RangeStart(from) /\ T[i].start <= RangeEnd(day)}
          /\ second = {i \in DOMAIN T : /\ InScope(user, q.client, T[i])
                                        /\ T[i].start >= RangeStart(day + 1) /\ T[i].start <= RangeEnd(to)}
      BY <1>2, <1>3, <2>1, <2>2
    <2>4. /\ RangeStart(from) \in Int /\ RangeStart(day + 1) \in Int
          /\ RangeEnd(day) \in Int /\ RangeEnd(to) \in Int
          /\ RangeEnd(day) = RangeStart(day + 1) - 1
          /\ RangeStart(from) <= RangeStart(day + 1) /\ RangeEnd(day) <= RangeEnd(to)
      <3>1. PICK next : next = day + 1
        OBVIOUS
      <3>2. next \in Int /\ from <= next /\ day <= to
        BY <2>2, <3>1
      <3>3. RangeStart(from) \in Int /\ RangeStart(next) \in Int /\ RangeStart(from) <= RangeStart(next)
        BY <2>2, <3>2, DaysFollow
      <3>4. RangeEnd(day) \in Int /\ RangeEnd(to) \in Int /\ RangeEnd(day) <= RangeEnd(to)
        BY <2>2, <3>2, DaysFollow
      <3>5. RangeEnd(day) = RangeStart(day + 1) - 1
        BY DEF RangeEnd
      <3> QED
        BY <3>1, <3>3, <3>4, <3>5
    <2>5. \A i \in DOMAIN T : T[i].start \in Int
      BY DEF IsTable
    <2>6. ASSUME NEW i \in DOMAIN T
          PROVE  /\ i \in first => i \in all /\ i \notin second
                 /\ i \in second => i \in all
                 /\ i \in all => i \in first \/ i \in second
      BY <2>3, <2>4, <2>5
    <2> QED
      BY <2>3, <2>6 DEF Parts
  <1>5. IsFiniteSet(all)
    BY <1>2, SelectedFinite
  <1>6. Cardinality(all) = Cardinality(first) + Cardinality(second)
    BY <1>4, <1>5, TwoParts
  <1>7. \A r : SummaryReport(T, user, r).total = Cardinality(Selected(T, user, r))
    BY DEF SummaryReport
  <1> QED
    BY <1>2, <1>6, <1>7

-----------------------------------------------------------------------------
(* The dashboard                                                           *)

LEMMA CardsDoAgree == CardsAgree
  BY DEF CardsAgree, Delivered, TripSummary, Count

EveryTrip == [client |-> Null, from |-> Null, to |-> Null]

ClientOf(user) == IF user.role = "CLIENT" THEN user.id ELSE Null

LEMMA EveryTripSelected ==
    ASSUME NEW T, NEW user, IsUser(user)
    PROVE  Selected(T, user, EveryTrip) = OfClient(T, ClientOf(user))
  BY DEF Selected, InScope, InRange, OfClient, EveryTrip, ClientOf, IsUser

\* A business day is what lies between its two ends.
LEMMA BusinessDayIs ==
    ASSUME NEW i \in Int, NEW day \in Int
    PROVE  BusinessDay(i) = day <=> RangeStart(day) <= i /\ i <= RangeEnd(day)
  <1>1. PICK d, o, k : d = DayLength /\ o = Offset /\ k = i + o
    OBVIOUS
  <1>2. d \in Nat \ {0} /\ o \in Int /\ k \in Int
    BY <1>1, ReportsAssumption
  <1>3. k \div d = day <=> day * d <= k /\ k <= (day + 1) * d - 1
    BY <1>2
  <1>4. day * d \in Int /\ (day + 1) * d \in Int
    BY <1>2
  <1> QED
    BY <1>1, <1>2, <1>3, <1>4 DEF BusinessDay, RangeStart, RangeEnd

\* A column of the weekly activity is the report of that day.
LEMMA WeekAgrees ==
    ASSUME NEW T, IsTable(T), NEW user, IsUser(user), NEW now \in Int
    PROVE  LET week == WeeklyActivity(T, ClientOf(user), now)
           IN /\ Cardinality(DOMAIN week) = ActivityDays
              /\ \A day \in DOMAIN week :
                     week[day] = SummaryReport(T, user, [client |-> Null, from |-> day, to |-> day]).total
  <1>1. PICK today, first : today = BusinessDay(now) /\ first = today - (ActivityDays - 1)
    OBVIOUS
  <1>2. today \in Int /\ first \in Int
    <2>1. now + Offset \in Int /\ DayLength \in Nat \ {0}
      BY ReportsAssumption
    <2>2. (now + Offset) \div DayLength \in Int
      BY <2>1
    <2> QED
      BY <1>1, <2>2, ReportsAssumption DEF BusinessDay
  <1>3. PICK week, client : week = WeeklyActivity(T, ClientOf(user), now) /\ client = ClientOf(user)
    OBVIOUS
  <1>4. PICK fetched : fetched = {i \in OfClient(T, client) :
                                      /\ T[i].start >= RangeStart(first)
                                      /\ T[i].start < RangeStart(today) + DayLength}
    OBVIOUS
  <1>5. week = [day \in first .. today |-> Cardinality({i \in fetched : BusinessDay(T[i].start) = day})]
    BY <1>1, <1>3, <1>4 DEF WeeklyActivity
  <1>6. Cardinality(DOMAIN week) = ActivityDays
    <2>1. DOMAIN week = first .. today
      BY <1>5
    <2>2. Cardinality(first .. today) = IF first > today THEN 0 ELSE today - first + 1
      BY <1>2, FS_Interval
    <2> QED
      BY <1>1, <1>2, <2>1, <2>2, ReportsAssumption
  <1>7. ASSUME NEW day \in first .. today
        PROVE  week[day] = SummaryReport(T, user, [client |-> Null, from |-> day, to |-> day]).total
    <2>1. PICK q : q = [client |-> Null, from |-> day, to |-> day]
      OBVIOUS
    <2>2. day \in Int /\ day # Null /\ first <= day /\ day <= today
      BY <1>2, ReportsAssumption
    <2>3. ASSUME NEW i \in DOMAIN T
          PROVE  i \in fetched /\ BusinessDay(T[i].start) = day <=> i \in Selected(T, user, q)
      <3>1. T[i].start \in Int
        BY DEF IsTable
      <3>2. i \in Selected(T, user, q) <=> /\ InScope(user, Null, T[i])
                                           /\ T[i].start >= RangeStart(day) /\ T[i].start <= RangeEnd(day)
        BY <2>1, <2>2 DEF Selected, InRange
      <3>3. i \in OfClient(T, client) <=> InScope(user, Null, T[i])
        BY <1>3 DEF OfClient, InScope, ClientOf, IsUser
      <3>4. BusinessDay(T[i].start) = day <=> RangeStart(day) <= T[i].start /\ T[i].start <= RangeEnd(day)
        BY <2>2, <3>1, BusinessDayIs
      <3>5. /\ RangeStart(first) \in Int /\ RangeStart(day) \in Int /\ RangeStart(first) <= RangeStart(day)
            /\ RangeEnd(day) \in Int /\ RangeEnd(today) \in Int /\ RangeEnd(day) <= RangeEnd(today)
        BY <1>2, <2>2, DaysFollow
      <3>6. RangeEnd(today) < RangeStart(today) + DayLength
        <4>1. RangeEnd(today) = (today + 1) * DayLength - Offset - 1
          BY DEF RangeEnd, RangeStart
        <4>2. RangeStart(today) = today * DayLength - Offset
          BY DEF RangeStart
        <4>3. (today + 1) * DayLength = today * DayLength + DayLength /\ today * DayLength \in Int
          BY <1>2, ReportsAssumption
        <4> QED
          BY <4>1, <4>2, <4>3, ReportsAssumption
      <3>7. RangeStart(today) + DayLength \in Int
        BY <1>2, ReportsAssumption DEF RangeStart
      <3> QED
        BY <1>4, <3>1, <3>2, <3>3, <3>4, <3>5, <3>6, <3>7
    <2>4. {i \in fetched : BusinessDay(T[i].start) = day} = Selected(T, user, q)
      <3>1. fetched \subseteq DOMAIN T /\ Selected(T, user, q) \subseteq DOMAIN T
        BY <1>4 DEF OfClient, Selected
      <3> QED
        BY <2>3, <3>1
    <2> QED
      BY <1>5, <2>1, <2>4 DEF SummaryReport
  <1> QED
    BY <1>3, <1>5, <1>6, <1>7

\* The cards and the weekly activity of the dashboard count what the reports count, for
\* any table of trips and any caller.
THEOREM DashboardDoesAgree ==
    ASSUME NEW T, IsTable(T), NEW user, IsUser(user)
    PROVE  DashboardAgrees(T, user)
  <1>1. PICK S, client : S = Selected(T, user, EveryTrip) /\ client = ClientOf(user)
    OBVIOUS
  <1>2. S = OfClient(T, client) /\ S \in SUBSET DOMAIN T /\ IsFiniteSet(S)
    BY <1>1, EveryTripSelected, SelectedFinite
  <1>3. PICK report, cards : report = SummaryReport(T, user, EveryTrip) /\ cards = TripSummary(T, client)
    OBVIOUS
  <1>4. /\ report.total = Cardinality(S)
        /\ \A s \in Statuses : report.byStatus[s] = Count(T, S, {s})
    BY <1>1, <1>3 DEF SummaryReport
  <1>5. /\ cards.active = Count(T, S, Active) /\ cards.upcoming = Count(T, S, {"PLANNED", "ASSIGNED"})
        /\ cards.completed = Count(T, S, {"COMPLETED"})
    BY <1>2, <1>3 DEF TripSummary
  <1>6. "COMPLETED" \in Statuses /\ "CANCELLED" \in Statuses
    BY ReportsAssumption
  <1>7. Delivered(T, client).completed = report.byStatus["COMPLETED"]
    BY <1>2, <1>4, <1>6 DEF Delivered, Count
  <1>8. cards.active + cards.upcoming + cards.completed + report.byStatus["CANCELLED"] = report.total
    <2>1. PICK active, upcoming, completed, cancelled :
              /\ active = In(T, S, Active) /\ upcoming = In(T, S, {"PLANNED", "ASSIGNED"})
              /\ completed = In(T, S, {"COMPLETED"}) /\ cancelled = In(T, S, {"CANCELLED"})
      OBVIOUS
    <2>2. PICK two, three : two = active \cup upcoming /\ three = two \cup completed
      OBVIOUS
    <2>3. \A i \in S : T[i].status \in Statuses
      BY <1>2 DEF IsTable
    <2>4. Parts(S, active, upcoming, two) /\ Parts(S, two, completed, three) /\ Parts(S, three, cancelled, S)
      BY <2>1, <2>2, <2>3, ReportsAssumption DEF Parts, In, Active
    <2>5. /\ Cardinality(two) = Cardinality(active) + Cardinality(upcoming)
          /\ Cardinality(active) \in Nat /\ Cardinality(upcoming) \in Nat
      BY <1>2, <2>4, TwoParts
    <2>6. /\ Cardinality(three) = Cardinality(two) + Cardinality(completed)
          /\ Cardinality(completed) \in Nat
      BY <1>2, <2>4, TwoParts
    <2>7. /\ Cardinality(S) = Cardinality(three) + Cardinality(cancelled)
          /\ Cardinality(cancelled) \in Nat
      BY <1>2, <2>4, TwoParts
    <2>8. \A statuses : Count(T, S, statuses) = Cardinality(In(T, S, statuses))
      BY DEF Count, In
    <2> QED
      BY <1>4, <1>5, <1>6, <2>1, <2>5, <2>6, <2>7, <2>8
  <1>9. Total(DriverReport(T, user, EveryTrip), "delayed") <= Delivered(T, client).delayed
    <2>1. PICK keyed \in SUBSET S :
              Total(DriverReport(T, user, EveryTrip), "delayed") = Cardinality(Late(T, keyed))
      BY <1>1, DriverRows
    <2>2. Delivered(T, client).delayed = Cardinality(Late(T, S))
      <3>1. PICK done : done = {i \in S : T[i].status = "COMPLETED"}
        OBVIOUS
      <3>2. Late(T, S) = {i \in done : IsDelayed(T[i].end, Arrived(T[i]))}
        BY <3>1 DEF Late
      <3> QED
        BY <1>2, <3>1, <3>2 DEF Delivered
    <2>3. PICK some, all : some = Late(T, keyed) /\ all = Late(T, S)
      OBVIOUS
    <2>4. some \in SUBSET all /\ all \in SUBSET S
      BY <2>3 DEF Late
    <2>5. IsFiniteSet(all)
      BY <1>2, <2>4, FS_Subset
    <2>6. Cardinality(some) <= Cardinality(all)
      BY <2>4, <2>5, FS_Subset
    <2> QED
      BY <2>1, <2>2, <2>3, <2>6
  <1>10. \A now \in Today :
             LET week == WeeklyActivity(T, client, now)
             IN /\ Cardinality(DOMAIN week) = ActivityDays
                /\ \A day \in DOMAIN week :
                       week[day] = SummaryReport(T, user, [client |-> Null, from |-> day, to |-> day]).total
    BY <1>1, WeekAgrees, FiguresAssumption
  <1> QED
    BY <1>1, <1>3, <1>7, <1>8, <1>9, <1>10 DEF DashboardAgrees, EveryTrip, ClientOf

-----------------------------------------------------------------------------
(* Fleets, delays and costs                                                *)

LEMMA FleetDoesAgree ==
    ASSUME NEW V, IsFiniteSet(DOMAIN V)
    PROVE  FleetAgrees(V)
  <1>1. PICK S : S = {v \in DOMAIN V \ Restricted : Null \in {Null, V[v].client}}
    OBVIOUS
  <1>2. IsFiniteSet(S) /\ S = DOMAIN V \ Restricted
    <2>1. S \in SUBSET DOMAIN V
      BY <1>1
    <2> QED
      BY <1>1, <2>1, FS_Subset
  <1>3. PICK moving, idle, offline : /\ moving = {v \in S : EffectiveStatus(V[v]) = "MOVING"}
                                     /\ idle = {v \in S : EffectiveStatus(V[v]) = "IDLE"}
                                     /\ offline = {v \in S : EffectiveStatus(V[v]) = "OFFLINE"}
    OBVIOUS
  <1>4. PICK stats : stats = DashboardStats(V, Null)
    OBVIOUS
  <1>5. /\ stats.totalVehicles = Cardinality(S) /\ stats.activeVehicles = Cardinality(moving)
        /\ stats.idleVehicles = Cardinality(idle) /\ stats.offlineVehicles = Cardinality(offline)
    BY <1>1, <1>3, <1>4 DEF DashboardStats
  <1>6. PICK active : active = ActiveVehicles(V, Null)
    OBVIOUS
  <1>7. Parts(S, moving, idle, active) /\ Parts(S, active, offline, S)
    BY <1>2, <1>3, <1>6 DEF Parts, ActiveVehicles, EffectiveStatus
  <1>8. /\ Cardinality(active) = Cardinality(moving) + Cardinality(idle)
        /\ Cardinality(S) = Cardinality(active) + Cardinality(offline)
    BY <1>2, <1>7, TwoParts
  <1> QED
    BY <1>4, <1>5, <1>6, <1>8 DEF FleetAgrees

HaveMinutes(D, S) == \A d \in S : D[d].minutes \in Int

AreWhole(buckets, D, S, key) ==
    /\ DOMAIN buckets = {key[d] : d \in S}
    /\ Total(buckets, "count") = Cardinality(S)
    /\ Total(buckets, "minutes") = SumFunction([d \in S |-> D[d].minutes])

\* Buckets by any key hold every delay once.
LEMMA BucketsAreWhole ==
    ASSUME NEW D, NEW S, IsFiniteSet(S), HaveMinutes(D, S), NEW key, DOMAIN key = S
    PROVE  AreWhole(Bump(D, key), D, S, key)
  <1>1. PICK K, buckets : K = {key[d] : d \in DOMAIN key} /\ buckets = Bump(D, key)
    OBVIOUS
  <1>2. IsFiniteSet(K) /\ \A d \in S : key[d] \in K
    BY <1>1, KeysFinite
  <1>3. PICK group : group = [k \in K |-> {d \in S : key[d] = k}]
    OBVIOUS
  <1>4. /\ DOMAIN buckets = K
        /\ \A k \in K :
               /\ buckets[k].count = Cardinality(group[k])
               /\ buckets[k].minutes = SumFunction([d \in group[k] |-> D[d].minutes])
    <2>1. buckets = [k \in K |-> [count   |-> Cardinality({d \in S : key[d] = k}),
                                  minutes |-> SumFunction([d \in {d \in S : key[d] = k} |-> D[d].minutes])]]
      BY <1>1 DEF Bump
    <2>2. ASSUME NEW k \in K
          PROVE  /\ buckets[k].count = Cardinality(group[k])
                 /\ buckets[k].minutes = SumFunction([d \in group[k] |-> D[d].minutes])
      <3>1. group[k] = {d \in S : key[d] = k}
        BY <1>3
      <3> QED
        BY <2>1, <3>1
    <2> QED
      BY <2>1, <2>2
  <1>5. PICK count, minutes, each : /\ count = [k \in K |-> buckets[k]["count"]]
                                    /\ minutes = [k \in K |-> buckets[k]["minutes"]]
                                    /\ each = [d \in S |-> D[d].minutes]
    OBVIOUS
  <1>6. SumFunctionOnSet(count, K) = Cardinality(S)
    <2>1. CountsByKey(count, K, S, key)
      <3> SUFFICES ASSUME NEW k \in K PROVE count[k] = Cardinality({d \in S : key[d] = k})
        BY DEF CountsByKey
      <3>1. count[k] = Cardinality(group[k]) /\ group[k] = {d \in S : key[d] = k}
        <4>1. buckets[k].count = Cardinality(group[k])
          BY <1>4
        <4>2. count[k] = buckets[k]["count"]
          BY <1>5
        <4> QED
          BY <1>3, <4>1, <4>2
      <3> QED
        BY <3>1
    <2>2. S \in SUBSET S
      OBVIOUS
    <2> QED
      BY <1>2, <2>1, <2>2, CountByKey
  <1>7. SumFunctionOnSet(minutes, K) = SumFunctionOnSet(each, S)
    <2>1. ASSUME NEW k \in K PROVE minutes[k] = SumFunctionOnSet(each, {d \in S : key[d] = k})
      <3>1. PICK part : part = [d \in group[k] |-> D[d].minutes]
        OBVIOUS
      <3>2. minutes[k] = SumFunctionOnSet(part, group[k])
        BY <1>4, <1>5, <3>1 DEF SumFunction
      <3>3. group[k] \in SUBSET S
        BY <1>3
      <3>4. IsFiniteSet(group[k]) /\ \A d \in group[k] : part[d] = each[d]
        BY <1>5, <3>1, <3>3, FS_Subset
      <3>5. SumFunctionOnSet(part, group[k]) = SumFunctionOnSet(each, group[k])
        BY <3>4, SumEqual
      <3> QED
        BY <1>3, <3>2, <3>5
    <2>2. SumsByKey(minutes, K, each, S, key)
      BY <2>1 DEF SumsByKey
    <2>3. \A d \in S : each[d] \in Int
      BY <1>5 DEF HaveMinutes
    <2> QED
      BY <1>2, <2>2, <2>3, SumByKey
  <1>8. Total(buckets, "count") = SumFunctionOnSet(count, K)
        /\ Total(buckets, "minutes") = SumFunctionOnSet(minutes, K)
    BY <1>4, <1>5, TotalIs
  <1>9. SumFunction(each) = SumFunctionOnSet(each, S)
    BY <1>5 DEF SumFunction
  <1> QED
    BY <1>1, <1>4, <1>5, <1>6, <1>7, <1>8, <1>9 DEF AreWhole

\* The statistics of any delays add up to the same along every axis, and name no driver
\* that the driver report does not have.
THEOREM DelaysDoAgree ==
    ASSUME NEW T, IsTable(T), NEW D, IsDelayTable(D, T), NEW user, NEW q
    PROVE  DelaysAgree(D, T, user, q)
  <1> SUFFICES ASSUME NEW period \in {"day", "week"}
               PROVE  LET stats == DelayStats(D, T, user, q, period)
                          whole(buckets) == /\ Total(buckets, "count") = stats.count
                                            /\ Total(buckets, "minutes") = stats.minutes
                      IN /\ whole(stats.byCategory) /\ whole(stats.byDriver)
                         /\ whole(stats.byRoute) /\ whole(stats.byPeriod)
                         /\ DOMAIN stats.byDriver \ {"UNASSIGNED"}
                            \subseteq DOMAIN DriverReport(T, user, EveryTrip)
                         /\ \A week \in DOMAIN stats.byPeriod : period = "week" => week % 7 = 0
    BY DEF DelaysAgree, EveryTrip
  <1>1. PICK S, stats : S = Reported(D, T, user, q) /\ stats = DelayStats(D, T, user, q, period)
    OBVIOUS
  <1>2. /\ S \in SUBSET DOMAIN D /\ IsFiniteSet(S)
        /\ \A d \in S : /\ D[d].minutes \in Int /\ D[d].at \in Int /\ D[d].trip \in DOMAIN T
                        /\ InScope(user, Null, T[D[d].trip])
    BY <1>1, FS_Subset DEF Reported, IsDelayTable
  <1>3. PICK driver : driver = [d \in S |-> DriverKey(T[D[d].trip].driverId, T[D[d].trip].driverName)]
    OBVIOUS
  <1>4. PICK category, who, route, when :
            /\ category = [d \in S |-> D[d].category]
            /\ who = [d \in S |-> IF driver[d] = Null THEN "UNASSIGNED" ELSE driver[d]]
            /\ route = [d \in S |-> T[D[d].trip].route]
            /\ when = [d \in S |-> PeriodKey(D[d].at, period)]
    OBVIOUS
  <1>5. /\ stats.count = Cardinality(S)
        /\ stats.minutes = SumFunction([d \in S |-> D[d].minutes])
        /\ stats.byCategory = Bump(D, category)
        /\ stats.byDriver = Bump(D, who)
        /\ stats.byRoute = Bump(D, route)
        /\ stats.byPeriod = Bump(D, when)
    BY <1>1, <1>3, <1>4 DEF DelayStats
  <1>6. ASSUME NEW key, DOMAIN key = S
        PROVE  /\ DOMAIN Bump(D, key) = {key[d] : d \in S}
               /\ Total(Bump(D, key), "count") = stats.count
               /\ Total(Bump(D, key), "minutes") = stats.minutes
    <2>1. HaveMinutes(D, S)
      BY <1>2 DEF HaveMinutes
    <2>2. AreWhole(Bump(D, key), D, S, key)
      BY <1>2, <1>6, <2>1, BucketsAreWhole
    <2> QED
      BY <1>5, <2>2 DEF AreWhole
  <1>7. DOMAIN category = S /\ DOMAIN who = S /\ DOMAIN route = S /\ DOMAIN when = S
    BY <1>4
  <1>8. ASSUME NEW name \in DOMAIN stats.byDriver, name # "UNASSIGNED"
        PROVE  name \in DOMAIN DriverReport(T, user, EveryTrip)
    <2>1. PICK d \in S : name = driver[d] /\ driver[d] # Null
      <3>1. DOMAIN stats.byDriver = {who[d] : d \in S}
        BY <1>5, <1>6, <1>7
      <3>2. PICK d \in S : name = who[d]
        BY <1>8, <3>1
      <3> QED
        BY <1>4, <1>8, <3>2
    <2>2. PICK i : i = D[d].trip
      OBVIOUS
    <2>3. i \in Selected(T, user, EveryTrip)
      BY <1>2, <2>2 DEF Selected, InRange, EveryTrip
    <2>4. name = DriverKey(T[i].driverId, T[i].driverName) /\ name # Null
      BY <1>3, <2>1, <2>2
    <2>5. PICK A : A = Selected(T, user, EveryTrip)
      OBVIOUS
    <2>6. PICK keyed \in SUBSET A :
              /\ keyed = A \ {j \in A : /\ T[j].driverId = Null
                                        /\ T[j].driverName = Null \/ IdOf[T[j].driverName] = Null}
              /\ DOMAIN DriverReport(T, user, EveryTrip)
                 = {DriverKey(T[j].driverId, T[j].driverName) : j \in keyed}
      BY <2>5, DriverRows
    <2>7. i \in keyed
      BY <2>3, <2>4, <2>5, <2>6 DEF DriverKey, DriverIdFromName
    <2> QED
      BY <2>4, <2>6, <2>7
  <1>9. ASSUME NEW week \in DOMAIN stats.byPeriod, period = "week" PROVE week % 7 = 0
    <2>1. PICK d \in S : week = when[d]
      <3>1. DOMAIN stats.byPeriod = {when[d] : d \in S}
        BY <1>5, <1>6, <1>7
      <3> QED
        BY <1>9, <3>1
    <2>2. PICK day : day = D[d].at \div DayLength
      OBVIOUS
    <2>3. day \in Int
      BY <1>2, <2>2, ReportsAssumption
    <2>4. week = day - (day % 7)
      BY <1>4, <1>9, <2>1, <2>2 DEF PeriodKey
    <2> QED
      BY <2>3, <2>4
  <1> QED
    BY <1>1, <1>5, <1>6, <1>7, <1>8, <1>9

ByComponent(sums, S, C, group) ==
    \A c \in Components : sums[c] = SumFunction([i \in S |-> Amount(C[i], group, c)])

ByTrip(sums, S, C, group) ==
    \A i \in S : sums[i] = SumFunction([c \in Components |-> Amount(C[i], group, c)])

\* One group of amounts adds up alike by trip and by component.
LEMMA AmountsAgree ==
    ASSUME NEW S, IsFiniteSet(S), NEW C, NEW group,
           \A i \in S : \A c \in Components : Amount(C[i], group, c) \in Int,
           NEW byComponent, NEW byTrip,
           ByComponent(byComponent, S, C, group), ByTrip(byTrip, S, C, group)
    PROVE  /\ SumFunctionOnSet(byTrip, S) = SumFunctionOnSet(byComponent, Components)
           /\ \A c \in Components : byComponent[c] \in Int
           /\ \A i \in S : byTrip[i] \in Int
  <1>1. PICK rows, columns :
            /\ rows = [i \in S |-> [c \in Components |-> Amount(C[i], group, c)]]
            /\ columns = [c \in Components |-> [i \in S |-> Amount(C[i], group, c)]]
    OBVIOUS
  <1>2. /\ \A c \in Components : byComponent[c] = SumFunctionOnSet(columns[c], S)
        /\ \A i \in S : byTrip[i] = SumFunctionOnSet(rows[i], Components)
    BY <1>1 DEF SumFunction, ByComponent, ByTrip
  <1>3. \A i \in S : \A c \in Components : rows[i][c] \in Int /\ columns[c][i] = rows[i][c]
    BY <1>1
  <1>4. IsFiniteSet(Components)
    BY ReportsAssumption
  <1>5. \A c \in Components : SumFunctionOnSet(columns[c], S) \in Int
    BY <1>3, SumType
  <1>6. \A i \in S : SumFunctionOnSet(rows[i], Components) \in Int
    BY <1>3, <1>4, SumType
  <1>7. SumFunctionOnSet(byTrip, S) = SumFunctionOnSet(byComponent, Components)
    <2>1. AddUp(S, Components, rows, columns, byTrip, byComponent)
      BY <1>2, <1>3 DEF AddUp
    <2> QED
      BY <1>4, <2>1, SumByRowsAndColumns
  <1> QED
    BY <1>2, <1>5, <1>6, <1>7

\* The costs of any trips add up alike by trip and by component.
THEOREM CostsDoAgree ==
    ASSUME NEW T, IsTable(T), NEW C, IsCostTable(C, T), NEW user, NEW q
    PROVE  CostsAgree(C, T, user, q)
  <1>1. PICK S, report : S = Selected(T, user, q) /\ report = CostReport(C, T, user, q)
    OBVIOUS
  <1>2. S \in SUBSET DOMAIN T /\ IsFiniteSet(S) /\ IsFiniteSet(Components)
    BY <1>1, SelectedFinite, ReportsAssumption
  <1>3. ASSUME NEW i \in S, NEW c \in Components
        PROVE  Amount(C[i], "estimated", c) \in Int /\ Amount(C[i], "actual", c) \in Int
    BY <1>2 DEF Amount, IsCostTable
  <1>4. PICK est, act, var :
            /\ est = [c \in Components |-> report.byComponent[c]["estimated"]]
            /\ act = [c \in Components |-> report.byComponent[c]["actual"]]
            /\ var = [c \in Components |-> report.byComponent[c]["variance"]]
    OBVIOUS
  <1>5. PICK row : row = [i \in S |-> Variance(C[i])]
    OBVIOUS
  <1>6. PICK estOf, actOf, varOf : /\ estOf = [i \in S |-> row[i].estimatedTotal]
                                   /\ actOf = [i \in S |-> row[i].actualTotal]
                                   /\ varOf = [i \in S |-> row[i].total]
    OBVIOUS
  <1>7. ASSUME NEW c \in Components
        PROVE  /\ est[c] = SumFunction([i \in S |-> Amount(C[i], "estimated", c)])
               /\ act[c] = SumFunction([i \in S |-> Amount(C[i], "actual", c)])
               /\ var[c] = act[c] - est[c]
    BY <1>1, <1>4 DEF CostReport
  <1>8. ASSUME NEW i \in S
        PROVE  /\ estOf[i] = SumFunction([c \in Components |-> Amount(C[i], "estimated", c)])
               /\ actOf[i] = SumFunction([c \in Components |-> Amount(C[i], "actual", c)])
               /\ varOf[i] = actOf[i] - estOf[i]
    BY <1>5, <1>6 DEF Variance
  <1>9. /\ SumFunctionOnSet(estOf, S) = SumFunctionOnSet(est, Components)
        /\ \A c \in Components : est[c] \in Int
        /\ \A i \in S : estOf[i] \in Int
    <2>1. ByComponent(est, S, C, "estimated") /\ ByTrip(estOf, S, C, "estimated")
      BY <1>7, <1>8 DEF ByComponent, ByTrip
    <2>2. \A i \in S : \A c \in Components : Amount(C[i], "estimated", c) \in Int
      BY <1>3
    <2> QED
      BY <1>2, <2>1, <2>2, AmountsAgree
  <1>10. /\ SumFunctionOnSet(actOf, S) = SumFunctionOnSet(act, Components)
         /\ \A c \in Components : act[c] \in Int
         /\ \A i \in S : actOf[i] \in Int
    <2>1. ByComponent(act, S, C, "actual") /\ ByTrip(actOf, S, C, "actual")
      BY <1>7, <1>8 DEF ByComponent, ByTrip
    <2>2. \A i \in S : \A c \in Components : Amount(C[i], "actual", c) \in Int
      BY <1>3
    <2> QED
      BY <1>2, <2>1, <2>2, AmountsAgree
  <1>11. /\ \A c \in Components : var[c] = act[c] - est[c]
        /\ \A i \in S : varOf[i] = actOf[i] - estOf[i]
    BY <1>7, <1>8
  <1>12. SumFunctionOnSet(act, Components)
         = SumFunctionOnSet(var, Components) + SumFunctionOnSet(est, Components)
    <2>1. \A c \in Components : var[c] \in Int /\ est[c] \in Int /\ act[c] = var[c] + est[c]
      BY <1>11, <1>9, <1>10
    <2> QED
      BY <1>2, <2>1, SumPlus
  <1>13. SumFunctionOnSet(actOf, S) = SumFunctionOnSet(varOf, S) + SumFunctionOnSet(estOf, S)
    <2>1. \A i \in S : varOf[i] \in Int /\ estOf[i] \in Int /\ actOf[i] = varOf[i] + estOf[i]
      BY <1>11, <1>9, <1>10
    <2> QED
      BY <1>2, <2>1, SumPlus
  <1>14. /\ SumFunctionOnSet(est, Components) \in Int
         /\ SumFunctionOnSet(var, Components) \in Int
         /\ SumFunctionOnSet(varOf, S) \in Int
    <2>1. \A c \in Components : var[c] \in Int
      BY <1>11, <1>9, <1>10
    <2>2. \A i \in S : varOf[i] \in Int
      BY <1>11, <1>9, <1>10
    <2> QED
      BY <1>2, <1>9, <2>1, <2>2, SumType
  <1>15. SumFunctionOnSet(varOf, S) = SumFunctionOnSet(var, Components)
    <2>1. PICK a, e, v, w : /\ a = SumFunctionOnSet(act, Components)
                            /\ e = SumFunctionOnSet(est, Components)
                            /\ v = SumFunctionOnSet(var, Components)
                            /\ w = SumFunctionOnSet(varOf, S)
      OBVIOUS
    <2>2. e \in Int /\ v \in Int /\ w \in Int /\ a = v + e /\ a = w + e
      BY <1>9, <1>10, <1>12, <1>13, <1>14, <2>1
    <2>3. v = w
      BY <2>2
    <2> QED
      BY <2>1, <2>3
  <1>16. /\ report.totals.estimatedTotal = SumFunction(estOf)
         /\ report.totals.actualTotal = SumFunction(actOf)
         /\ report.totals.variance = SumFunction(varOf)
    BY <1>1, <1>5, <1>6 DEF CostReport
  <1>17. /\ SumFunction(estOf) = SumFunctionOnSet(estOf, S)
         /\ SumFunction(actOf) = SumFunctionOnSet(actOf, S)
         /\ SumFunction(varOf) = SumFunctionOnSet(varOf, S)
         /\ SumFunction(est) = SumFunctionOnSet(est, Components)
         /\ SumFunction(act) = SumFunctionOnSet(act, Components)
         /\ SumFunction(var) = SumFunctionOnSet(var, Components)
    BY <1>4, <1>6 DEF SumFunction
  <1> QED
    BY <1>1, <1>4, <1>9, <1>10, <1>15, <1>16, <1>17 DEF CostsAgree

-----------------------------------------------------------------------------
(* The invariants                                                          *)

\* In every state, whatever the tables: every trip is counted once, the reports and
\* the dashboard agree, and delays and costs add up alike along every axis.
THEOREM ReportsDoAgree == Spec => []ReportsAgree
  <1>1. CardsAgree
    BY CardsDoAgree
  <1>2. TablesAgree
    <2> SUFFICES ASSUME NEW T \in Tables, NEW user \in Users
                 PROVE  /\ DashboardAgrees(T, user)
                        /\ \A q \in Queries : RowsPartition(T, user, q) /\ RangesSplit(T, user, q)
      BY DEF TablesAgree
    <2>1. IsTable(T) /\ IsUser(user)
      BY FiguresAssumption DEF IsUser
    <2>2. DashboardAgrees(T, user)
      BY <2>1, DashboardDoesAgree
    <2>3. ASSUME NEW q \in Queries PROVE RowsPartition(T, user, q) /\ RangesSplit(T, user, q)
      <3>1. IsQuery(q)
        BY FiguresAssumption DEF IsQuery
      <3> QED
        BY <2>1, <3>1, RowsArePartition, RangesAreSplit
    <2> QED
      BY <2>2, <2>3
  <1>3. OthersAgree
    <2>1. ASSUME NEW V \in Fleets PROVE FleetAgrees(V)
      BY FiguresAssumption, FleetDoesAgree
    <2>2. ASSUME NEW d \in DelayTables, NEW user \in Users, NEW q \in Queries
          PROVE  DelaysAgree(d.delays, d.trips, user, q)
      <3>1. IsTable(d.trips) /\ IsDelayTable(d.delays, d.trips)
        BY FiguresAssumption
      <3> QED
        BY <3>1, DelaysDoAgree
    <2>3. ASSUME NEW c \in CostTables, NEW user \in Users, NEW q \in Queries
          PROVE  CostsAgree(c.costs, c.trips, user, q)
      <3>1. IsTable(c.trips) /\ IsCostTable(c.costs, c.trips)
        BY FiguresAssumption
      <3> QED
        BY <3>1, CostsDoAgree
    <2> QED
      BY <2>1, <2>2, <2>3 DEF OthersAgree
  <1>4. ReportsAgree
    BY <1>1, <1>2, <1>3 DEF ReportsAgree
  <1> QED
    BY <1>4, PTL

\* In every state the arrival times of every journey tell one story, whatever its
\* status.
THEOREM EtasAreOrdered == Spec => []EtasOrdered
  <1>1. ASSUME NEW journey \in Journeys PROVE JourneyOrdered(journey)
    <2>1. IsJourney(journey) /\ Grid \in Nat \ {0}
      BY FiguresAssumption
    <2> QED
      BY <2>1, JourneyIsOrdered
  <1>2. TypeOK => EtasOrdered
    <2> SUFFICES ASSUME TypeOK, NEW t \in Trips, Exists(t) PROVE JourneysOrdered[trips[t].status]
      BY DEF EtasOrdered
    <2>1. trips[t].status \in {"STARTED", "COMPLETED"}
      BY DEF TypeOK, Exists
    <2>2. trips[t].status \in Statuses
      BY <2>1, ReportsAssumption
    <2> QED
      BY <1>1, <2>2 DEF JourneysOrdered
  <1> QED
    BY <1>2, TypeCorrect, PTL

\* In every state, for any stops on any map: two optimisations in a row visit each stop
\* once, and the second moves none and reports the length the first one did.
THEOREM OrdersDoServe == Spec => []OrderServes
  <1>1. OrdersServe
    <2>1. \A l \in StopLists : IsStopList(l)
      BY FiguresAssumption
    <2> QED
      BY <2>1, OrderIsServed DEF OrdersServe
  <1>2. OrderServes
    BY <1>1 DEF OrderServes
  <1> QED
    BY <1>2, PTL
=============================================================================
