--------------------------- MODULE FleetSyncProofs ---------------------------
(***************************************************************************)
(* Proofs about FleetSync: its type invariant, that a stored fix never     *)
(* goes back, that breadcrumbs go to trips of the sync only, that a device *)
(* has one row, and who takes a fresh vehicle offline.                     *)
(***************************************************************************)
EXTENDS FleetSync, TLAPS

(* What a statement of the sync has at hand, and the rows a sweep has.     *)
AtHand ==
    /\ pc \in {"create", "write", "trips", "append"} => item \in Items
    /\ pc \in {"write", "trips", "append"} => found \in Rows /\ Exists(found) /\ ~item.listed

Swept == \A w \in Sweeps : \A r \in candidates[w] : Exists(r)

TypeInv == TypeOK /\ AtHand /\ Swept

LEMMA RowIsVehicle ==
    ASSUME TypeOK, NEW r \in Rows, Exists(r)
    PROVE  vehicle[r] \in Vehicle
  BY DEF TypeOK, Exists

LEMMA VehicleIsRow == \A v \in Vehicle : v # Null
  BY RowAssumption

LEMMA ReportedTyped ==
    ASSUME TypeOK, NEW d \in Devices, NEW fix \in Fixes, NEW moved \in BOOLEAN
    PROVE  Reported(d, fix, moved) \in Items
<1>1. fix \in Instants
  BY TimeAssumption DEF Fixes, Instants
<1> DEFINE fresh == fix = Null \/ Fresh(fix)
           ahd == fix # Null /\ Ahead(fix)
           fb == ~Resolved(d)
           key == IF Resolved(d) THEN <<"id", d>> ELSE <<"imei", d>>
           imei == IF d \in Plated THEN Null ELSE d
<1>2. fresh \in BOOLEAN /\ ahd \in BOOLEAN /\ fb \in BOOLEAN
  BY DEF Fresh, Ahead, Resolved
<1>3. key \in Keys /\ imei \in Devices \cup {Null}
  BY DEF Keys
<1>4. Reported(d, fix, moved) =
        [device |-> d, listed |-> FALSE, fallback |-> fb, key |-> key, imei |-> imei,
         fix |-> fix, moved |-> moved, fresh |-> fresh, ahead |-> ahd]
  BY DEF Reported
<1> HIDE DEF fresh, ahd, fb, key, imei
<1> QED
  BY <1>1, <1>2, <1>3, <1>4 DEF Items

LEMMA EntryTyped ==
    ASSUME NEW d \in Devices, NEW imei \in Devices \cup {Null}
    PROVE  Entry(d, imei) \in Items
  BY DEF Entry, Items, Keys, Instants

(* What Locate leaves behind.                                              *)
LEMMA LocateTyped ==
    ASSUME TypeInv, NEW i \in Items, Locate(i), UNCHANGED candidates
    PROVE  /\ vehicle' \in [Rows -> Vehicle \cup {Null}]
           /\ pc' \in {"feed", "create", "write", "list"}
           /\ item' \in Items \cup {Null} /\ found' \in Rows \cup {Null}
           /\ AtHand' /\ Swept'
           /\ \A r \in Rows : Exists(r) => Exists(r)'
<1>1. ASSUME NEW r \in Rows, Exists(r), Found(r, i)
      PROVE  /\ pc' \in {"write", "list"}
             /\ item' \in Items \cup {Null} /\ found' \in Rows \cup {Null}
             /\ pc' = "write" => item' = i /\ found' = r /\ ~i.listed
  BY <1>1 DEF Found
<1>2. CASE \E r \in ByKey(i.key) : Found(r, i) /\ vehicle' = vehicle
  <2>1. PICK r \in ByKey(i.key) : Found(r, i) /\ vehicle' = vehicle
    BY <1>2
  <2>2. r \in Rows /\ Exists(r)
    BY <2>1 DEF ByKey
  <2> QED
    BY <1>1, <2>1, <2>2 DEF TypeInv, TypeOK, AtHand, Swept, Exists
<1>3. CASE \E r \in ByImei(i.imei) :
              Found(r, i) /\ vehicle' = [vehicle EXCEPT ![r].key = i.key]
  <2>1. PICK r \in ByImei(i.imei) :
              Found(r, i) /\ vehicle' = [vehicle EXCEPT ![r].key = i.key]
    BY <1>3
  <2>2. r \in Rows /\ Exists(r)
    BY <2>1 DEF ByImei
  <2>3. vehicle[r] \in Vehicle
    BY <2>2, RowIsVehicle DEF TypeInv
  <2>4. [vehicle[r] EXCEPT !.key = i.key] \in Vehicle
    BY <2>3 DEF Vehicle, Items
  <2>5. vehicle' = [vehicle EXCEPT ![r] = [vehicle[r] EXCEPT !.key = i.key]]
    BY <2>1
  <2>6. vehicle' \in [Rows -> Vehicle \cup {Null}]
        /\ \A q \in Rows : Exists(q) => Exists(q)'
    BY <2>2, <2>4, <2>5, VehicleIsRow DEF TypeInv, TypeOK, Exists
  <2>7. Swept'
    BY <2>6 DEF TypeInv, TypeOK, Swept
  <2> QED
    BY <1>1, <2>1, <2>2, <2>6, <2>7 DEF AtHand
<1>4. CASE /\ IF i.fallback THEN pc' = "feed" /\ item' = Null /\ found' = Null
                            ELSE pc' = "create" /\ item' = i /\ found' = Null
           /\ vehicle' = vehicle
  BY <1>4 DEF TypeInv, TypeOK, AtHand, Swept, Exists
<1> QED
  BY <1>2, <1>3, <1>4 DEF Locate

LEMMA CreatedTyped ==
    ASSUME TypeInv, NEW r \in Rows, Create(r)
    PROVE  NewRow \in Vehicle /\ vehicle' = [vehicle EXCEPT ![r] = NewRow] /\ item \in Items
<1>1. item \in Items /\ now \in Nat
  BY DEF TypeInv, TypeOK, AtHand, Create
<1> DEFINE seen == IF item.listed \/ item.fix # Null THEN Null ELSE now
           online == IF item.listed THEN FALSE ELSE item.fresh
<1>2. seen \in Instants /\ online \in BOOLEAN
  BY <1>1 DEF Items, Instants
<1>3. NewRow = [key |-> item.key, imei |-> item.imei, fix |-> item.fix,
                seen |-> seen, online |-> online]
  BY DEF NewRow
<1> HIDE DEF seen, online
<1>4. NewRow \in Vehicle
  BY <1>1, <1>2, <1>3 DEF Items, Vehicle
<1> QED
  BY <1>1, <1>4 DEF Create

LEMMA WrittenTyped ==
    ASSUME TypeInv, Write
    PROVE  /\ item \in Items /\ found \in Rows /\ Exists(found) /\ vehicle[found] \in Vehicle
           /\ Refreshed(vehicle[found]) \in Vehicle
           /\ vehicle' = [vehicle EXCEPT ![found] = Refreshed(vehicle[found])]
           /\ ~item.listed
           /\ Refreshed(vehicle[found]).key = vehicle[found].key
           /\ Refreshed(vehicle[found]).imei =
                (IF item.imei # Null THEN item.imei ELSE vehicle[found].imei)
           /\ Refreshed(vehicle[found]).fix =
                (IF item.fix # Null THEN item.fix ELSE vehicle[found].fix)
           /\ Refreshed(vehicle[found]).online = item.fresh
<1>1. item \in Items /\ found \in Rows /\ Exists(found) /\ now \in Nat /\ ~item.listed
  BY DEF TypeInv, TypeOK, AtHand, Write
<1>2. vehicle[found] \in Vehicle
  BY <1>1, RowIsVehicle DEF TypeInv
<1> DEFINE v == vehicle[found]
           imei == IF item.imei # Null THEN item.imei ELSE v.imei
           fix == IF item.fix # Null THEN item.fix ELSE v.fix
           seen == IF item.fix = Null /\ v.fix = Null THEN now ELSE Null
<1>3. imei \in Devices \cup {Null} /\ fix \in Instants /\ seen \in Instants
      /\ item.fresh \in BOOLEAN /\ v.key \in Keys
  BY <1>1, <1>2 DEF Items, Vehicle, Instants
<1>4. Refreshed(v) = [v EXCEPT !.imei = imei, !.fix = fix, !.seen = seen, !.online = item.fresh]
  BY DEF Refreshed
<1>5. v \in Vehicle
  BY <1>2
<1> HIDE DEF v, imei, fix, seen
<1>6. Refreshed(v) = [key |-> v.key, imei |-> imei, fix |-> fix, seen |-> seen,
                      online |-> item.fresh]
  BY <1>4, <1>5 DEF Vehicle
<1>7. Refreshed(v) \in Vehicle
  BY <1>3, <1>6 DEF Vehicle
<1>8. Refreshed(v).key = v.key /\ Refreshed(v).imei = imei /\ Refreshed(v).fix = fix
      /\ Refreshed(v).online = item.fresh
  BY <1>6
<1>9. vehicle' = [vehicle EXCEPT ![found] = Refreshed(vehicle[found])]
  BY DEF Write
<1> QED
  BY <1>1, <1>2, <1>7, <1>8, <1>9 DEF v, imei, fix

LEMMA SweptTyped ==
    ASSUME TypeInv, NEW w \in Sweeps, NEW r \in Rows, SweepWrite(w, r)
    PROVE  /\ Exists(r) /\ vehicle[r] \in Vehicle
           /\ [vehicle[r] EXCEPT !.online = FALSE] \in Vehicle
           /\ vehicle' = [vehicle EXCEPT ![r] = [vehicle[r] EXCEPT !.online = FALSE]]
<1>1. Exists(r)
  BY DEF TypeInv, Swept, SweepWrite
<1>2. vehicle[r] \in Vehicle
  BY <1>1, RowIsVehicle DEF TypeInv
<1>3. [vehicle[r] EXCEPT !.online = FALSE] \in Vehicle
  BY <1>2 DEF Vehicle
<1> QED
  BY <1>1, <1>2, <1>3 DEF SweepWrite

LEMMA StepTyped == TypeInv /\ [Next]_vars => TypeInv' /\ \A r \in Rows : Exists(r) => Exists(r)'
<1> SUFFICES ASSUME TypeInv, [Next]_vars
             PROVE  TypeInv' /\ \A r \in Rows : Exists(r) => Exists(r)'
  OBVIOUS
<1> USE DEF syncVars, histories
<1>1. CASE Advance
  BY <1>1 DEF Advance, TypeInv, TypeOK, AtHand, Swept, Exists
<1>2. CASE StartSync
  <2>1. bare' \in SUBSET Devices /\ cycle' \in SUBSET Trips
    BY <1>2 DEF StartSync, TypeInv, TypeOK, ActiveTrips
  <2> QED
    BY <1>2, <2>1 DEF StartSync, TypeInv, TypeOK, AtHand, Swept, Exists
<1>3. ASSUME NEW d \in Devices, NEW fix \in Fixes, NEW moved \in BOOLEAN, Position(d, fix, moved)
      PROVE  TypeInv' /\ \A r \in Rows : Exists(r) => Exists(r)'
  <2>1. Reported(d, fix, moved) \in Items
    BY ReportedTyped DEF TypeInv
  <2>2. Locate(Reported(d, fix, moved))
        /\ UNCHANGED <<now, inventory, unfilled, loaded, trip, candidates, faults, histories>>
    BY <1>3 DEF Position
  <2> QED
    BY <2>1, <2>2, LocateTyped DEF TypeInv, TypeOK
<1>4. ASSUME NEW d \in Devices, Listed(d)
      PROVE  TypeInv' /\ \A r \in Rows : Exists(r) => Exists(r)'
  <2> DEFINE e == Entry(d, IF inventory[d] = "full" THEN d ELSE Null)
  <2>1. e \in Items
    BY EntryTyped
  <2>2. Locate(e) /\ unfilled' = unfilled \ {d}
        /\ UNCHANGED <<now, inventory, loaded, trip, candidates, faults, histories>>
    BY <1>4 DEF Listed
  <2> HIDE DEF e
  <2> QED
    BY <2>1, <2>2, LocateTyped DEF TypeInv, TypeOK
<1>5. ASSUME NEW r \in Rows, Create(r)
      PROVE  TypeInv' /\ \A q \in Rows : Exists(q) => Exists(q)'
  <2>1. NewRow \in Vehicle /\ vehicle' = [vehicle EXCEPT ![r] = NewRow] /\ item \in Items
    BY <1>5, CreatedTyped
  <2>2. vehicle' \in [Rows -> Vehicle \cup {Null}] /\ \A q \in Rows : Exists(q) => Exists(q)'
    BY <2>1, VehicleIsRow DEF TypeInv, TypeOK, Exists
  <2>3. /\ pc' \in {"list", "feed"} /\ item' = Null /\ found' = Null
        /\ ahead' \in SUBSET Rows
        /\ UNCHANGED <<now, inventory, unfilled, loaded, trip, candidates, faults, bare, touched,
                       raced, cycle, late>>
    BY <1>5 DEF Create, Dealt, TypeInv, TypeOK
  <2> QED
    BY <2>2, <2>3 DEF TypeInv, TypeOK, AtHand, Swept
<1>6. CASE WriteReplay \/ CrumbsFail
  BY <1>6 DEF WriteReplay, CrumbsFail, Dealt, TypeInv, TypeOK, AtHand, Swept, Exists
<1>7. CASE Write
  <2>1. /\ found \in Rows /\ Exists(found) /\ Refreshed(vehicle[found]) \in Vehicle
        /\ vehicle' = [vehicle EXCEPT ![found] = Refreshed(vehicle[found])]
        /\ item \in Items /\ ~item.listed
    BY <1>7, WrittenTyped
  <2>2. vehicle' \in [Rows -> Vehicle \cup {Null}] /\ \A q \in Rows : Exists(q) => Exists(q)'
    BY <2>1, VehicleIsRow DEF TypeInv, TypeOK, Exists
  <2>3. touched' \in [Sweeps -> SUBSET Rows]
    BY <1>7, <2>1 DEF Write, TypeInv, TypeOK
  <2>4. raced' \in SUBSET Rows /\ ahead' \in SUBSET Rows
        /\ UNCHANGED <<now, inventory, unfilled, loaded, trip, candidates, faults, bare, cycle, late>>
    BY <1>7, <2>1 DEF Write, TypeInv, TypeOK
  <2>5. \/ pc' = "trips" /\ item' = item /\ found' = found
        \/ pc' \in {"list", "feed"} /\ item' = Null /\ found' = Null
    BY <1>7 DEF Write, Dealt
  <2>6. AtHand' /\ pc' \in {"trips", "list", "feed"}
    BY <2>1, <2>2, <2>5 DEF AtHand
  <2>7. item' \in Items \cup {Null} /\ found' \in Rows \cup {Null}
    BY <2>1, <2>5
  <2> QED
    BY <2>2, <2>3, <2>4, <2>6, <2>7 DEF TypeInv, TypeOK, Swept
<1>8. CASE LoadTrips
  <2>1. loaded' \in (SUBSET (Trips \X Rows)) \cup {Null}
    BY <1>8 DEF LoadTrips, ActiveTrips, TypeInv, TypeOK
  <2> QED
    BY <1>8, <2>1 DEF LoadTrips, TypeInv, TypeOK, AtHand, Swept, Exists
<1>9. CASE Append
  <2>1. late' \in SUBSET Trips
    BY <1>9 DEF Append, TypeInv, TypeOK
  <2> QED
    BY <1>9, <2>1 DEF Append, Dealt, TypeInv, TypeOK, AtHand, Swept, Exists
<1>10. CASE StartGapFill \/ EndSync \/ SyncFails
  BY <1>10 DEF StartGapFill, EndSync, SyncFails, Idle, TypeInv, TypeOK, AtHand, Swept, Exists
<1>11. ASSUME NEW w \in Sweeps, SweepRead(w)
       PROVE  TypeInv' /\ \A r \in Rows : Exists(r) => Exists(r)'
  <2>1. candidates' \in [Sweeps -> SUBSET Rows]
        /\ \A u \in Sweeps : \A r \in candidates'[u] : r \in candidates[u] \/ Exists(r)
    BY <1>11 DEF SweepRead, TypeInv, TypeOK
  <2> QED
    BY <1>11, <2>1 DEF SweepRead, TypeInv, TypeOK, AtHand, Swept, Exists
<1>12. ASSUME NEW w \in Sweeps, NEW r \in Rows, SweepWrite(w, r)
       PROVE  TypeInv' /\ \A q \in Rows : Exists(q) => Exists(q)'
  <2>1. /\ Exists(r) /\ [vehicle[r] EXCEPT !.online = FALSE] \in Vehicle
        /\ vehicle' = [vehicle EXCEPT ![r] = [vehicle[r] EXCEPT !.online = FALSE]]
    BY <1>12, SweptTyped
  <2>2. vehicle' \in [Rows -> Vehicle \cup {Null}] /\ \A q \in Rows : Exists(q) => Exists(q)'
    BY <2>1, VehicleIsRow DEF TypeInv, TypeOK, Exists
  <2>3. /\ candidates' \in [Sweeps -> SUBSET Rows] /\ touched' \in [Sweeps -> SUBSET Rows]
        /\ raced' \in SUBSET Rows
        /\ \A u \in Sweeps : candidates'[u] \subseteq candidates[u]
    BY <1>12 DEF SweepWrite, TypeInv, TypeOK
  <2> QED
    BY <1>12, <2>2, <2>3 DEF SweepWrite, TypeInv, TypeOK, AtHand, Swept
<1>13. ASSUME NEW w \in Sweeps, SweepFails(w)
       PROVE  TypeInv' /\ \A r \in Rows : Exists(r) => Exists(r)'
  BY <1>13 DEF SweepFails, TypeInv, TypeOK, AtHand, Swept, Exists
<1>14. ASSUME NEW t \in Trips, NEW r \in Rows, TripStarts(t, r)
       PROVE  TypeInv' /\ \A q \in Rows : Exists(q) => Exists(q)'
  BY <1>14 DEF TripStarts, TypeInv, TypeOK, AtHand, Swept, Exists
<1>15. ASSUME NEW t \in Trips, TripEnds(t)
       PROVE  TypeInv' /\ \A q \in Rows : Exists(q) => Exists(q)'
  BY <1>15 DEF TripEnds, TypeInv, TypeOK, AtHand, Swept, Exists
<1>16. CASE Crash
  BY <1>16 DEF Crash, Idle, Unlisted, TypeInv, TypeOK, AtHand, Swept, Exists
<1>17. CASE UNCHANGED vars
  BY <1>17 DEF vars, TypeInv, TypeOK, AtHand, Swept, Exists
<1> QED
  BY <1>1, <1>2, <1>3, <1>4, <1>5, <1>6, <1>7, <1>8, <1>9, <1>10, <1>11, <1>12, <1>13, <1>14,
     <1>15, <1>16, <1>17 DEF Next

LEMMA InitTyped == Init => TypeInv
  BY DEF Init, Unlisted, TypeInv, TypeOK, AtHand, Swept

LEMMA TypeInvariance == Spec => []TypeInv
  BY InitTyped, StepTyped, PTL DEF Spec

\* The state of the two crons is well typed in every reachable state.
THEOREM TypeCorrect == Spec => []TypeOK
<1>1. TypeInv => TypeOK
  BY DEF TypeInv
<1> QED
  BY <1>1, TypeInvariance, PTL

-----------------------------------------------------------------------------
(* A stored fix is replaced by a later one only.                           *)

Later(r) ==
    Exists(r) /\ vehicle[r].fix # Null =>
        Exists(r)' /\ vehicle'[r].fix # Null /\ vehicle'[r].fix >= vehicle[r].fix

LEMMA LocateKeepsFix ==
    ASSUME TypeInv, NEW i \in Items, Locate(i), NEW q \in Rows, Exists(q)
    PROVE  vehicle'[q].fix = vehicle[q].fix
<1>1. CASE vehicle' = vehicle
  BY <1>1
<1>2. CASE \E r \in ByImei(i.imei) :
              Found(r, i) /\ vehicle' = [vehicle EXCEPT ![r].key = i.key]
  <2>1. PICK r \in ByImei(i.imei) : vehicle' = [vehicle EXCEPT ![r].key = i.key]
    BY <1>2
  <2>2. vehicle[q] \in Vehicle
    BY RowIsVehicle DEF TypeInv
  <2> QED
    BY <2>1, <2>2 DEF Vehicle, TypeInv, TypeOK
<1> QED
  BY <1>1, <1>2 DEF Locate

LEMMA StepLater ==
    ASSUME TypeInv, [Next]_vars, NEW q \in Rows
    PROVE  Later(q)
<1> SUFFICES ASSUME Exists(q), vehicle[q].fix # Null
             PROVE  vehicle'[q].fix # Null /\ vehicle'[q].fix >= vehicle[q].fix
  BY StepTyped DEF Later
<1>1. vehicle[q] \in Vehicle /\ vehicle[q].fix \in Nat
  BY RowIsVehicle DEF TypeInv, Vehicle, Instants
<1>2. CASE vehicle'[q].fix = vehicle[q].fix
  BY <1>1, <1>2
<1>3. ASSUME NEW d \in Devices, NEW fix \in Fixes, NEW moved \in BOOLEAN, Position(d, fix, moved)
      PROVE  vehicle'[q].fix = vehicle[q].fix
  BY <1>3, ReportedTyped, LocateKeepsFix DEF Position, TypeInv
<1>4. ASSUME NEW d \in Devices, Listed(d)
      PROVE  vehicle'[q].fix = vehicle[q].fix
  <2> DEFINE e == Entry(d, IF inventory[d] = "full" THEN d ELSE Null)
  <2>1. e \in Items /\ Locate(e)
    BY <1>4, EntryTyped DEF Listed
  <2> HIDE DEF e
  <2> QED
    BY <2>1, LocateKeepsFix
<1>5. ASSUME NEW r \in Rows, Create(r)
      PROVE  vehicle'[q].fix = vehicle[q].fix
  BY <1>5, CreatedTyped DEF Create, Exists, TypeInv, TypeOK
<1>6. CASE Write
  <2>1. /\ found \in Rows /\ item \in Items
        /\ vehicle' = [vehicle EXCEPT ![found] = Refreshed(vehicle[found])]
        /\ Refreshed(vehicle[found]).fix =
             (IF item.fix # Null THEN item.fix ELSE vehicle[found].fix)
    BY <1>6, WrittenTyped
  <2>2. CASE found # q
    BY <1>2, <2>1, <2>2 DEF TypeInv, TypeOK
  <2>3. CASE found = q
    <3>1. vehicle'[q].fix = IF item.fix # Null THEN item.fix ELSE vehicle[q].fix
      BY <2>1, <2>3 DEF TypeInv, TypeOK
    <3>2. item.fix # Null => item.fix \in Nat /\ ~(item.fix < vehicle[q].fix)
      BY <1>6, <2>1, <2>3 DEF Write, Replay, Items, Instants
    <3> QED
      BY <1>1, <3>1, <3>2
  <2> QED
    BY <2>2, <2>3
<1>7. ASSUME NEW w \in Sweeps, NEW r \in Rows, SweepWrite(w, r)
      PROVE  vehicle'[q].fix = vehicle[q].fix
  <2>1. /\ vehicle[r] \in Vehicle
        /\ vehicle' = [vehicle EXCEPT ![r] = [vehicle[r] EXCEPT !.online = FALSE]]
    BY <1>7, SweptTyped
  <2> QED
    BY <2>1 DEF Vehicle, TypeInv, TypeOK
<1>8. ASSUME UNCHANGED vehicle
      PROVE  vehicle'[q].fix = vehicle[q].fix
  BY <1>8
<1> QED
  BY <1>2, <1>3, <1>4, <1>5, <1>6, <1>7, <1>8
     DEF Next, vars, Advance, StartSync, WriteReplay, LoadTrips, Append, CrumbsFail, StartGapFill,
         EndSync, SyncFails, SweepRead, SweepFails, TripStarts, TripEnds, Crash

\* However late, twice or undated positions are served, and whatever fails or dies,
\* the stored fix of a vehicle only moves forward (isStaleReplay).
THEOREM FixesOnlyAdvance == Spec => FixNeverGoesBack
<1>1. TypeInv /\ [Next]_vars =>
          [\A r \in Rows :
              Exists(r) /\ vehicle[r].fix # Null =>
                  Exists(r)' /\ vehicle'[r].fix # Null /\ vehicle'[r].fix >= vehicle[r].fix]_vars
  <2> SUFFICES ASSUME TypeInv, [Next]_vars PROVE \A r \in Rows : Later(r)
    BY DEF Later
  <2> QED
    BY StepLater
<1> QED
  BY <1>1, TypeInvariance, PTL DEF Spec, FixNeverGoesBack

-----------------------------------------------------------------------------
(* The trips a sync has loaded were all active during it.                  *)

CrumbInv ==
    /\ pc # "idle" => ActiveTrips \subseteq cycle
    /\ pc = "idle" => loaded = Null
    /\ loaded # Null \/ pc = "append" =>
           \A t \in Trips, r \in Rows : <<t, r>> \in loaded => t \in cycle
    /\ late = {}

LEMMA CrumbStep == TypeInv /\ CrumbInv /\ [Next]_vars => CrumbInv'
<1> SUFFICES ASSUME TypeInv, CrumbInv, [Next]_vars PROVE CrumbInv'
  OBVIOUS
<1> USE DEF syncVars, histories
<1>1. CASE LoadTrips
  BY <1>1 DEF LoadTrips, CrumbInv, ActiveTrips
<1>2. CASE Append
  BY <1>2 DEF Append, Dealt, CrumbInv, ActiveTrips, TypeInv, AtHand
<1>3. ASSUME NEW t \in Trips, NEW r \in Rows, TripStarts(t, r)
      PROVE  CrumbInv'
  BY <1>3 DEF TripStarts, CrumbInv, ActiveTrips, TypeInv, TypeOK
<1>4. ASSUME NEW t \in Trips, TripEnds(t)
      PROVE  CrumbInv'
  BY <1>4 DEF TripEnds, CrumbInv, ActiveTrips, TypeInv, TypeOK
<1>5. ASSUME NEW i, Locate(i), pc \in {"feed", "list"},
             UNCHANGED <<loaded, trip, cycle, late>>
      PROVE  CrumbInv'
  <2>1. pc' \in {"feed", "create", "write", "list"}
    BY <1>5 DEF Locate, Found
  <2> QED
    BY <1>5, <2>1 DEF CrumbInv, ActiveTrips
<1>6. CASE StartSync
  BY <1>6 DEF StartSync, CrumbInv, ActiveTrips
<1>7. CASE EndSync \/ SyncFails \/ Crash
  BY <1>7 DEF EndSync, SyncFails, Crash, Idle, CrumbInv
<1>8. CASE WriteReplay \/ Write \/ CrumbsFail \/ StartGapFill \/ \E r \in Rows : Create(r)
  BY <1>8 DEF WriteReplay, Write, CrumbsFail, StartGapFill, Create, Dealt, CrumbInv, ActiveTrips
<1>9. ASSUME UNCHANGED <<pc, loaded, trip, cycle, late>>
      PROVE  CrumbInv'
  BY <1>9 DEF CrumbInv, ActiveTrips
<1>10. ASSUME NEW d \in Devices, Listed(d) \/ \E fix \in Fixes, moved \in BOOLEAN : Position(d, fix, moved)
       PROVE  CrumbInv'
  BY <1>5, <1>10 DEF Listed, Position
<1> QED
  BY <1>1, <1>2, <1>3, <1>4, <1>6, <1>7, <1>8, <1>9, <1>10
     DEF Next, vars, Advance, SweepRead, SweepWrite, SweepFails

\* No trip is given breadcrumbs by a sync during which it was never active.
THEOREM CrumbsStayInTime == Spec => []CrumbsInTime
<1>1. Init => CrumbInv
  BY DEF Init, CrumbInv
<1>2. CrumbInv => CrumbsInTime
  BY DEF CrumbInv, CrumbsInTime
<1> QED
  BY <1>1, <1>2, CrumbStep, InitTyped, StepTyped, PTL DEF Spec

-----------------------------------------------------------------------------
(* One row per device.  A row's IMEI, when it has one, is its device's; a   *)
(* device whose identity is always known has a row under that identity,    *)
(* and any other device that was never listed without an IMEI has a row    *)
(* that carries its IMEI: one of the two lookups finds the row.            *)

Identified(r) ==
    /\ vehicle[r].imei \in {Null, DeviceOf(r)}
    /\ DeviceOf(r) \in Plated => vehicle[r].key = <<"id", DeviceOf(r)>>
    /\ DeviceOf(r) \notin bare \cup Plated => vehicle[r].imei = DeviceOf(r)

\* The item at hand names its device the same way.
Named(i) ==
    /\ i.key \in {<<"id", i.device>>, <<"imei", i.device>>}
    /\ i.device \in Plated => i.key = <<"id", i.device>>
    /\ i.imei \in {Null, i.device}
    /\ i.device \notin bare \cup Plated => i.imei = i.device

ListingInv ==
    /\ \A d \in Devices : inventory[d] = "bare" => d \in bare
    /\ \A d \in Plated : inventory[d] = "absent"
    /\ \A d \in unfilled : inventory[d] # "absent"
    /\ pc = "idle" => unfilled = {}

IdentityInv ==
    /\ \A r \in Rows : Exists(r) => Identified(r)
    /\ pc \in {"create", "write"} => Named(item)
    /\ pc = "write" => DeviceOf(found) = item.device
    /\ pc = "create" =>
           \A r \in Rows : Exists(r) /\ DeviceOf(r) = item.device => item.device \in bare

OneInv == ListingInv /\ IdentityInv /\ OneRowPerDevice

LEMMA KeyOfDevice ==
    ASSUME NEW key \in Keys
    PROVE  key[2] \in Devices /\ key \in {<<"id", key[2]>>, <<"imei", key[2]>>}
  BY DEF Keys

LEMMA LocateIdentity ==
    ASSUME TypeInv, OneInv, NEW i \in Items, Named(i), Locate(i), UNCHANGED bare
    PROVE  IdentityInv' /\ OneRowPerDevice'
<1>1. /\ i.device \in Devices /\ i.device # Null /\ i.key[2] = i.device /\ i.key \in Keys
      /\ i.imei \in Devices \cup {Null}
  BY DeviceAssumption DEF Named, Items
<1>2. ASSUME vehicle' = vehicle
      PROVE  /\ \A r \in Rows : Exists(r)' => Identified(r)'
             /\ OneRowPerDevice'
             /\ \A r \in Rows : DeviceOf(r)' = DeviceOf(r) /\ (Exists(r)' <=> Exists(r))
  BY <1>2 DEF OneInv, IdentityInv, OneRowPerDevice, Identified, DeviceOf, Exists
<1>3. Named(i)'
  BY DEF Named
<1>4. CASE \E r \in ByKey(i.key) : Found(r, i) /\ vehicle' = vehicle
  <2>1. PICK r \in ByKey(i.key) : Found(r, i) /\ vehicle' = vehicle
    BY <1>4
  <2>2. r \in Rows /\ Exists(r) /\ DeviceOf(r) = i.device
    BY <1>1, <2>1 DEF ByKey, DeviceOf
  <2>3. pc' = "list" \/ (pc' = "write" /\ item' = i /\ found' = r)
    BY <2>1 DEF Found
  <2>4. DeviceOf(r)' = i.device
    BY <1>2, <2>1, <2>2
  <2>5. CASE pc' = "list"
    BY <1>2, <2>1, <2>5 DEF IdentityInv
  <2>6. CASE pc' = "write" /\ item' = i /\ found' = r
    <3>1. Named(item)' /\ DeviceOf(found)' = item'.device
      BY <1>3, <2>4, <2>6 DEF Named, DeviceOf
    <3> QED
      BY <1>2, <2>1, <2>6, <3>1 DEF IdentityInv
  <2> QED
    BY <2>3, <2>5, <2>6
<1>5. CASE \E r \in ByImei(i.imei) :
              Found(r, i) /\ vehicle' = [vehicle EXCEPT ![r].key = i.key]
  <2>1. PICK r \in ByImei(i.imei) :
              Found(r, i) /\ vehicle' = [vehicle EXCEPT ![r].key = i.key]
    BY <1>5
  <2>2. r \in Rows /\ Exists(r) /\ i.imei # Null /\ vehicle[r].imei = i.imei
    BY <2>1 DEF ByImei
  <2>3. Identified(r) /\ i.imei = i.device /\ DeviceOf(r) = i.device
    BY <1>1, <2>2 DEF OneInv, IdentityInv, Identified, Named
  <2>4. vehicle[r] \in Vehicle /\ r \in DOMAIN vehicle
    BY <2>2, RowIsVehicle DEF TypeInv, TypeOK
  <2>5. vehicle'[r] = [vehicle[r] EXCEPT !.key = i.key]
    BY <2>1, <2>4
  <2>6. /\ vehicle'[r].key = i.key /\ vehicle'[r].imei = i.imei
    BY <2>2, <2>4, <2>5 DEF Vehicle
  <2>7. DeviceOf(r)' = i.device
    BY <1>1, <2>6 DEF DeviceOf
  <2>8. \A q \in Rows : q # r => vehicle'[q] = vehicle[q]
    BY <2>1
  <2>9. \A q \in Rows : DeviceOf(q)' = DeviceOf(q) /\ (Exists(q)' => Exists(q))
    BY <2>2, <2>3, <2>7, <2>8 DEF DeviceOf, Exists
  <2>10. Identified(r)'
    BY <1>1, <2>3, <2>6, <2>7 DEF Identified, Named
  <2>11. \A q \in Rows : Exists(q)' => Identified(q)'
    <3>1. ASSUME NEW q \in Rows, Exists(q)', q # r PROVE Identified(q)'
      BY <2>8, <2>9, <3>1 DEF OneInv, IdentityInv, Identified, DeviceOf
    <3> QED
      BY <2>10, <3>1
  <2>12. OneRowPerDevice'
    BY <2>9 DEF OneInv, OneRowPerDevice
  <2>13. pc' = "list" \/ (pc' = "write" /\ item' = i /\ found' = r)
    BY <2>1 DEF Found
  <2>14. pc' = "write" => Named(item)' /\ DeviceOf(found)' = item'.device
    BY <1>3, <2>7, <2>13 DEF Named, DeviceOf
  <2> QED
    BY <2>11, <2>12, <2>13, <2>14 DEF IdentityInv
<1>6. CASE /\ ByKey(i.key) = {} /\ ByImei(i.imei) = {}
           /\ IF i.fallback THEN pc' = "feed" /\ item' = Null /\ found' = Null
                            ELSE pc' = "create" /\ item' = i /\ found' = Null
           /\ vehicle' = vehicle
  <2>1. ASSUME NEW r \in Rows, Exists(r), DeviceOf(r) = i.device PROVE i.device \in bare
    <3>1. Identified(r) /\ vehicle[r].key # i.key
      BY <1>6, <2>1 DEF ByKey, OneInv, IdentityInv
    <3>2. i.device \notin Plated
      BY <2>1, <3>1 DEF Identified, Named
    <3>3. CASE i.device \notin bare
      <4>1. vehicle[r].imei = i.device /\ i.imei = i.device
        BY <2>1, <3>1, <3>2, <3>3 DEF Identified, Named
      <4>2. r \in ByImei(i.imei)
        BY <1>1, <2>1, <4>1 DEF ByImei
      <4> QED
        BY <1>6, <4>2
    <3> QED
      BY <3>3
  <2>2. CASE pc' = "create" /\ item' = i
    <3>1. Named(item)'
      BY <1>3, <2>2 DEF Named
    <3>2. \A r \in Rows : Exists(r)' /\ DeviceOf(r)' = item'.device => item'.device \in bare'
      BY <1>2, <1>6, <2>1, <2>2
    <3> QED
      BY <1>2, <1>6, <2>2, <3>1, <3>2 DEF IdentityInv
  <2>3. CASE pc' = "feed"
    BY <1>2, <1>6, <2>3 DEF IdentityInv
  <2> QED
    BY <1>6, <2>2, <2>3
<1> QED
  BY <1>4, <1>5, <1>6 DEF Locate

\* A step that leaves identities and the item at hand alone.
LEMMA IdentityKept ==
    ASSUME IdentityInv, OneRowPerDevice, bare \subseteq bare',
           \A r \in Rows : Exists(r)' => /\ Exists(r) /\ vehicle'[r].key = vehicle[r].key
                                         /\ vehicle'[r].imei = vehicle[r].imei,
           \/ pc' \notin {"create", "write"}
           \/ /\ UNCHANGED <<pc, item, found, bare>>
              /\ pc = "write" => vehicle'[found].key = vehicle[found].key
    PROVE  IdentityInv' /\ OneRowPerDevice'
<1>1. ASSUME NEW r \in Rows, Exists(r)'
      PROVE  Exists(r) /\ DeviceOf(r)' = DeviceOf(r) /\ Identified(r)'
  BY <1>1 DEF IdentityInv, Identified, DeviceOf
<1>2. OneRowPerDevice'
  BY <1>1 DEF OneRowPerDevice
<1>3. CASE pc' \notin {"create", "write"}
  BY <1>1, <1>2, <1>3 DEF IdentityInv
<1>4. CASE UNCHANGED <<pc, item, found, bare>>
           /\ (pc = "write" => vehicle'[found].key = vehicle[found].key)
  <2>1. Named(item)' <=> Named(item)
    BY <1>4 DEF Named
  <2>2. pc = "write" => DeviceOf(found)' = DeviceOf(found)
    BY <1>4 DEF DeviceOf
  <2> QED
    BY <1>1, <1>2, <1>4, <2>1, <2>2 DEF IdentityInv
<1> QED
  BY <1>3, <1>4

LEMMA ListingStep == TypeInv /\ ListingInv /\ [Next]_vars => ListingInv' /\ bare \subseteq bare'
<1> SUFFICES ASSUME TypeInv, ListingInv, [Next]_vars PROVE ListingInv' /\ bare \subseteq bare'
  OBVIOUS
<1> USE DEF syncVars, histories
<1>1. CASE StartSync
  <2>1. /\ inventory' \in [Devices -> {"absent", "bare", "full"}]
        /\ bare' = bare \cup {d \in Devices : inventory'[d] = "bare"}
        /\ unfilled' = unfilled /\ unfilled = {} /\ pc' = "feed"
    BY <1>1 DEF StartSync, ListingInv
  <2>2. \A d \in Plated : inventory'[d] = "absent"
    BY <1>1 DEF StartSync, ListingInv
  <2> QED
    BY <2>1, <2>2 DEF ListingInv
<1>2. CASE StartGapFill
  BY <1>2 DEF StartGapFill, ListingInv
<1>3. CASE EndSync \/ SyncFails
  BY <1>3 DEF EndSync, SyncFails, Idle, ListingInv
<1>4. CASE Crash
  BY <1>4, DeviceAssumption DEF Crash, Idle, Unlisted, ListingInv
<1>5. ASSUME NEW i, Locate(i), pc # "idle", UNCHANGED <<inventory, bare>>,
             unfilled' \subseteq unfilled
      PROVE  ListingInv' /\ bare \subseteq bare'
  <2>1. pc' # "idle"
    BY <1>5 DEF Locate, Found
  <2> QED
    BY <1>5, <2>1 DEF ListingInv
<1>6. ASSUME NEW d \in Devices, Listed(d) \/ \E fix \in Fixes, moved \in BOOLEAN : Position(d, fix, moved)
      PROVE  ListingInv' /\ bare \subseteq bare'
  BY <1>5, <1>6 DEF Listed, Position
<1>7. CASE WriteReplay \/ Write \/ CrumbsFail \/ Append \/ LoadTrips \/ \E r \in Rows : Create(r)
  BY <1>7 DEF WriteReplay, Write, CrumbsFail, Append, LoadTrips, Create, Dealt, ListingInv
<1>8. ASSUME UNCHANGED <<pc, inventory, unfilled, bare>>
      PROVE  ListingInv' /\ bare \subseteq bare'
  BY <1>8 DEF ListingInv
<1> QED
  BY <1>1, <1>2, <1>3, <1>4, <1>6, <1>7, <1>8
     DEF Next, vars, Advance, SweepRead, SweepWrite, SweepFails, TripStarts, TripEnds

LEMMA IdentityStep == TypeInv /\ OneInv /\ [Next]_vars => IdentityInv' /\ OneRowPerDevice'
<1> SUFFICES ASSUME TypeInv, OneInv, [Next]_vars PROVE IdentityInv' /\ OneRowPerDevice'
  OBVIOUS
<1> USE DEF syncVars, histories
<1>0. IdentityInv /\ OneRowPerDevice /\ ListingInv /\ bare \subseteq bare'
  BY ListingStep DEF OneInv
<1>1. ASSUME NEW d \in Devices, NEW fix \in Fixes, NEW moved \in BOOLEAN, Position(d, fix, moved)
      PROVE  IdentityInv' /\ OneRowPerDevice'
  <2> DEFINE i == Reported(d, fix, moved)
  <2>1. i \in Items /\ Locate(i) /\ UNCHANGED bare
    BY <1>1, ReportedTyped DEF Position, TypeInv
  <2>2. Named(i)
    BY DEF Reported, Named, Resolved
  <2> HIDE DEF i
  <2> QED
    BY <2>1, <2>2, LocateIdentity
<1>2. ASSUME NEW d \in Devices, Listed(d)
      PROVE  IdentityInv' /\ OneRowPerDevice'
  <2> DEFINE i == Entry(d, IF inventory[d] = "full" THEN d ELSE Null)
  <2>1. i \in Items /\ Locate(i) /\ UNCHANGED bare
    BY <1>2, EntryTyped DEF Listed
  <2>2. d \notin Plated /\ (inventory[d] # "full" => d \in bare)
    <3>1. inventory[d] # "absent" /\ inventory[d] \in {"absent", "bare", "full"}
      BY <1>0, <1>2 DEF Listed, ListingInv, TypeInv, TypeOK
    <3> QED
      BY <1>0, <3>1 DEF ListingInv
  <2>3. Named(i)
    BY <2>2 DEF Entry, Named
  <2> HIDE DEF i
  <2> QED
    BY <2>1, <2>3, LocateIdentity
<1>3. ASSUME NEW r \in Rows, Create(r)
      PROVE  IdentityInv' /\ OneRowPerDevice'
  <2>1. /\ NewRow \in Vehicle /\ vehicle' = [vehicle EXCEPT ![r] = NewRow] /\ item \in Items
        /\ r \in DOMAIN vehicle
    BY <1>3, CreatedTyped DEF TypeInv, TypeOK
  <2>2. ~Exists(r) /\ Named(item) /\ bare' = bare /\ pc' \in {"list", "feed"}
        /\ \A q \in Rows : Exists(q) /\ DeviceOf(q) = item.device => item.device \in bare
    BY <1>0, <1>3 DEF Create, Dealt, IdentityInv
  <2>3. vehicle'[r] = NewRow /\ \A q \in Rows : q # r => vehicle'[q] = vehicle[q]
    BY <2>1
  <2>4. vehicle'[r].key = item.key /\ vehicle'[r].imei = item.imei
    BY <2>3 DEF NewRow
  <2>5. DeviceOf(r)' = item.device
    BY <2>2, <2>4 DEF DeviceOf, Named
  <2>6. Identified(r)'
    BY <2>2, <2>4, <2>5 DEF Identified, Named
  <2>7. ASSUME NEW q \in Rows, q # r, Exists(q)'
        PROVE  Exists(q) /\ DeviceOf(q)' = DeviceOf(q) /\ Identified(q)'
    BY <1>0, <2>2, <2>3, <2>7 DEF IdentityInv, Identified, DeviceOf, Exists
  <2>8. \A q, u \in Rows : q # u /\ Exists(q)' /\ Exists(u)' /\ DeviceOf(q)' = DeviceOf(u)'
                              => DeviceOf(q)' \in bare'
    BY <1>0, <2>2, <2>5, <2>7 DEF OneRowPerDevice
  <2> QED
    BY <2>2, <2>6, <2>7, <2>8 DEF IdentityInv, OneRowPerDevice
<1>4. CASE Write
  <2>1. PICK r \in Rows : r = found
    BY <1>4, WrittenTyped
  <2>2. /\ item \in Items /\ Exists(r) /\ r \in DOMAIN vehicle
        /\ vehicle' = [vehicle EXCEPT ![r] = Refreshed(vehicle[r])]
        /\ Refreshed(vehicle[r]).key = vehicle[r].key
        /\ Refreshed(vehicle[r]).imei =
             (IF item.imei # Null THEN item.imei ELSE vehicle[r].imei)
    BY <1>4, <2>1, WrittenTyped DEF TypeInv, TypeOK
  <2>3. pc = "write" /\ bare' = bare /\ pc' \in {"trips", "list", "feed"}
    BY <1>4 DEF Write, Dealt
  <2>4. Named(item) /\ DeviceOf(r) = item.device /\ Identified(r)
    BY <1>0, <2>1, <2>2, <2>3 DEF IdentityInv
  <2>5. vehicle'[r] = Refreshed(vehicle[r]) /\ \A q \in Rows : q # r => vehicle'[q] = vehicle[q]
    BY <2>2
  <2>6. /\ \A q \in Rows : DeviceOf(q)' = DeviceOf(q)
        /\ \A q \in Rows : Exists(q)' => Exists(q)
    BY <2>2, <2>5 DEF DeviceOf, Exists
  <2>7. Identified(r)'
    <3>1. /\ vehicle'[r].key = vehicle[r].key
          /\ vehicle'[r].imei = IF item.imei # Null THEN item.imei ELSE vehicle[r].imei
      BY <2>2, <2>5
    <3>2. DeviceOf(r)' = item.device
      BY <2>4, <2>6
    <3> QED
      BY <2>3, <2>4, <3>1, <3>2 DEF Identified, Named
  <2>8. ASSUME NEW q \in Rows, q # r, Exists(q)' PROVE Identified(q)'
    BY <1>0, <2>3, <2>5, <2>6, <2>8 DEF IdentityInv, Identified, DeviceOf, Exists
  <2>9. OneRowPerDevice'
    BY <1>0, <2>3, <2>6 DEF OneRowPerDevice
  <2>10. \A q \in Rows : Exists(q)' => Identified(q)'
    BY <2>7, <2>8
  <2> QED
    BY <2>3, <2>9, <2>10 DEF IdentityInv
<1>5. ASSUME NEW w \in Sweeps, NEW r \in Rows, SweepWrite(w, r)
      PROVE  IdentityInv' /\ OneRowPerDevice'
  <2>1. /\ Exists(r) /\ vehicle[r] \in Vehicle /\ r \in DOMAIN vehicle
        /\ vehicle' = [vehicle EXCEPT ![r] = [vehicle[r] EXCEPT !.online = FALSE]]
    BY <1>5, SweptTyped DEF TypeInv, TypeOK
  <2>2. vehicle'[r].key = vehicle[r].key /\ vehicle'[r].imei = vehicle[r].imei
    BY <2>1 DEF Vehicle
  <2>3. \A q \in Rows : Exists(q)' => /\ Exists(q) /\ vehicle'[q].key = vehicle[q].key
                                      /\ vehicle'[q].imei = vehicle[q].imei
    BY <2>1, <2>2 DEF Exists
  <2>4. UNCHANGED <<pc, item, found, bare>>
        /\ (pc = "write" => vehicle'[found].key = vehicle[found].key)
    BY <1>5, <2>1, <2>2 DEF SweepWrite, TypeInv, AtHand
  <2> QED
    BY <1>0, <2>3, <2>4, IdentityKept
<1>6. CASE /\ UNCHANGED vehicle
           /\ pc' \notin {"create", "write"} \/ UNCHANGED <<pc, item, found, bare>>
  BY <1>0, <1>6, IdentityKept DEF Exists
<1>7. StartSync \/ WriteReplay \/ LoadTrips \/ Append \/ CrumbsFail \/ StartGapFill \/ EndSync
      \/ SyncFails \/ Crash
         => UNCHANGED vehicle /\ pc' \notin {"create", "write"}
  BY DEF StartSync, WriteReplay, LoadTrips, Append, CrumbsFail, StartGapFill, EndSync,
         SyncFails, Crash, Dealt, Idle
<1>8. Advance \/ (\E w \in Sweeps : SweepRead(w) \/ SweepFails(w))
      \/ (\E t \in Trips, r \in Rows : TripStarts(t, r)) \/ (\E t \in Trips : TripEnds(t))
      \/ UNCHANGED vars
         => UNCHANGED <<vehicle, pc, item, found, bare>>
  BY DEF Advance, SweepRead, SweepFails, TripStarts, TripEnds, vars
<1> QED
  BY <1>1, <1>2, <1>3, <1>4, <1>5, <1>6, <1>7, <1>8 DEF Next

\* No device ever has two rows, unless a listing has named it without its IMEI:
\* the deferral of unproven identities and the two lookups suffice, for any number
\* of devices and wherever the sync fails or the process dies.
THEOREM OneRowEach == Spec => []OneRowPerDevice
<1>1. Init => OneInv
  BY DeviceAssumption
     DEF Init, Unlisted, OneInv, ListingInv, IdentityInv, OneRowPerDevice, Exists
<1>2. TypeInv /\ OneInv /\ [Next]_vars => TypeInv' /\ OneInv'
  <2> SUFFICES ASSUME TypeInv, OneInv, [Next]_vars PROVE TypeInv' /\ OneInv'
    OBVIOUS
  <2>1. TypeInv' /\ ListingInv' /\ IdentityInv' /\ OneRowPerDevice'
    BY StepTyped, ListingStep, IdentityStep DEF OneInv
  <2> QED
    BY <2>1 DEF OneInv
<1>3. OneInv => OneRowPerDevice
  BY DEF OneInv
<1> QED
  BY <1>1, <1>2, <1>3, InitTyped, PTL DEF Spec

-----------------------------------------------------------------------------
(* Who takes a fresh vehicle offline.  A fix that was not ahead of the      *)
(* clock when it came can only age, so what was too old when it was judged *)
(* or read is still too old when it is written.                            *)

Aged(fix) == now - fix > Window
Plausible(fix) == fix <= now + Skew

JudgedInv ==
    pc \in {"create", "write"} =>
        /\ item.listed => item.fix = Null
        /\ item.fix = Null => item.fresh \/ item.listed
        /\ item.fix # Null =>
               /\ item.ahead \/ Plausible(item.fix)
               /\ item.fresh \/ item.ahead \/ Aged(item.fix)

RowFix(r) ==
    Exists(r) /\ vehicle[r].fix # Null =>
        /\ r \in ahead \/ Plausible(vehicle[r].fix)
        /\ vehicle[r].online \/ r \in raced \cup ahead \/ Aged(vehicle[r].fix)

Candidate(w, r) ==
    r \in candidates[w] \ touched[w] /\ vehicle[r].fix # Null =>
        r \in ahead \/ Aged(vehicle[r].fix)

AgeInv ==
    /\ JudgedInv
    /\ \A r \in Rows : RowFix(r)
    /\ \A w \in Sweeps, r \in Rows : Candidate(w, r)

\* What a step that leaves a row's fix alone must not do to it.
LEMMA RowFixKept ==
    ASSUME TypeInv, AgeInv, NEW r \in Rows, now <= now', now' \in Nat,
           Exists(r)' => /\ Exists(r) /\ vehicle'[r].fix = vehicle[r].fix
                         /\ vehicle[r].online => vehicle'[r].online,
           r \in ahead => r \in ahead', r \in raced => r \in raced'
    PROVE  RowFix(r)'
<1>1. Exists(r)' /\ vehicle'[r].fix # Null => vehicle[r].fix \in Nat /\ now \in Nat
  BY RowIsVehicle DEF TypeInv, TypeOK, Vehicle, Instants
<1> QED
  BY <1>1, TimeAssumption DEF AgeInv, RowFix, Plausible, Aged

LEMMA CandidateKept ==
    ASSUME TypeInv, AgeInv, NEW w \in Sweeps, NEW r \in Rows, now <= now', now' \in Nat,
           r \in candidates'[w] \ touched'[w] =>
               r \in candidates[w] \ touched[w] /\ vehicle'[r].fix = vehicle[r].fix,
           r \in ahead => r \in ahead'
    PROVE  Candidate(w, r)'
<1>1. r \in candidates[w] /\ vehicle[r].fix # Null => vehicle[r].fix \in Nat /\ now \in Nat
  BY RowIsVehicle DEF TypeInv, TypeOK, Swept, Vehicle, Instants
<1> QED
  BY <1>1, TimeAssumption DEF AgeInv, Candidate, Aged

LEMMA JudgedKept ==
    ASSUME TypeInv, AgeInv, now <= now', now' \in Nat,
           pc' \notin {"create", "write"} \/ UNCHANGED <<pc, item>>
    PROVE  JudgedInv'
<1>1. CASE pc' \notin {"create", "write"}
  BY <1>1 DEF JudgedInv
<1>2. CASE UNCHANGED <<pc, item>> /\ pc \in {"create", "write"}
  <2>1. item \in Items /\ now \in Nat
    BY <1>2 DEF TypeInv, TypeOK, AtHand
  <2>2. item.fix # Null => item.fix \in Nat
    BY <2>1 DEF Items, Instants
  <2> QED
    BY <1>2, <2>1, <2>2, TimeAssumption DEF AgeInv, JudgedInv, Plausible, Aged
<1> QED
  BY <1>1, <1>2

LEMMA LocateAges ==
    ASSUME TypeInv, AgeInv, NEW i \in Items, Locate(i),
           UNCHANGED <<now, candidates, touched, raced, ahead>>,
           i.listed => i.fix = Null,
           i.fix = Null => i.fresh \/ i.listed,
           i.fix # Null => /\ i.ahead \/ Plausible(i.fix)
                           /\ i.fresh \/ i.ahead \/ Aged(i.fix)
    PROVE  AgeInv'
<1>0. now \in Nat /\ now <= now' /\ now' = now
  BY DEF TypeInv, TypeOK
<1>1. \A q \in Rows : Exists(q)' =>
          Exists(q) /\ vehicle'[q].fix = vehicle[q].fix /\ vehicle'[q].online = vehicle[q].online
  <2>1. CASE vehicle' = vehicle
    BY <2>1 DEF Exists
  <2>2. CASE \E r \in ByImei(i.imei) :
                Found(r, i) /\ vehicle' = [vehicle EXCEPT ![r].key = i.key]
    <3>1. PICK r \in ByImei(i.imei) : vehicle' = [vehicle EXCEPT ![r].key = i.key]
      BY <2>2
    <3>2. r \in Rows /\ Exists(r)
      BY <3>1 DEF ByImei
    <3>3. vehicle[r] \in Vehicle /\ r \in DOMAIN vehicle
      BY <3>2, RowIsVehicle DEF TypeInv, TypeOK
    <3>4. vehicle'[r].fix = vehicle[r].fix /\ vehicle'[r].online = vehicle[r].online
      BY <3>1, <3>3 DEF Vehicle
    <3> QED
      BY <3>1, <3>2, <3>4 DEF Exists
  <2> QED
    BY <2>1, <2>2 DEF Locate
<1>2. \A r \in Rows : RowFix(r)'
  BY <1>0, <1>1, RowFixKept
<1>3. ASSUME NEW w \in Sweeps, NEW r \in Rows PROVE Candidate(w, r)'
  <2>1. r \in candidates[w] => Exists(r)'
    BY LocateTyped DEF TypeInv, Swept
  <2> QED
    BY <1>0, <1>1, <2>1, CandidateKept
<1>4. JudgedInv'
  <2>1. pc' \in {"create", "write"} => item' = i
    BY DEF Locate, Found
  <2>2. CASE item' = i
    BY <1>0, <2>2 DEF JudgedInv, Plausible, Aged
  <2> QED
    BY <2>1, <2>2 DEF JudgedInv
<1> QED
  BY <1>2, <1>3, <1>4 DEF AgeInv

LEMMA ReportedJudged ==
    ASSUME TypeOK, NEW d \in Devices, NEW fix \in Fixes, NEW moved \in BOOLEAN
    PROVE  LET i == Reported(d, fix, moved)
           IN /\ ~i.listed /\ (i.fix = Null => i.fresh)
              /\ i.fix # Null => /\ i.ahead \/ Plausible(i.fix)
                                 /\ i.fresh \/ i.ahead \/ Aged(i.fix)
<1>1. fix # Null => fix \in Nat /\ now \in Nat
  BY TimeAssumption DEF Fixes, TypeOK
<1>2. fix # Null => Ahead(fix) \/ Plausible(fix)
  BY <1>1, TimeAssumption DEF Ahead, Plausible
<1>3. fix # Null => Fresh(fix) \/ Ahead(fix) \/ Aged(fix)
  BY <1>1, TimeAssumption DEF Fresh, Aged
<1> QED
  BY <1>2, <1>3 DEF Reported

LEMMA AgeStep == TypeInv /\ AgeInv /\ [Next]_vars => AgeInv'
<1> SUFFICES ASSUME TypeInv, AgeInv, [Next]_vars PROVE AgeInv'
  OBVIOUS
<1> USE DEF syncVars, histories
<1>0. now \in Nat
  BY DEF TypeInv, TypeOK
<1>1. ASSUME NEW d \in Devices, NEW fix \in Fixes, NEW moved \in BOOLEAN, Position(d, fix, moved)
      PROVE  AgeInv'
  <2> DEFINE i == Reported(d, fix, moved)
  <2>1. /\ i \in Items /\ Locate(i) /\ UNCHANGED <<now, candidates, touched, raced, ahead>>
    BY <1>1, ReportedTyped DEF Position, TypeInv
  <2>2. /\ ~i.listed /\ (i.fix = Null => i.fresh)
        /\ i.fix # Null => /\ i.ahead \/ Plausible(i.fix)
                           /\ i.fresh \/ i.ahead \/ Aged(i.fix)
    BY ReportedJudged DEF TypeInv
  <2> HIDE DEF i
  <2> QED
    BY <2>1, <2>2, LocateAges
<1>2. ASSUME NEW d \in Devices, Listed(d)
      PROVE  AgeInv'
  <2> DEFINE i == Entry(d, IF inventory[d] = "full" THEN d ELSE Null)
  <2>1. i \in Items /\ Locate(i)
    BY <1>2, EntryTyped DEF Listed
  <2>2. UNCHANGED <<now, candidates, touched, raced, ahead>>
    BY <1>2 DEF Listed
  <2>3. i.listed /\ i.fix = Null
    BY DEF Entry
  <2> HIDE DEF i
  <2> QED
    BY <2>1, <2>2, <2>3, LocateAges
<1>3. ASSUME NEW r \in Rows, Create(r)
      PROVE  AgeInv'
  <2>1. /\ NewRow \in Vehicle /\ vehicle' = [vehicle EXCEPT ![r] = NewRow] /\ item \in Items
        /\ r \in DOMAIN vehicle
    BY <1>3, CreatedTyped DEF TypeInv, TypeOK
  <2>2. /\ ~Exists(r) /\ pc = "create" /\ pc' \in {"list", "feed"}
        /\ ahead' = (IF item.ahead THEN ahead \cup {r} ELSE ahead)
        /\ UNCHANGED <<now, candidates, touched, raced>>
    BY <1>3 DEF Create, Dealt
  <2>3. vehicle'[r].fix = item.fix /\ vehicle'[r].online = (IF item.listed THEN FALSE ELSE item.fresh)
    BY <2>1 DEF NewRow
  <2>4. RowFix(r)'
    BY <2>2, <2>3 DEF RowFix, AgeInv, JudgedInv, Plausible, Aged
  <2>5. \A q \in Rows : q # r => vehicle'[q] = vehicle[q]
    BY <2>1
  <2>6. ASSUME NEW q \in Rows, q # r PROVE RowFix(q)'
    <3>1. Exists(q)' => Exists(q) /\ vehicle'[q] = vehicle[q]
      BY <2>5, <2>6 DEF Exists
    <3> QED
      BY <1>0, <2>2, <3>1, RowFixKept
  <2>7. ASSUME NEW w \in Sweeps, NEW q \in Rows PROVE Candidate(w, q)'
    <3>1. q \in candidates[w] => q # r
      BY <2>2 DEF TypeInv, Swept
    <3> QED
      BY <1>0, <2>2, <2>5, <3>1, CandidateKept
  <2>8. JudgedInv'
    BY <1>0, <2>2, JudgedKept
  <2> QED
    BY <2>4, <2>6, <2>7, <2>8 DEF AgeInv
<1>4. CASE Write
  <2>1. PICK r \in Rows : r = found
    BY <1>4, WrittenTyped
  <2>2. /\ item \in Items /\ ~item.listed /\ Exists(r) /\ r \in DOMAIN vehicle
        /\ vehicle[r] \in Vehicle
        /\ vehicle' = [vehicle EXCEPT ![r] = Refreshed(vehicle[r])]
        /\ Refreshed(vehicle[r]).fix = (IF item.fix # Null THEN item.fix ELSE vehicle[r].fix)
        /\ Refreshed(vehicle[r]).online = item.fresh
    BY <1>4, <2>1, WrittenTyped DEF TypeInv, TypeOK
  <2>3. /\ pc = "write" /\ pc' \notin {"create", "write"} /\ now' = now
        /\ candidates' = candidates
        /\ \A w \in Sweeps : touched'[w] = touched[w] \cup ({r} \cap candidates[w])
        /\ raced' = raced \ {r}
        /\ ahead' = (IF item.fix = Null THEN ahead
                     ELSE IF item.ahead THEN ahead \cup {r} ELSE ahead \ {r})
    BY <1>4, <2>1 DEF Write, Dealt
  <2>4. /\ vehicle'[r].fix = (IF item.fix # Null THEN item.fix ELSE vehicle[r].fix)
        /\ vehicle'[r].online = item.fresh
        /\ \A q \in Rows : q # r => vehicle'[q] = vehicle[q]
    BY <2>2
  <2>5. RowFix(r)'
    <3>1. CASE item.fix = Null
      BY <2>2, <2>3, <2>4, <3>1 DEF RowFix, AgeInv, JudgedInv, Plausible, Aged
    <3>2. CASE item.fix # Null
      BY <2>2, <2>3, <2>4, <3>2 DEF RowFix, AgeInv, JudgedInv, Plausible, Aged
    <3> QED
      BY <3>1, <3>2
  <2>6. ASSUME NEW q \in Rows, q # r PROVE RowFix(q)'
    <3>1. Exists(q)' => Exists(q) /\ vehicle'[q] = vehicle[q]
      BY <2>4, <2>6 DEF Exists
    <3> QED
      BY <1>0, <2>3, <2>6, <3>1, RowFixKept
  <2>7. ASSUME NEW w \in Sweeps, NEW q \in Rows PROVE Candidate(w, q)'
    <3>1. q = r => q \notin candidates'[w] \ touched'[w]
      BY <2>3
    <3>2. CASE q = r
      BY <3>1, <3>2 DEF Candidate
    <3>3. CASE q # r
      BY <1>0, <2>3, <2>4, <3>3, CandidateKept
    <3> QED
      BY <3>2, <3>3
  <2>8. JudgedInv'
    BY <1>0, <2>3, JudgedKept
  <2> QED
    BY <2>5, <2>6, <2>7, <2>8 DEF AgeInv
<1>5. ASSUME NEW w \in Sweeps, SweepRead(w)
      PROVE  AgeInv'
  <2>1. /\ UNCHANGED <<now, vehicle, pc, item, touched, raced, ahead>>
        /\ candidates' = [candidates EXCEPT ![w] =
               {r \in Rows : Exists(r) /\ vehicle[r].online /\ Outdated(r)}]
    BY <1>5 DEF SweepRead
  <2>2. ASSUME NEW r \in Rows, Exists(r), Outdated(r), vehicle[r].fix # Null
        PROVE  r \in ahead \/ Aged(vehicle[r].fix)
    <3>1. vehicle[r].fix \in Nat
      BY <2>2, RowIsVehicle DEF TypeInv, Vehicle, Instants
    <3>2. ~Fresh(vehicle[r].fix)
      BY <2>2 DEF Outdated, Reference
    <3> QED
      BY <1>0, <2>2, <3>1, <3>2, TimeAssumption
         DEF Fresh, Ahead, Aged, AgeInv, RowFix, Plausible
  <2>3. ASSUME NEW u \in Sweeps, NEW r \in Rows PROVE Candidate(u, r)'
    <3>1. CASE u = w /\ r \in candidates'[w]
      <4>1. Exists(r) /\ Outdated(r)
        BY <2>1, <3>1 DEF TypeInv, TypeOK
      <4> QED
        BY <2>1, <2>2, <4>1 DEF Candidate, Aged
    <3>2. CASE ~(u = w /\ r \in candidates'[w])
      BY <1>0, <2>1, <3>2, CandidateKept DEF TypeInv, TypeOK
    <3> QED
      BY <3>1, <3>2
  <2>4. ASSUME NEW r \in Rows PROVE RowFix(r)'
    BY <1>0, <2>1, RowFixKept DEF Exists
  <2>5. JudgedInv'
    BY <1>0, <2>1, JudgedKept
  <2> QED
    BY <2>3, <2>4, <2>5 DEF AgeInv
<1>6. ASSUME NEW w \in Sweeps, NEW r \in Rows, SweepWrite(w, r)
      PROVE  AgeInv'
  <2>1. /\ Exists(r) /\ vehicle[r] \in Vehicle /\ r \in DOMAIN vehicle
        /\ vehicle' = [vehicle EXCEPT ![r] = [vehicle[r] EXCEPT !.online = FALSE]]
    BY <1>6, SweptTyped DEF TypeInv, TypeOK
  <2>2. vehicle'[r].fix = vehicle[r].fix /\ ~vehicle'[r].online
        /\ \A q \in Rows : q # r => vehicle'[q] = vehicle[q]
    BY <2>1 DEF Vehicle
  <2>3. /\ UNCHANGED <<now, pc, item, ahead>>
        /\ r \in candidates[w]
        /\ candidates' = [candidates EXCEPT ![w] = @ \ {r}]
        /\ touched' = [touched EXCEPT ![w] = @ \ {r}]
        /\ raced' = (IF r \in touched[w] THEN raced \cup {r} ELSE raced)
    BY <1>6 DEF SweepWrite
  <2>4. RowFix(r)'
    <3>1. RowFix(r) /\ Candidate(w, r)
      BY DEF AgeInv
    <3> QED
      BY <2>1, <2>2, <2>3, <3>1 DEF RowFix, Candidate, Plausible, Aged
  <2>5. ASSUME NEW q \in Rows, q # r PROVE RowFix(q)'
    <3>1. Exists(q)' => Exists(q) /\ vehicle'[q] = vehicle[q]
      BY <2>2, <2>5 DEF Exists
    <3> QED
      BY <1>0, <2>3, <3>1, RowFixKept
  <2>6. ASSUME NEW u \in Sweeps, NEW q \in Rows PROVE Candidate(u, q)'
    <3>1. q \in candidates'[u] \ touched'[u] => q \in candidates[u] \ touched[u]
      BY <2>3 DEF TypeInv, TypeOK
    <3> QED
      BY <1>0, <2>2, <2>3, <3>1, CandidateKept
  <2>7. JudgedInv'
    BY <1>0, <2>3, JudgedKept
  <2> QED
    BY <2>4, <2>5, <2>6, <2>7 DEF AgeInv
<1>7. ASSUME UNCHANGED <<vehicle, raced, ahead>>, now' \in Nat, now <= now',
             pc' \notin {"create", "write"} \/ UNCHANGED <<pc, item>>,
             \A w \in Sweeps : candidates'[w] = {} \/ UNCHANGED <<candidates, touched>>
      PROVE  AgeInv'
  <2>1. ASSUME NEW w \in Sweeps, NEW r \in Rows PROVE Candidate(w, r)'
    BY <1>7, CandidateKept
  <2>2. ASSUME NEW r \in Rows PROVE RowFix(r)'
    BY <1>7, RowFixKept DEF Exists
  <2> QED
    BY <1>7, <2>1, <2>2, JudgedKept DEF AgeInv
<1>8. CASE StartSync \/ WriteReplay \/ LoadTrips \/ Append \/ CrumbsFail \/ StartGapFill
           \/ EndSync \/ SyncFails
  BY <1>0, <1>7, <1>8
     DEF StartSync, WriteReplay, LoadTrips, Append, CrumbsFail, StartGapFill, EndSync,
         SyncFails, Dealt, Idle
<1>9. CASE Advance \/ Crash
  BY <1>0, <1>7, <1>9 DEF Advance, Crash, Idle
<1>10. ASSUME NEW w \in Sweeps, SweepFails(w)
       PROVE  AgeInv'
  <2>1. /\ UNCHANGED <<now, vehicle, pc, item, raced, ahead>>
        /\ \A u \in Sweeps, r \in Rows : r \in candidates'[u] \ touched'[u]
                                             => r \in candidates[u] \ touched[u]
    BY <1>10 DEF SweepFails, TypeInv, TypeOK
  <2>2. ASSUME NEW u \in Sweeps, NEW r \in Rows PROVE Candidate(u, r)'
    BY <1>0, <2>1, CandidateKept
  <2>3. ASSUME NEW r \in Rows PROVE RowFix(r)'
    BY <1>0, <2>1, RowFixKept DEF Exists
  <2> QED
    BY <1>0, <2>1, <2>2, <2>3, JudgedKept DEF AgeInv
<1>11. CASE (\E t \in Trips, r \in Rows : TripStarts(t, r)) \/ (\E t \in Trips : TripEnds(t))
            \/ UNCHANGED vars
  BY <1>0, <1>7, <1>11 DEF TripStarts, TripEnds, vars
<1> QED
  BY <1>1, <1>2, <1>3, <1>4, <1>5, <1>6, <1>8, <1>9, <1>10, <1>11 DEF Next

\* A vehicle with a fresh fix is taken offline by the sweep only over a refresh it
\* has not seen, or because the fix was dated ahead when it came; whatever the
\* window, the tolerance and the number of sweeps at the same time.
THEOREM OfflineIsJustified == Spec => []OfflineJustified
<1>1. Init => AgeInv
  BY DEF Init, AgeInv, JudgedInv, RowFix, Candidate, Exists
<1>2. TypeInv /\ AgeInv => OfflineJustified
  <2> SUFFICES ASSUME TypeInv, AgeInv, NEW r \in Rows,
                      Exists(r), ~vehicle[r].online, vehicle[r].fix # Null, Fresh(vehicle[r].fix)
               PROVE  r \in raced \cup ahead
    BY DEF OfflineJustified
  <2>1. vehicle[r].fix \in Nat /\ now \in Nat
    BY RowIsVehicle DEF TypeInv, TypeOK, Vehicle, Instants
  <2>2. RowFix(r)
    BY DEF AgeInv
  <2> QED
    BY <2>1, <2>2, TimeAssumption DEF RowFix, Fresh, Aged
<1>3. TypeInv /\ AgeInv /\ [Next]_vars => TypeInv' /\ AgeInv'
  BY StepTyped, AgeStep
<1> QED
  BY <1>1, <1>2, <1>3, InitTyped, PTL DEF Spec
=============================================================================
