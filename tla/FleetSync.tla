------------------------------ MODULE FleetSync ------------------------------
(***************************************************************************)
(* The two crons of TrackingService on the Vehicle table: syncVehicles     *)
(* stores the positions a provider returns and creates rows for devices it *)
(* only lists; detectOfflineVehicles takes vehicles offline whose last fix *)
(* has aged out.  Beside them trips start and end, since a vehicle that    *)
(* moves leaves breadcrumbs on its active trips.                           *)
(*                                                                         *)
(* One action per statement that another actor can come before; the reads  *)
(* and the write of what only the sync looks at (identity, last fix) are   *)
(* one step.  pc is where the sync stands; a sweep is under way while it   *)
(* has candidates.                                                         *)
(*                                                                         *)
(* Abstracted: coordinates, speed and the other telemetry (moved: the      *)
(* position is valid and 10 m or more from the last stored one); status,   *)
(* which is OFFLINE exactly when isOnline is false; lastSeenAt of a row    *)
(* that has a fix, which nothing reads; the providers other than the one   *)
(* that is synced, their windows differ by provider only.                  *)
(* A restricted vehicle is skipped by every step and is no member.         *)
(***************************************************************************)
EXTENDS Integers

CONSTANTS
    Devices,     \* GPS devices; one is mounted in one vehicle
    Plated,      \* devices of AiroTrack, whose positions carry their identity and no IMEI
    Rows,        \* ids of Vehicle rows
    Trips,       \* ids of trips
    Sweeps,      \* runs of detectOfflineVehicles at the same time
    Window,      \* stalenessThresholdMs of the provider
    Skew,        \* FUTURE_SKEW_TOLERANCE_MS
    MaxTime,     \* bound: the clock stops here
    MaxFaults,   \* bound: crashes and failed statements
    Null         \* null

ASSUME DeviceAssumption == Plated \subseteq Devices /\ Null \notin Devices \cup Rows
ASSUME TimeAssumption ==
    Window \in Nat /\ Skew \in Nat /\ MaxTime \in Nat /\ MaxFaults \in Nat /\ Null \notin Int

VARIABLES
    now,         \* the clock
    vehicle,     \* per row id: the Vehicle row, or Null
    inventory,   \* per device: how the adapter's cached inventory lists it
    pc,          \* the next statement of the sync
    item,        \* the position or the listed vehicle at hand, or Null
    found,       \* the row it belongs to, or Null
    unfilled,    \* the listed devices the gap-fill has not looked at
    loaded,      \* activeTripsByVehicle: pairs of trip and row, or Null
    trip,        \* per trip: its vehicle row while it is STARTED, ONGOING or DELAYED
    candidates,  \* per sweep: rows it will take offline
    faults,      \* crashes and failed statements so far
    bare,        \* history: devices that a listing named without an IMEI
    touched,     \* history, per sweep: rows the sync has refreshed since it read
    raced,       \* history: rows taken offline though refreshed meanwhile
    ahead,       \* history: rows whose fix was dated too far ahead when it came
    cycle,       \* history: trips active at some moment of this sync
    late         \* history: trips given a breadcrumb in a sync they were not active in

syncVars == <<pc, item, found, unfilled, loaded>>
histories == <<bare, touched, raced, ahead, cycle, late>>
vars == <<now, vehicle, inventory, syncVars, trip, candidates, faults, histories>>

\* providerVehicleId: the provider's id of a device, or its IMEI standing in.
Keys == {"id", "imei"} \X Devices
Instants == Nat \cup {Null}
Vehicle == [key : Keys, imei : Devices \cup {Null}, fix : Instants, seen : Instants,
            online : BOOLEAN]
Items == [device : Devices, key : Keys, imei : Devices \cup {Null}, listed : BOOLEAN,
          fallback : BOOLEAN, fix : Instants, fresh : BOOLEAN, ahead : BOOLEAN, moved : BOOLEAN]

ASSUME RowAssumption == Null \notin Vehicle

TypeOK ==
    /\ now \in Nat
    /\ vehicle \in [Rows -> Vehicle \cup {Null}]
    /\ inventory \in [Devices -> {"absent", "bare", "full"}]
    /\ pc \in {"idle", "feed", "create", "write", "trips", "append", "list"}
    /\ item \in Items \cup {Null}
    /\ found \in Rows \cup {Null}
    /\ unfilled \in SUBSET Devices
    /\ loaded \in (SUBSET (Trips \X Rows)) \cup {Null}
    /\ trip \in [Trips -> Rows \cup {Null}]
    /\ candidates \in [Sweeps -> SUBSET Rows]
    /\ faults \in Nat
    /\ bare \in SUBSET Devices
    /\ touched \in [Sweeps -> SUBSET Rows]
    /\ raced \in SUBSET Rows
    /\ ahead \in SUBSET Rows
    /\ cycle \in SUBSET Trips
    /\ late \in SUBSET Trips

Unlisted == [d \in Devices |-> "absent"]

Init ==
    /\ now = 0
    /\ vehicle = [r \in Rows |-> Null]
    /\ inventory = Unlisted
    /\ pc = "idle"
    /\ item = Null
    /\ found = Null
    /\ unfilled = {}
    /\ loaded = Null
    /\ trip = [t \in Trips |-> Null]
    /\ candidates = [w \in Sweeps |-> {}]
    /\ faults = 0
    /\ bare = {}
    /\ touched = [w \in Sweeps |-> {}]
    /\ raced = {}
    /\ ahead = {}
    /\ cycle = {}
    /\ late = {}

Advance ==
    /\ now < MaxTime
    /\ now' = now + 1
    /\ UNCHANGED <<vehicle, inventory, syncVars, trip, candidates, faults, histories>>

-----------------------------------------------------------------------------
(* Freshness                                                               *)

\* A fix dated further ahead than the tolerance has no age.
Ahead(fix) == fix > now + Skew

\* isPositionFresh
Fresh(fix) == ~Ahead(fix) /\ now - fix <= Window

\* lastProviderUpdate ?? lastSeenAt
Reference(v) == IF v.fix = Null THEN v.seen ELSE v.fix

Exists(r) == vehicle[r] # Null

\* Mutant: a fix is outdated as soon as it is not brand new.
OutdatedAtOnce(r) == Reference(vehicle[r]) # now

Outdated(r) == Reference(vehicle[r]) = Null \/ ~Fresh(Reference(vehicle[r]))

-----------------------------------------------------------------------------
(* syncVehicles                                                            *)

ActiveTrips == {t \in Trips : trip[t] # Null}

\* The adapter may have fetched a new inventory.  An empty answer or a failure
\* leaves the old one; an answer without a device's IMEI cannot resolve it.
StartSync ==
    /\ pc = "idle"
    /\ pc' = "feed"
    /\ inventory' \in [Devices -> {"absent", "bare", "full"}]
    /\ \/ inventory' = inventory
       \/ inventory' # Unlisted /\ \A d \in Plated : inventory'[d] = "absent"
    /\ bare' = bare \cup {d \in Devices : inventory'[d] = "bare"}
    /\ cycle' = ActiveTrips
    /\ UNCHANGED <<now, vehicle, item, found, unfilled, loaded, trip, candidates, faults,
                   touched, raced, ahead, late>>

\* normalizePosition: the id when it is known, the IMEI in its stead otherwise.
Resolved(d) == d \in Plated \/ inventory[d] = "full"

ByKey(key) == {r \in Rows : Exists(r) /\ vehicle[r].key = key}

ByImei(imei) == {r \in Rows : Exists(r) /\ imei # Null /\ vehicle[r].imei = imei}

\* A listed vehicle that has a row is left as it is; a position is written to it.
Found(r, i) ==
    IF i.listed
    THEN pc' = "list" /\ item' = Null /\ found' = Null
    ELSE pc' = "write" /\ item' = i /\ found' = r

\* findExistingVehicle: the provider id first, then the IMEI.  A row found by its
\* IMEI takes the identity the device arrived with.  Where nothing is found, an
\* unproven identity creates nothing.
Locate(i) ==
    \/ \E r \in ByKey(i.key) : Found(r, i) /\ vehicle' = vehicle
    \/ /\ ByKey(i.key) = {}
       /\ \E r \in ByImei(i.imei) :
              Found(r, i) /\ vehicle' = [vehicle EXCEPT ![r].key = i.key]
    \/ /\ ByKey(i.key) = {} /\ ByImei(i.imei) = {}
       /\ IF i.fallback
          THEN pc' = "feed" /\ item' = Null /\ found' = Null
          ELSE pc' = "create" /\ item' = i /\ found' = Null
       /\ vehicle' = vehicle

\* What a position says; its freshness is judged now.
Reported(d, fix, moved) ==
    [device |-> d, listed |-> FALSE, fallback |-> ~Resolved(d),
     key |-> IF Resolved(d) THEN <<"id", d>> ELSE <<"imei", d>>,
     imei |-> IF d \in Plated THEN Null ELSE d,
     fix |-> fix, moved |-> moved,
     fresh |-> fix = Null \/ Fresh(fix), ahead |-> fix # Null /\ Ahead(fix)]

\* The next position of the answer.
Position(d, fix, moved) ==
    /\ pc = "feed"
    /\ Locate(Reported(d, fix, moved))
    /\ UNCHANGED <<now, inventory, unfilled, loaded, trip, candidates, faults, histories>>

\* The position or the listed vehicle at hand is dealt with.
Dealt ==
    /\ pc' = IF item.listed THEN "list" ELSE "feed"
    /\ item' = Null
    /\ found' = Null

\* A listed vehicle has never sent a position: offline, with no time of any kind.
NewRow ==
    [key |-> item.key, imei |-> item.imei, fix |-> item.fix,
     seen |-> IF item.listed \/ item.fix # Null THEN Null ELSE now,
     online |-> IF item.listed THEN FALSE ELSE item.fresh]

Create(r) ==
    /\ pc = "create"
    /\ ~Exists(r)
    /\ vehicle' = [vehicle EXCEPT ![r] = NewRow]
    /\ ahead' = IF item.ahead THEN ahead \cup {r} ELSE ahead
    /\ Dealt
    /\ UNCHANGED <<now, inventory, unfilled, loaded, trip, candidates, faults, bare, touched,
                   raced, cycle, late>>

\* Mutant: an older fix overwrites a newer one.
NeverReplay == FALSE

\* isStaleReplay
Replay ==
    /\ item.fix # Null
    /\ vehicle[found].fix # Null
    /\ item.fix < vehicle[found].fix

\* We heard from the provider and learned nothing newer: only lastSeenAt moves.
WriteReplay ==
    /\ pc = "write"
    /\ Replay
    /\ Dealt
    /\ UNCHANGED <<now, vehicle, inventory, unfilled, loaded, trip, candidates, faults, histories>>

\* Position and telemetry; a fix or IMEI that is missing leaves the old one.
Refreshed(v) ==
    [v EXCEPT !.imei = IF item.imei # Null THEN item.imei ELSE @,
              !.fix = IF item.fix # Null THEN item.fix ELSE @,
              !.seen = IF item.fix = Null /\ v.fix = Null THEN now ELSE Null,
              !.online = item.fresh]

Write ==
    /\ pc = "write"
    /\ ~Replay
    /\ vehicle' = [vehicle EXCEPT ![found] = Refreshed(@)]
    /\ touched' = [w \in Sweeps |-> touched[w] \cup ({found} \cap candidates[w])]
    /\ raced' = raced \ {found}
    /\ ahead' = IF item.fix = Null THEN ahead
                ELSE IF item.ahead THEN ahead \cup {found} ELSE ahead \ {found}
    /\ IF item.moved
       THEN pc' = "trips" /\ UNCHANGED <<item, found>>
       ELSE Dealt
    /\ UNCHANGED <<now, inventory, unfilled, loaded, trip, candidates, faults, bare, cycle, late>>

\* The location history is stored; activeTripIdsFor reads the trips once per sync.
LoadTrips ==
    /\ pc = "trips"
    /\ loaded' = IF loaded # Null THEN loaded
                 ELSE {<<t, trip[t]>> : t \in ActiveTrips}
    /\ pc' = "append"
    /\ UNCHANGED <<now, vehicle, inventory, item, found, unfilled, trip, candidates, faults,
                   histories>>

\* recordTripBreadcrumbs
Append ==
    /\ pc = "append"
    /\ late' = late \cup {t \in Trips \ cycle : <<t, found>> \in loaded}
    /\ Dealt
    /\ UNCHANGED <<now, vehicle, inventory, unfilled, loaded, trip, candidates, faults, bare,
                   touched, raced, ahead, cycle>>

\* A breadcrumb that cannot be recorded never disrupts the sync.
CrumbsFail ==
    /\ pc \in {"trips", "append"}
    /\ faults < MaxFaults
    /\ faults' = faults + 1
    /\ Dealt
    /\ UNCHANGED <<now, vehicle, inventory, unfilled, loaded, trip, candidates, histories>>

\* syncInventory, on the inventory the adapter holds.
StartGapFill ==
    /\ pc = "feed"
    /\ unfilled' = {d \in Devices : inventory[d] # "absent"}
    /\ pc' = "list"
    /\ UNCHANGED <<now, vehicle, inventory, item, found, loaded, trip, candidates, faults,
                   histories>>

\* What a listing says: no time of any kind.
Entry(d, imei) ==
    [device |-> d, listed |-> TRUE, fallback |-> FALSE, key |-> <<"id", d>>, imei |-> imei,
     fix |-> Null, moved |-> FALSE, fresh |-> FALSE, ahead |-> FALSE]

\* Mutant: the gap-fill looks its vehicles up by the provider id only.
ListedById(d) ==
    /\ pc = "list"
    /\ d \in unfilled
    /\ unfilled' = unfilled \ {d}
    /\ Locate(Entry(d, Null))
    /\ UNCHANGED <<now, inventory, loaded, trip, candidates, faults, histories>>

Listed(d) ==
    /\ pc = "list"
    /\ d \in unfilled
    /\ unfilled' = unfilled \ {d}
    /\ Locate(Entry(d, IF inventory[d] = "full" THEN d ELSE Null))
    /\ UNCHANGED <<now, inventory, loaded, trip, candidates, faults, histories>>

\* The finally of syncVehicles.
Idle ==
    /\ pc' = "idle"
    /\ item' = Null
    /\ found' = Null
    /\ unfilled' = {}
    /\ loaded' = Null
    /\ cycle' = {}

\* Mutant: the trips that were read are kept for the next sync.
EndSyncKeepingTrips ==
    /\ pc = "list"
    /\ unfilled = {}
    /\ pc' = "idle"
    /\ cycle' = {}
    /\ UNCHANGED <<now, vehicle, inventory, item, found, unfilled, loaded, trip, candidates,
                   faults, bare, touched, raced, ahead, late>>

EndSync ==
    /\ pc = "list"
    /\ unfilled = {}
    /\ Idle
    /\ UNCHANGED <<now, vehicle, inventory, trip, candidates, faults, bare, touched, raced,
                   ahead, late>>

\* A statement fails: the rest of the answer is given up.
SyncFails ==
    /\ pc \notin {"idle", "append"}
    /\ faults < MaxFaults
    /\ faults' = faults + 1
    /\ Idle
    /\ UNCHANGED <<now, vehicle, inventory, trip, candidates, bare, touched, raced, ahead, late>>

-----------------------------------------------------------------------------
(* detectOfflineVehicles                                                   *)

\* The online vehicles are read; those with a fresh reference are passed over.
SweepRead(w) ==
    /\ candidates[w] = {}
    /\ candidates' = [candidates EXCEPT ![w] =
           {r \in Rows : Exists(r) /\ vehicle[r].online /\ Outdated(r)}]
    /\ candidates'[w] # {}
    /\ UNCHANGED <<now, vehicle, inventory, syncVars, trip, faults, histories>>

\* The write is by id and looks at nothing.
SweepWrite(w, r) ==
    /\ r \in candidates[w]
    /\ vehicle' = [vehicle EXCEPT ![r].online = FALSE]
    /\ candidates' = [candidates EXCEPT ![w] = @ \ {r}]
    /\ raced' = IF r \in touched[w] THEN raced \cup {r} ELSE raced
    /\ touched' = [touched EXCEPT ![w] = @ \ {r}]
    /\ UNCHANGED <<now, inventory, syncVars, trip, faults, bare, ahead, cycle, late>>

SweepFails(w) ==
    /\ candidates[w] # {}
    /\ faults < MaxFaults
    /\ faults' = faults + 1
    /\ candidates' = [candidates EXCEPT ![w] = {}]
    /\ touched' = [touched EXCEPT ![w] = {}]
    /\ UNCHANGED <<now, vehicle, inventory, syncVars, trip, bare, raced, ahead, cycle, late>>

-----------------------------------------------------------------------------
(* Trips, and the end of a process                                         *)

TripStarts(t, r) ==
    /\ Exists(r)
    /\ trip[t] = Null
    /\ trip' = [trip EXCEPT ![t] = r]
    /\ cycle' = IF pc = "idle" THEN cycle ELSE cycle \cup {t}
    /\ UNCHANGED <<now, vehicle, inventory, syncVars, candidates, faults, bare, touched, raced,
                   ahead, late>>

TripEnds(t) ==
    /\ trip[t] # Null
    /\ trip' = [trip EXCEPT ![t] = Null]
    /\ UNCHANGED <<now, vehicle, inventory, syncVars, candidates, faults, histories>>

Crash ==
    /\ faults < MaxFaults
    /\ faults' = faults + 1
    /\ Idle
    /\ inventory' = Unlisted
    /\ candidates' = [w \in Sweeps |-> {}]
    /\ touched' = [w \in Sweeps |-> {}]
    /\ UNCHANGED <<now, vehicle, trip, bare, raced, ahead, late>>

\* Times a provider may send: any, some too far ahead, or none.
Fixes == (0 .. MaxTime + Skew + 1) \cup {Null}

Next ==
    \/ Advance
    \/ StartSync
    \/ \E d \in Devices, fix \in Fixes, moved \in BOOLEAN : Position(d, fix, moved)
    \/ \E r \in Rows : Create(r)
    \/ WriteReplay \/ Write \/ LoadTrips \/ Append \/ CrumbsFail
    \/ StartGapFill
    \/ \E d \in Devices : Listed(d)
    \/ EndSync \/ SyncFails
    \/ \E w \in Sweeps : SweepRead(w) \/ SweepFails(w)
    \/ \E w \in Sweeps, r \in Rows : SweepWrite(w, r)
    \/ \E t \in Trips, r \in Rows : TripStarts(t, r)
    \/ \E t \in Trips : TripEnds(t)
    \/ Crash

Spec == Init /\ [][Next]_vars

-----------------------------------------------------------------------------
(* Properties                                                              *)

DeviceOf(r) == vehicle[r].key[2]

\* No device has two rows, whichever identity it arrives under and wherever the
\* process dies, as long as no listing named it without its IMEI
\* (findExistingVehicle, the deferral in upsertPosition).
OneRowPerDevice ==
    \A r, s \in Rows :
        r # s /\ Exists(r) /\ Exists(s) /\ DeviceOf(r) = DeviceOf(s) => DeviceOf(r) \in bare

\* The fix of a vehicle never goes back in time, however late or twice a
\* position is served (isStaleReplay).
FixNeverGoesBack ==
    [][\A r \in Rows :
          Exists(r) /\ vehicle[r].fix # Null =>
              Exists(r)' /\ vehicle'[r].fix # Null /\ vehicle'[r].fix >= vehicle[r].fix]_vars

\* A vehicle with a fresh fix is offline only when the sweep overwrote what the
\* sync had just stored, or when the fix was dated ahead of the clock when it came.
OfflineJustified ==
    \A r \in Rows :
        Exists(r) /\ ~vehicle[r].online /\ vehicle[r].fix # Null /\ Fresh(vehicle[r].fix)
            => r \in raced \cup ahead

\* A trip gets breadcrumbs only from a sync during which it was active
\* (activeTripsByVehicle lives for one sync).
CrumbsInTime == late = {}
=============================================================================
