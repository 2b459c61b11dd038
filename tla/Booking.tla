------------------------------- MODULE Booking -------------------------------
(***************************************************************************)
(* The double-booking guard of TripsService: the trips of one client, the  *)
(* vehicle and the driver each of them books, and the window it books them *)
(* for.  create() and update() look for clashing trips first and write     *)
(* later, with no transaction or constraint around the two; updateStatus() *)
(* releases a trip's resources when it completes or cancels it.            *)
(*                                                                         *)
(* One action per statement between two awaits; pc[w] is the statement     *)
(* worker w will execute next.                                             *)
(*                                                                         *)
(* Abstracted: the active statuses are one ("active"), and so are          *)
(* COMPLETED and CANCELLED ("released"); what else a trip holds; the       *)
(* ownership checks, the geocoder and the reference (Abandon stands for    *)
(* the requests they refuse).  A driver is a driverId: the guard does not  *)
(* look at driverName.  A restricted vehicle, which the guard lets pass,   *)
(* cannot be put on a trip (assertOwnedVehicle) and is no member.          *)
(***************************************************************************)
EXTENDS Integers

CONSTANTS
    Trips,      \* ids of trips
    Vehicles,   \* vehicles of the client
    Drivers,    \* driverIds
    Bookings,   \* what create() may be asked for
    Patches,    \* what update() may be asked for
    Workers,    \* requests handled at the same time
    None,       \* null
    Keep        \* a field the patch leaves out (undefined)

Booking ==
    [vehicle : Vehicles \cup {None}, driver : Drivers \cup {None}, from : Nat, to : Nat]
Patch ==
    [vehicle : Vehicles \cup {None, Keep}, driver : Drivers \cup {None, Keep},
     from : Nat \cup {Keep}, to : Nat \cup {Keep}]

ASSUME RequestAssumption == Bookings \subseteq Booking /\ Patches \subseteq Patch
ASSUME NullAssumption ==
    /\ None # Keep
    /\ None \notin Trips \cup Vehicles \cup Drivers \cup Nat
    /\ Keep \notin Vehicles \cup Drivers \cup Nat

VARIABLES
    state,     \* per trip: "none" (not created), "active", "released" or "deleted"
    booked,    \* per trip: what it books
    raced,     \* history: trips written on a check that another write outdated
    pc,        \* per worker: the next statement
    trip,      \* per worker: the trip it was called for, or NoTrip
    want,      \* per worker: the booking to check
    patch,     \* per worker: the fields to write
    outdated   \* history, per worker: another trip was booked since it started

rowVars == <<state, booked, raced>>
locals == <<trip, want, patch>>
vars == <<state, booked, raced, pc, trip, want, patch, outdated>>

\* create() has no trip yet.
NoTrip == None
Nothing == [vehicle |-> None, driver |-> None, from |-> 0, to |-> 0]
NoPatch == [vehicle |-> Keep, driver |-> Keep, from |-> Keep, to |-> Keep]

TypeOK ==
    /\ state \in [Trips -> {"none", "active", "released", "deleted"}]
    /\ booked \in [Trips -> Booking]
    /\ raced \in SUBSET Trips
    /\ pc \in [Workers -> {"idle", "vehicle", "driver", "insert", "update", "status"}]
    /\ trip \in [Workers -> Trips \cup {NoTrip}]
    /\ want \in [Workers -> Booking]
    /\ patch \in [Workers -> Patch]
    /\ outdated \in [Workers -> BOOLEAN]
    /\ \A w \in Workers : /\ pc[w] = "insert" => trip[w] = NoTrip
                          /\ pc[w] \in {"update", "status"} => trip[w] \in Trips

Init ==
    /\ state = [t \in Trips |-> "none"]
    /\ booked = [t \in Trips |-> Nothing]
    /\ raced = {}
    /\ pc = [w \in Workers |-> "idle"]
    /\ trip = [w \in Workers |-> NoTrip]
    /\ want = [w \in Workers |-> Nothing]
    /\ patch = [w \in Workers |-> NoPatch]
    /\ outdated = [w \in Workers |-> FALSE]

-----------------------------------------------------------------------------
(* findOverlapConflicts                                                    *)

\* Half-open windows: touching edges do not clash.
Overlaps(a, b) == a.from < b.to /\ b.from < a.to

\* Mutant: the guard finds only trips that start inside the wanted window.
ConflictsStartingInside(b, field, self) ==
    {t \in Trips \ {self} :
        /\ state[t] = "active"
        /\ booked[t][field] = b[field]
        /\ b.from <= booked[t].from /\ booked[t].from < b.to}

\* The active trips other than "self" that book the same resource meanwhile.
Conflicts(b, field, self) ==
    {t \in Trips \ {self} :
        /\ state[t] = "active"
        /\ booked[t][field] = b[field]
        /\ Overlaps(b, booked[t])}

\* assertNoResourceOverlap looks at a resource that is set only.
Free(b, field, self) == b[field] = None \/ Conflicts(b, field, self) = {}

-----------------------------------------------------------------------------
(* How a request starts and ends.                                          *)

Begin(w, next, t, b, p) ==
    /\ pc[w] = "idle"
    /\ pc' = [pc EXCEPT ![w] = next]
    /\ trip' = [trip EXCEPT ![w] = t]
    /\ want' = [want EXCEPT ![w] = b]
    /\ patch' = [patch EXCEPT ![w] = p]
    /\ outdated' = [outdated EXCEPT ![w] = FALSE]

Goto(w, next) == pc' = [pc EXCEPT ![w] = next]

Finish(w) ==
    /\ pc' = [pc EXCEPT ![w] = "idle"]
    /\ trip' = [trip EXCEPT ![w] = NoTrip]
    /\ want' = [want EXCEPT ![w] = Nothing]
    /\ patch' = [patch EXCEPT ![w] = NoPatch]

\* History: worker w has written trip t as an active one.
Wrote(w, t) ==
    /\ raced' = IF outdated[w] THEN raced \cup {t} ELSE raced
    /\ outdated' = [v \in Workers |-> v # w /\ (outdated[v] \/ pc[v] # "idle")]

\* History: worker w has written nothing, or a trip that books nothing any more.
Harmless(w) ==
    /\ raced' = raced
    /\ outdated' = [outdated EXCEPT ![w] = FALSE]

-----------------------------------------------------------------------------
(* create and update                                                       *)

CreateCall(w, b) ==
    /\ Begin(w, "vehicle", NoTrip, b, NoPatch)
    /\ UNCHANGED rowVars

\* dto.field ?? existing.field: a null in the patch checks the old value too.
Effective(p, old, field) == IF p[field] \in {None, Keep} THEN old[field] ELSE p[field]

\* The resource and window after the patch.
EffectiveBooking(p, old) ==
    [vehicle |-> Effective(p, old, "vehicle"), driver |-> Effective(p, old, "driver"),
     from |-> Effective(p, old, "from"), to |-> Effective(p, old, "to")]

\* getOwned; a trip in any status may be edited.
UpdateCall(w, t, p) ==
    /\ state[t] \in {"active", "released"}
    /\ Begin(w, "vehicle", t, EffectiveBooking(p, booked[t]), p)
    /\ UNCHANGED rowVars

CheckVehicle(w) ==
    /\ pc[w] = "vehicle"
    /\ Free(want[w], "vehicle", trip[w])
    /\ Goto(w, "driver")
    /\ UNCHANGED <<rowVars, locals, outdated>>

CheckDriver(w) ==
    /\ pc[w] = "driver"
    /\ Free(want[w], "driver", trip[w])
    /\ Goto(w, IF trip[w] = NoTrip THEN "insert" ELSE "update")
    /\ UNCHANGED <<rowVars, locals, outdated>>

\* VEHICLE_OVERLAP or DRIVER_OVERLAP
Clash(w) ==
    /\ pc[w] \in {"vehicle", "driver"}
    /\ ~Free(want[w], pc[w], trip[w])
    /\ Finish(w)
    /\ Harmless(w)
    /\ UNCHANGED <<state, booked>>

Insert(w, t) ==
    /\ pc[w] = "insert"
    /\ state[t] = "none"
    /\ state' = [state EXCEPT ![t] = "active"]
    /\ booked' = [booked EXCEPT ![t] = want[w]]
    /\ Wrote(w, t)
    /\ Finish(w)

Written(p, old, field) == IF p[field] = Keep THEN old[field] ELSE p[field]

\* Only the fields of the patch are written.
Patched(p, old) ==
    [vehicle |-> Written(p, old, "vehicle"), driver |-> Written(p, old, "driver"),
     from |-> Written(p, old, "from"), to |-> Written(p, old, "to")]

UpdateWrite(w) ==
    /\ pc[w] = "update"
    /\ state[trip[w]] # "deleted"
    /\ booked' = [booked EXCEPT ![trip[w]] = Patched(patch[w], booked[trip[w]])]
    /\ Wrote(w, trip[w])
    /\ Finish(w)
    /\ UNCHANGED state

-----------------------------------------------------------------------------
(* updateStatus and remove, and requests that fail                         *)

StatusCall(w, t) ==
    /\ state[t] = "active"
    /\ Begin(w, "status", t, Nothing, NoPatch)
    /\ UNCHANGED rowVars

\* The status is written by id: over a trip released meanwhile as well.
StayActive(w) ==
    /\ pc[w] = "status"
    /\ state[trip[w]] # "deleted"
    /\ state' = [state EXCEPT ![trip[w]] = "active"]
    /\ IF state[trip[w]] = "active" THEN Harmless(w) ELSE Wrote(w, trip[w])
    /\ Finish(w)
    /\ UNCHANGED booked

Release(w) ==
    /\ pc[w] = "status"
    /\ state[trip[w]] # "deleted"
    /\ state' = [state EXCEPT ![trip[w]] = "released"]
    /\ Harmless(w)
    /\ Finish(w)
    /\ UNCHANGED booked

Remove(t) ==
    /\ state[t] \in {"active", "released"}
    /\ state' = [state EXCEPT ![t] = "deleted"]
    /\ booked' = [booked EXCEPT ![t] = Nothing]
    /\ UNCHANGED <<raced, pc, locals, outdated>>

\* The row is gone, or something before the write fails.
Abandon(w) ==
    /\ pc[w] # "idle"
    /\ Finish(w)
    /\ Harmless(w)
    /\ UNCHANGED <<state, booked>>

Next ==
    \/ \E w \in Workers :
         \/ \E b \in Bookings : CreateCall(w, b)
         \/ \E t \in Trips, p \in Patches : UpdateCall(w, t, p)
         \/ CheckVehicle(w)
         \/ CheckDriver(w)
         \/ Clash(w)
         \/ \E t \in Trips : Insert(w, t)
         \/ UpdateWrite(w)
         \/ \E t \in Trips : StatusCall(w, t)
         \/ StayActive(w)
         \/ Release(w)
         \/ Abandon(w)
    \/ \E t \in Trips : Remove(t)

Spec == Init /\ [][Next]_vars

-----------------------------------------------------------------------------
(* Properties                                                              *)

\* Both bookings hold the resource at some instant.  (The code compares edges.)
Instants(b) == b.from..(b.to - 1)
Together(a, b) == Instants(a) \cap Instants(b) # {}

Shares(a, b) == \E f \in {"vehicle", "driver"} : a[f] # None /\ a[f] = b[f]

\* No vehicle or driver is booked by two active trips of the client at the same
\* instant, unless one of the two was written on a check that another booking
\* had outdated: a request that meets no other never double-books.
BookedTwiceByRaceOnly ==
    \A t, u \in Trips :
        /\ t # u
        /\ state[t] = "active" /\ state[u] = "active"
        /\ Shares(booked[t], booked[u])
        /\ Together(booked[t], booked[u])
        => t \in raced \/ u \in raced

\* "trip creation is the authoritative guard" (trips.service.ts:1339): no vehicle
\* or driver is booked by two active trips of the client at the same instant.
NoDoubleBooking ==
    \A t, u \in Trips :
        /\ t # u
        /\ state[t] = "active" /\ state[u] = "active"
        /\ Shares(booked[t], booked[u])
        => ~Together(booked[t], booked[u])

-----------------------------------------------------------------------------
(* The strengthening behind BookedTwiceByRaceOnly.                         *)

\* What the code compares: a shared resource and windows whose edges cross.
Clashes(a, b) == Shares(a, b) /\ Overlaps(a, b)

ApartUnlessRaced(t) ==
    \A u \in Trips \ {t} :
        state[u] = "active" /\ Clashes(booked[t], booked[u]) => t \in raced \/ u \in raced

ActiveApart == \A t \in Trips : state[t] = "active" => ApartUnlessRaced(t)

\* A worker that no other booking outdated still finds what it checked: its
\* resources free, the trip it patches unchanged, the trip it moves on apart.
CheckHolds(w) ==
    /\ pc[w] \in {"driver", "insert", "update"} => Free(want[w], "vehicle", trip[w])
    /\ pc[w] \in {"insert", "update"} => Free(want[w], "driver", trip[w])
    /\ pc[w] \in {"vehicle", "driver", "update"} /\ trip[w] # NoTrip
         /\ state[trip[w]] # "deleted" =>
            want[w] = EffectiveBooking(patch[w], booked[trip[w]])
    /\ pc[w] = "status" /\ state[trip[w]] # "deleted" => ApartUnlessRaced(trip[w])

ChecksHold == \A w \in Workers : ~outdated[w] => CheckHolds(w)
=============================================================================
