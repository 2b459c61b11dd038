---------------------------- MODULE BookingProofs ----------------------------
(* Proofs about Booking for any trips, resources, requests and workers.     *)
EXTENDS Booking, TLAPS

Fields == {"vehicle", "driver"}
PC == {"idle", "vehicle", "driver", "insert", "update", "status"}
States == {"none", "active", "released", "deleted"}

-----------------------------------------------------------------------------
(* Facts about bookings and patches.                                       *)

\* Two bookings that hold at a common instant overlap by the comparison of the
\* edges that findOverlapConflicts makes.
LEMMA InstantsOverlap ==
    ASSUME NEW a \in Booking, NEW b \in Booking, Together(a, b)
    PROVE  Overlaps(a, b)
<1>1. a.from \in Nat /\ a.to \in Nat /\ b.from \in Nat /\ b.to \in Nat
  BY DEF Booking
<1>2. PICK x \in Int : a.from <= x /\ x <= a.to - 1 /\ b.from <= x /\ x <= b.to - 1
  BY <1>1 DEF Together, Instants
<1> QED
  BY <1>1, <1>2 DEF Overlaps

\* The converse holds for windows that are not empty: for them the comparison of
\* the edges is exact, and windows that only touch do not overlap.
THEOREM OverlapIsExact ==
    ASSUME NEW a \in Booking, NEW b \in Booking, a.from < a.to, b.from < b.to
    PROVE  Overlaps(a, b) <=> Together(a, b)
<1>1. a.from \in Nat /\ a.to \in Nat /\ b.from \in Nat /\ b.to \in Nat
  BY DEF Booking
<1>2. ASSUME Overlaps(a, b) PROVE Together(a, b)
  <2> DEFINE x == IF a.from < b.from THEN b.from ELSE a.from
  <2>1. x \in a.from..(a.to - 1) /\ x \in b.from..(b.to - 1)
    BY <1>1, <1>2 DEF Overlaps
  <2> QED
    BY <2>1 DEF Together, Instants
<1> QED
  BY <1>2, InstantsOverlap

\* Clashing is symmetric.
LEMMA ClashesBothWays == ASSUME NEW a, NEW b, Clashes(a, b) PROVE Clashes(b, a)
  BY DEF Clashes, Shares, Overlaps

\* Requests are well typed, and so are the bookings computed from them.
LEMMA RequestTypes ==
    /\ Bookings \subseteq Booking /\ Patches \subseteq Patch
    /\ Nothing \in Booking /\ NoPatch \in Patch
  BY RequestAssumption DEF Booking, Patch, Nothing, NoPatch

LEMMA PatchTypes ==
    ASSUME NEW p \in Patch, NEW old \in Booking
    PROVE  EffectiveBooking(p, old) \in Booking /\ Patched(p, old) \in Booking
<1>1. /\ p.vehicle \in Vehicles \cup {None, Keep} /\ p.driver \in Drivers \cup {None, Keep}
      /\ p.from \in Nat \cup {Keep} /\ p.to \in Nat \cup {Keep}
      /\ old.vehicle \in Vehicles \cup {None} /\ old.driver \in Drivers \cup {None}
      /\ old.from \in Nat /\ old.to \in Nat
  BY DEF Patch, Booking
<1>2. EffectiveBooking(p, old) \in Booking
  BY <1>1 DEF EffectiveBooking, Effective, Booking
<1>3. Patched(p, old) \in Booking
  BY <1>1 DEF Patched, Written, Booking
<1> QED
  BY <1>2, <1>3

\* What a patch writes clashes with nothing that the booking checked before it
\* does not clash with (a resource it clears was checked all the same).
LEMMA PatchedClash ==
    ASSUME NEW p \in Patch, NEW old \in Booking, NEW c, Clashes(Patched(p, old), c)
    PROVE  Clashes(EffectiveBooking(p, old), c)
<1>1. p.from \in Nat \cup {Keep} /\ p.to \in Nat \cup {Keep}
  BY DEF Patch
<1>2. /\ Written(p, old, "from") = Effective(p, old, "from")
      /\ Written(p, old, "to") = Effective(p, old, "to")
  BY <1>1, NullAssumption DEF Written, Effective
<1>3. Overlaps(EffectiveBooking(p, old), c)
  BY <1>2 DEF Clashes, Overlaps, Patched, EffectiveBooking
<1>4. ASSUME NEW f \in Fields, Written(p, old, f) # None
      PROVE  Effective(p, old, f) = Written(p, old, f)
  BY <1>4 DEF Written, Effective
<1>5. /\ Patched(p, old).vehicle = Written(p, old, "vehicle")
      /\ Patched(p, old).driver = Written(p, old, "driver")
      /\ EffectiveBooking(p, old).vehicle = Effective(p, old, "vehicle")
      /\ EffectiveBooking(p, old).driver = Effective(p, old, "driver")
  BY DEF Patched, EffectiveBooking
<1>6. \/ Patched(p, old).vehicle # None /\ Patched(p, old).vehicle = c.vehicle
      \/ Patched(p, old).driver # None /\ Patched(p, old).driver = c.driver
  BY DEF Clashes, Shares
<1>7. \/ EffectiveBooking(p, old).vehicle # None /\ EffectiveBooking(p, old).vehicle = c.vehicle
      \/ EffectiveBooking(p, old).driver # None /\ EffectiveBooking(p, old).driver = c.driver
  BY <1>4, <1>5, <1>6 DEF Fields
<1>8. Shares(EffectiveBooking(p, old), c)
  BY <1>7 DEF Shares
<1> QED
  BY <1>3, <1>8 DEF Clashes

\* A booking that passed both checks clashes with no other active trip.
LEMMA FreeIsApart ==
    ASSUME NEW b, NEW self, NEW u \in Trips, u # self, state[u] = "active",
           Free(b, "vehicle", self), Free(b, "driver", self)
    PROVE  ~Clashes(b, booked[u])
<1> SUFFICES ASSUME NEW f \in Fields, b[f] # None, b[f] = booked[u][f], Overlaps(b, booked[u])
             PROVE  FALSE
  BY DEF Clashes, Shares, Fields
<1>1. Free(b, f, self)
  BY DEF Fields
<1>2. u \in Conflicts(b, f, self)
  BY DEF Conflicts
<1> QED
  BY <1>1, <1>2 DEF Free

-----------------------------------------------------------------------------
(* Type correctness.                                                       *)

\* Every value a request stores or keeps has its type.
LEMMA TypeStep == TypeOK /\ [Next]_vars => TypeOK'
<1> SUFFICES ASSUME TypeOK, [Next]_vars PROVE TypeOK'
  OBVIOUS
<1> DEFINE LocalsOK ==
             /\ pc \in [Workers -> PC] /\ trip \in [Workers -> Trips \cup {NoTrip}]
             /\ want \in [Workers -> Booking] /\ patch \in [Workers -> Patch]
             /\ \A w \in Workers : /\ pc[w] = "insert" => trip[w] = NoTrip
                                   /\ pc[w] \in {"update", "status"} => trip[w] \in Trips
<1> DEFINE RowsOK == state \in [Trips -> States] /\ booked \in [Trips -> Booking]
<1> DEFINE HistoryOK == raced \in SUBSET Trips /\ outdated \in [Workers -> BOOLEAN]
<1>t. LocalsOK /\ RowsOK /\ HistoryOK
  BY DEF TypeOK, PC, States
<1>q. LocalsOK' /\ RowsOK' /\ HistoryOK' => TypeOK'
  BY DEF TypeOK, PC, States
<1>f. ASSUME NEW w \in Workers, Finish(w) PROVE LocalsOK'
  BY <1>f, <1>t, RequestTypes DEF Finish, PC
<1>g. ASSUME NEW w \in Workers, NEW next \in PC, Goto(w, next), UNCHANGED locals,
             next = "insert" => trip[w] = NoTrip, next \in {"update", "status"} => trip[w] \in Trips
      PROVE  LocalsOK'
  BY <1>g, <1>t DEF Goto, locals
<1>b. ASSUME NEW w \in Workers, NEW next \in {"vehicle", "status"}, NEW t \in Trips \cup {NoTrip},
             NEW b \in Booking, NEW p \in Patch, Begin(w, next, t, b, p), UNCHANGED rowVars,
             next = "status" => t \in Trips
      PROVE  TypeOK'
  <2>1. LocalsOK'
    BY <1>b, <1>t DEF Begin, PC
  <2>2. RowsOK' /\ HistoryOK'
    BY <1>b, <1>t DEF Begin, rowVars
  <2> QED
    BY <2>1, <2>2, <1>q
<1>w. ASSUME NEW w \in Workers, NEW t \in Trips, Wrote(w, t) PROVE HistoryOK'
  BY <1>w, <1>t DEF Wrote
<1>h. ASSUME NEW w \in Workers, Harmless(w) PROVE HistoryOK'
  BY <1>h, <1>t DEF Harmless
<1>1. ASSUME NEW w \in Workers, NEW b \in Bookings, CreateCall(w, b) PROVE TypeOK'
  BY <1>1, <1>b, RequestTypes DEF CreateCall
<1>2. ASSUME NEW w \in Workers, NEW t \in Trips, NEW p \in Patches, UpdateCall(w, t, p) PROVE TypeOK'
  <2>1. EffectiveBooking(p, booked[t]) \in Booking /\ p \in Patch
    BY <1>t, RequestTypes, PatchTypes
  <2> QED
    BY <1>2, <2>1, <1>b DEF UpdateCall
<1>3. ASSUME NEW w \in Workers, CheckVehicle(w) PROVE TypeOK'
  <2>1. LocalsOK'
    BY <1>3, <1>g, <1>t DEF CheckVehicle, PC
  <2>2. RowsOK' /\ HistoryOK'
    BY <1>3, <1>t DEF CheckVehicle, rowVars
  <2> QED
    BY <2>1, <2>2, <1>q
<1>4. ASSUME NEW w \in Workers, CheckDriver(w) PROVE TypeOK'
  <2>1. LocalsOK'
    BY <1>4, <1>g, <1>t DEF CheckDriver, PC
  <2>2. RowsOK' /\ HistoryOK'
    BY <1>4, <1>t DEF CheckDriver, rowVars
  <2> QED
    BY <2>1, <2>2, <1>q
<1>5. ASSUME NEW w \in Workers, Clash(w) PROVE TypeOK'
  BY <1>5, <1>f, <1>h, <1>t, <1>q DEF Clash
<1>6. ASSUME NEW w \in Workers, NEW t \in Trips, Insert(w, t) PROVE TypeOK'
  <2>1. RowsOK'
    BY <1>6, <1>t DEF Insert, States
  <2> QED
    BY <1>6, <2>1, <1>f, <1>w, <1>q DEF Insert
<1>7. ASSUME NEW w \in Workers, UpdateWrite(w) PROVE TypeOK'
  <2>1. patch[w] \in Patch /\ trip[w] \in Trips
    BY <1>7, <1>t DEF UpdateWrite
  <2>2. Patched(patch[w], booked[trip[w]]) \in Booking
    BY <2>1, <1>t, PatchTypes
  <2>3. RowsOK'
    BY <1>7, <2>2, <1>t DEF UpdateWrite
  <2> QED
    BY <1>7, <2>1, <2>3, <1>f, <1>w, <1>q DEF UpdateWrite
<1>8. ASSUME NEW w \in Workers, NEW t \in Trips, StatusCall(w, t) PROVE TypeOK'
  BY <1>8, <1>b, RequestTypes DEF StatusCall
<1>9. ASSUME NEW w \in Workers, StayActive(w) PROVE TypeOK'
  <2>1. trip[w] \in Trips
    BY <1>9, <1>t DEF StayActive
  <2>2. RowsOK'
    BY <1>9, <1>t DEF StayActive, States
  <2> QED
    BY <1>9, <2>1, <2>2, <1>f, <1>w, <1>h, <1>q DEF StayActive
<1>10. ASSUME NEW w \in Workers, Release(w) PROVE TypeOK'
  <2>1. trip[w] \in Trips
    BY <1>10, <1>t DEF Release
  <2>2. RowsOK'
    BY <1>10, <1>t DEF Release, States
  <2> QED
    BY <1>10, <2>1, <2>2, <1>f, <1>w, <1>h, <1>q DEF Release
<1>11. ASSUME NEW w \in Workers, Abandon(w) PROVE TypeOK'
  BY <1>11, <1>f, <1>h, <1>t, <1>q DEF Abandon
<1>12. ASSUME NEW t \in Trips, Remove(t) PROVE TypeOK'
  <2>1. RowsOK'
    BY <1>12, <1>t, RequestTypes DEF Remove, States
  <2> QED
    BY <1>12, <2>1, <1>t, <1>q DEF Remove, locals
<1>13. CASE UNCHANGED vars
  BY <1>13, <1>t, <1>q DEF vars
<1> QED
  BY <1>1, <1>2, <1>3, <1>4, <1>5, <1>6, <1>7, <1>8, <1>9, <1>10, <1>11, <1>12, <1>13 DEF Next

\* No trip is booked at first.
LEMMA TypeInit == Init => TypeOK
<1> SUFFICES ASSUME Init PROVE TypeOK
  OBVIOUS
<1>1. booked \in [Trips -> Booking] /\ want \in [Workers -> Booking] /\ patch \in [Workers -> Patch]
  BY RequestTypes DEF Init
<1> QED
  BY <1>1 DEF Init, TypeOK

\* Type correctness of the booking guard.
THEOREM TypeCorrect == Spec => []TypeOK
  BY TypeInit, TypeStep, PTL DEF Spec

-----------------------------------------------------------------------------
(* Checks that were not outdated.                                          *)

Inv == TypeOK /\ ActiveApart /\ ChecksHold

\* A write that only frees resources outdates no check.
LEMMA QuietStep ==
    ASSUME Inv, TypeOK', raced' = raced,
           \A t \in Trips : state'[t] # "deleted" => state[t] # "deleted" /\ booked'[t] = booked[t],
           \A t \in Trips : state'[t] = "active" => state[t] = "active"
    PROVE  /\ ActiveApart'
           /\ \A t \in Trips : ApartUnlessRaced(t) /\ state'[t] # "deleted" => ApartUnlessRaced(t)'
           /\ \A b, f, self : Free(b, f, self) => Free(b, f, self)'
           /\ \A w \in Workers :
                /\ ~outdated[w]
                /\ UNCHANGED <<pc[w], trip[w], want[w], patch[w]>>
                => CheckHolds(w)'
<1>1. ASSUME NEW t \in Trips, ApartUnlessRaced(t), state'[t] # "deleted"
      PROVE  ApartUnlessRaced(t)'
  BY <1>1 DEF ApartUnlessRaced
<1>2. ActiveApart'
  BY <1>1 DEF Inv, ActiveApart
<1>3. ASSUME NEW b, NEW f, NEW self, Free(b, f, self) PROVE Free(b, f, self)'
  BY <1>3 DEF Free, Conflicts
<1>4. ASSUME NEW w \in Workers, ~outdated[w], UNCHANGED <<pc[w], trip[w], want[w], patch[w]>>
      PROVE  CheckHolds(w)'
  <2>1. CheckHolds(w)
    BY <1>4 DEF Inv, ChecksHold
  <2>2. trip[w] \in Trips \cup {NoTrip}
    BY DEF Inv, TypeOK
  <2>3. pc'[w] \in {"driver", "insert", "update"} => Free(want[w], "vehicle", trip[w])'
    BY <1>3, <1>4, <2>1 DEF CheckHolds
  <2>4. pc'[w] \in {"insert", "update"} => Free(want[w], "driver", trip[w])'
    BY <1>3, <1>4, <2>1 DEF CheckHolds
  <2>5. pc'[w] \in {"vehicle", "driver", "update"} /\ trip'[w] # NoTrip /\ state'[trip'[w]] # "deleted"
          => want'[w] = EffectiveBooking(patch'[w], booked'[trip'[w]])
    BY <1>4, <2>1, <2>2 DEF CheckHolds
  <2>6. pc'[w] = "status" /\ state'[trip'[w]] # "deleted" => ApartUnlessRaced(trip[w])'
    <3> SUFFICES ASSUME pc'[w] = "status", state'[trip'[w]] # "deleted"
                 PROVE  ApartUnlessRaced(trip[w])'
      OBVIOUS
    <3>1. trip'[w] = trip[w] /\ trip[w] \in Trips /\ pc[w] = "status"
      BY <1>4 DEF Inv, TypeOK
    <3>2. ApartUnlessRaced(trip[w])
      BY <2>1, <3>1 DEF CheckHolds
    <3> QED
      BY <3>1, <3>2 DEF ApartUnlessRaced
  <2> QED
    BY <2>3, <2>4, <2>5, <2>6 DEF CheckHolds
<1> QED
  BY <1>1, <1>2, <1>3, <1>4

\* A write that books outdates the checks of all the others that are running.
LEMMA WroteStep ==
    ASSUME Inv, TypeOK', NEW w \in Workers, NEW t \in Trips, Wrote(w, t), Finish(w)
    PROVE  ChecksHold'
<1> SUFFICES ASSUME NEW v \in Workers, ~outdated'[v] PROVE CheckHolds(v)'
  BY DEF ChecksHold
<1>1. pc'[v] = "idle"
  <2>1. v = w \/ pc[v] = "idle"
    BY DEF Wrote, Inv, TypeOK
  <2> QED
    BY <2>1 DEF Finish, Inv, TypeOK
<1> QED
  BY <1>1 DEF CheckHolds

\* A trip that is written by the booking that passed both checks, or on a check
\* that was outdated, leaves the active trips apart unless raced.
LEMMA BookedStep ==
    ASSUME Inv, NEW w \in Workers, NEW t \in Trips, Wrote(w, t),
           \A u \in Trips \ {t} : state'[u] = state[u] /\ booked'[u] = booked[u],
           \A u \in Trips \ {t} :
              state[u] = "active" /\ ~outdated[w] /\ Clashes(booked'[t], booked[u])
                 => t \in raced \/ u \in raced
    PROVE  ActiveApart'
<1>1. raced \subseteq raced' /\ (outdated[w] => t \in raced')
  BY DEF Wrote
<1>2. ASSUME NEW u \in Trips \ {t}, state'[u] = "active", Clashes(booked'[t], booked'[u])
      PROVE  t \in raced' \/ u \in raced'
  BY <1>1, <1>2
<1> SUFFICES ASSUME NEW a \in Trips, NEW b \in Trips \ {a}, state'[a] = "active",
                    state'[b] = "active", Clashes(booked'[a], booked'[b])
             PROVE  a \in raced' \/ b \in raced'
  BY DEF ActiveApart, ApartUnlessRaced
<1>3. CASE a = t
  BY <1>2, <1>3
<1>4. CASE b = t
  BY <1>2, <1>4, ClashesBothWays
<1>5. CASE a # t /\ b # t
  BY <1>1, <1>5 DEF Inv, ActiveApart, ApartUnlessRaced
<1> QED
  BY <1>3, <1>4, <1>5

\* Every step keeps active trips apart unless raced, and current checks valid.
LEMMA GuardStep == Inv /\ [Next]_vars => Inv'
<1> SUFFICES ASSUME Inv, [Next]_vars PROVE ActiveApart' /\ ChecksHold'
  BY TypeStep DEF Inv
<1>t. TypeOK /\ TypeOK'
  BY TypeStep DEF Inv
<1>y. /\ pc \in [Workers -> PC] /\ trip \in [Workers -> Trips \cup {NoTrip}]
      /\ want \in [Workers -> Booking] /\ patch \in [Workers -> Patch]
      /\ outdated \in [Workers -> BOOLEAN]
      /\ state \in [Trips -> States] /\ booked \in [Trips -> Booking]
  BY <1>t DEF TypeOK, PC, States
<1>k. ASSUME NEW w \in Workers, ~outdated[w] PROVE CheckHolds(w)
  BY <1>k DEF Inv, ChecksHold
\* A worker ends or begins, and the rows at most free resources.
<1>h. ASSUME NEW w \in Workers, raced' = raced, outdated' = [outdated EXCEPT ![w] = FALSE],
             CheckHolds(w)',
             \A v \in Workers \ {w} : UNCHANGED <<pc[v], trip[v], want[v], patch[v]>>,
             \A t \in Trips : state'[t] # "deleted" => state[t] # "deleted" /\ booked'[t] = booked[t],
             \A t \in Trips : state'[t] = "active" => state[t] = "active"
      PROVE  ActiveApart' /\ ChecksHold'
  <2>1. ActiveApart'
    BY <1>h, <1>t, QuietStep
  <2>2. ASSUME NEW v \in Workers, ~outdated'[v] PROVE CheckHolds(v)'
    <3>1. CASE v = w
      BY <1>h, <3>1
    <3>2. CASE v # w
      <4>1. ~outdated[v]
        BY <1>h, <1>y, <2>2, <3>2
      <4> QED
        BY <1>h, <1>t, <3>2, <4>1, QuietStep
    <3> QED
      BY <3>1, <3>2
  <2> QED
    BY <2>1, <2>2 DEF ChecksHold
<1>f. ASSUME NEW w \in Workers, Finish(w)
      PROVE  /\ CheckHolds(w)'
             /\ \A v \in Workers \ {w} : UNCHANGED <<pc[v], trip[v], want[v], patch[v]>>
  <2>1. pc'[w] = "idle"
    BY <1>f, <1>y DEF Finish
  <2>2. CheckHolds(w)'
    BY <2>1 DEF CheckHolds
  <2> QED
    BY <1>f, <1>y, <2>2 DEF Finish
<1>b. ASSUME NEW w \in Workers, NEW next \in {"vehicle", "status"}, NEW t \in Trips \cup {NoTrip},
             NEW b \in Booking, NEW p \in Patch, Begin(w, next, t, b, p), UNCHANGED rowVars,
             next = "vehicle" /\ t # NoTrip => b = EffectiveBooking(p, booked[t]),
             next = "status" => t \in Trips /\ state[t] = "active"
      PROVE  ActiveApart' /\ ChecksHold'
  <2>1. /\ pc'[w] = next /\ trip'[w] = t /\ want'[w] = b /\ patch'[w] = p
        /\ outdated' = [outdated EXCEPT ![w] = FALSE]
        /\ \A v \in Workers \ {w} : UNCHANGED <<pc[v], trip[v], want[v], patch[v]>>
    BY <1>b, <1>y DEF Begin
  <2>2. state' = state /\ booked' = booked /\ raced' = raced
    BY <1>b DEF rowVars
  <2>3. CheckHolds(w)'
    <3>1. CASE next = "vehicle"
      BY <1>b, <2>1, <2>2, <3>1 DEF CheckHolds
    <3>2. CASE next = "status"
      <4>1. ApartUnlessRaced(t)
        BY <1>b, <3>2 DEF Inv, ActiveApart
      <4>2. ApartUnlessRaced(t)'
        BY <2>2, <4>1 DEF ApartUnlessRaced
      <4>3. ApartUnlessRaced(trip[w])'
        BY <2>1, <4>2 DEF ApartUnlessRaced
      <4> QED
        BY <2>1, <3>2, <4>3 DEF CheckHolds
    <3> QED
      BY <3>1, <3>2
  <2> QED
    BY <1>h, <2>1, <2>2, <2>3
\* A worker goes on to its next check or to the write.
<1>g. ASSUME NEW w \in Workers, NEW next \in PC, Goto(w, next), UNCHANGED <<rowVars, locals, outdated>>,
             ~outdated[w] => CheckHolds(w)'
      PROVE  ActiveApart' /\ ChecksHold'
  <2>1. /\ state' = state /\ booked' = booked /\ raced' = raced /\ outdated' = outdated
        /\ trip' = trip /\ want' = want /\ patch' = patch
        /\ \A v \in Workers \ {w} : pc'[v] = pc[v]
    BY <1>g, <1>y DEF Goto, rowVars, locals
  <2>2. ASSUME NEW v \in Workers, ~outdated'[v] PROVE CheckHolds(v)'
    BY <1>g, <1>t, <2>1, <2>2, QuietStep
  <2> QED
    BY <1>t, <2>1, <2>2, QuietStep DEF ChecksHold
<1>1. ASSUME NEW w \in Workers, NEW b \in Bookings, CreateCall(w, b)
      PROVE  ActiveApart' /\ ChecksHold'
  BY <1>1, <1>b, RequestTypes DEF CreateCall
<1>2. ASSUME NEW w \in Workers, NEW t \in Trips, NEW p \in Patches, UpdateCall(w, t, p)
      PROVE  ActiveApart' /\ ChecksHold'
  <2>1. EffectiveBooking(p, booked[t]) \in Booking /\ p \in Patch
    BY <1>y, RequestTypes, PatchTypes
  <2> QED
    BY <1>2, <2>1, <1>b DEF UpdateCall
<1>3. ASSUME NEW w \in Workers, CheckVehicle(w) PROVE ActiveApart' /\ ChecksHold'
  <2>1. pc[w] = "vehicle" /\ pc'[w] = "driver" /\ Free(want[w], "vehicle", trip[w])
        /\ UNCHANGED <<state, booked, trip, want, patch>>
    BY <1>3, <1>y DEF CheckVehicle, Goto, rowVars, locals
  <2>2. Free(want[w], "vehicle", trip[w])'
    BY <2>1 DEF Free, Conflicts
  <2>3. ~outdated[w] => CheckHolds(w)'
    BY <1>k, <2>1, <2>2 DEF CheckHolds
  <2> QED
    BY <1>3, <1>g, <2>3 DEF CheckVehicle, PC
<1>4. ASSUME NEW w \in Workers, CheckDriver(w) PROVE ActiveApart' /\ ChecksHold'
  <2>1. /\ pc[w] = "driver" /\ pc'[w] \in {"insert", "update"}
        /\ Free(want[w], "driver", trip[w])
        /\ UNCHANGED <<state, booked, trip, want, patch>>
    BY <1>4, <1>y DEF CheckDriver, Goto, rowVars, locals
  <2>2. Free(want[w], "driver", trip[w])'
    BY <2>1 DEF Free, Conflicts
  <2>3. ~outdated[w] => Free(want[w], "vehicle", trip[w])'
    BY <1>k, <2>1 DEF Free, Conflicts, CheckHolds
  <2>4. ~outdated[w] => CheckHolds(w)'
    BY <1>k, <2>1, <2>2, <2>3 DEF CheckHolds
  <2> QED
    BY <1>4, <1>g, <2>4 DEF CheckDriver, PC
<1>5. ASSUME NEW w \in Workers, Clash(w) PROVE ActiveApart' /\ ChecksHold'
  BY <1>5, <1>f, <1>h DEF Clash, Harmless
<1>6. ASSUME NEW w \in Workers, NEW t \in Trips, Insert(w, t) PROVE ActiveApart' /\ ChecksHold'
  <2>1. /\ pc[w] = "insert" /\ trip[w] = NoTrip /\ booked'[t] = want[w]
        /\ \A u \in Trips \ {t} : state'[u] = state[u] /\ booked'[u] = booked[u]
    BY <1>6, <1>t, <1>y DEF Insert, TypeOK
  <2>2. ASSUME NEW u \in Trips \ {t}, state[u] = "active", ~outdated[w]
        PROVE  ~Clashes(want[w], booked[u])
    <3>1. u # NoTrip
      BY NullAssumption DEF NoTrip
    <3>2. Free(want[w], "vehicle", trip[w]) /\ Free(want[w], "driver", trip[w])
      BY <1>k, <2>1, <2>2 DEF CheckHolds
    <3> QED
      BY <2>1, <2>2, <3>1, <3>2, FreeIsApart
  <2>3. ActiveApart'
    BY <1>6, <2>1, <2>2, BookedStep DEF Insert
  <2> QED
    BY <1>6, <1>t, <2>3, WroteStep DEF Insert
<1>7. ASSUME NEW w \in Workers, UpdateWrite(w) PROVE ActiveApart' /\ ChecksHold'
  <2> DEFINE t == trip[w]
  <2>1. /\ pc[w] = "update" /\ t \in Trips /\ t # NoTrip /\ state[t] # "deleted" /\ state' = state
        /\ booked'[t] = Patched(patch[w], booked[t])
        /\ \A u \in Trips \ {t} : booked'[u] = booked[u]
    BY <1>7, <1>t, <1>y, NullAssumption DEF UpdateWrite, TypeOK, NoTrip
  <2>2. ASSUME NEW u \in Trips \ {t}, state[u] = "active", ~outdated[w]
        PROVE  ~Clashes(booked'[t], booked[u])
    <3>1. /\ Free(want[w], "vehicle", t) /\ Free(want[w], "driver", t)
          /\ want[w] = EffectiveBooking(patch[w], booked[t])
      BY <1>k, <2>1, <2>2 DEF CheckHolds
    <3>2. ~Clashes(want[w], booked[u])
      BY <2>2, <3>1, FreeIsApart
    <3> QED
      BY <1>y, <2>1, <3>1, <3>2, PatchedClash
  <2>3. Wrote(w, t) /\ Finish(w)
    BY <1>7 DEF UpdateWrite
  <2> HIDE DEF t
  <2>4. ActiveApart'
    BY <2>1, <2>2, <2>3, BookedStep
  <2> QED
    BY <1>t, <2>1, <2>3, <2>4, WroteStep
<1>8. ASSUME NEW w \in Workers, NEW t \in Trips, StatusCall(w, t) PROVE ActiveApart' /\ ChecksHold'
  BY <1>8, <1>b, RequestTypes DEF StatusCall
<1>9. ASSUME NEW w \in Workers, StayActive(w) PROVE ActiveApart' /\ ChecksHold'
  <2> DEFINE t == trip[w]
  <2>1. /\ pc[w] = "status" /\ t \in Trips /\ state[t] # "deleted" /\ booked' = booked
        /\ state' = [state EXCEPT ![t] = "active"] /\ Finish(w)
    BY <1>9, <1>t DEF StayActive, TypeOK
  <2>2. CASE state[t] = "active"
    BY <1>9, <1>f, <1>h, <1>y, <2>1, <2>2 DEF StayActive, Harmless
  <2>3. CASE state[t] # "active"
    <3>1. Wrote(w, t)
      BY <1>9, <2>3 DEF StayActive
    <3>2. ASSUME NEW u \in Trips \ {t}, state[u] = "active", ~outdated[w],
                 Clashes(booked'[t], booked[u])
          PROVE  t \in raced \/ u \in raced
      <4>1. ApartUnlessRaced(t)
        BY <1>k, <2>1, <3>2 DEF CheckHolds
      <4> QED
        BY <2>1, <3>2, <4>1 DEF ApartUnlessRaced
    <3>3. \A u \in Trips \ {t} : state'[u] = state[u] /\ booked'[u] = booked[u]
      BY <1>y, <2>1
    <3> HIDE DEF t
    <3>4. ActiveApart'
      BY <2>1, <3>1, <3>2, <3>3, BookedStep
    <3> QED
      BY <1>t, <2>1, <3>1, <3>4, WroteStep
  <2> QED
    BY <2>2, <2>3
<1>10. ASSUME NEW w \in Workers, Release(w) PROVE ActiveApart' /\ ChecksHold'
  BY <1>10, <1>f, <1>h, <1>y DEF Release, Harmless
<1>11. ASSUME NEW w \in Workers, Abandon(w) PROVE ActiveApart' /\ ChecksHold'
  BY <1>11, <1>f, <1>h DEF Abandon, Harmless
<1>12. ASSUME NEW t \in Trips, Remove(t) PROVE ActiveApart' /\ ChecksHold'
  <2>1. /\ UNCHANGED <<raced, pc, trip, want, patch, outdated>>
        /\ \A u \in Trips : state'[u] # "deleted" => state'[u] = state[u] /\ booked'[u] = booked[u]
    BY <1>12, <1>y DEF Remove, locals
  <2> QED
    BY <1>t, <2>1, QuietStep DEF ChecksHold
<1>13. CASE UNCHANGED vars
  BY <1>13, <1>t, QuietStep DEF vars, ChecksHold
<1> QED
  BY <1>1, <1>2, <1>3, <1>4, <1>5, <1>6, <1>7, <1>8, <1>9, <1>10, <1>11, <1>12, <1>13 DEF Next

\* Only requests that meet another booking between their check and their write
\* double-book a vehicle or a driver, for any number of requests and trips.
THEOREM OnlyRacesDoubleBook == Spec => []BookedTwiceByRaceOnly
<1>1. Init => Inv
  <2> SUFFICES ASSUME Init PROVE ActiveApart /\ ChecksHold
    BY TypeInit DEF Inv
  <2>1. ActiveApart
    BY DEF Init, ActiveApart
  <2>2. ChecksHold
    BY DEF Init, ChecksHold, CheckHolds
  <2> QED
    BY <2>1, <2>2
<1>2. Inv => BookedTwiceByRaceOnly
  <2> SUFFICES ASSUME Inv, NEW t \in Trips, NEW u \in Trips, t # u,
                      state[t] = "active", state[u] = "active",
                      Shares(booked[t], booked[u]), Together(booked[t], booked[u])
               PROVE  t \in raced \/ u \in raced
    BY DEF BookedTwiceByRaceOnly
  <2>1. booked[t] \in Booking /\ booked[u] \in Booking
    BY DEF Inv, TypeOK
  <2>2. Clashes(booked[t], booked[u])
    BY <2>1, InstantsOverlap DEF Clashes
  <2> QED
    BY <2>2 DEF Inv, ActiveApart, ApartUnlessRaced
<1> QED
  BY <1>1, <1>2, GuardStep, PTL DEF Spec
=============================================================================
