------------------------------ MODULE MCRecords ------------------------------
(* Small instances of Records, and the inputs on which Figures is checked.  *)
EXTENDS Figures, TLC

CONSTANTS t1, t2, c1, c2, f1, w1, w2, vr

TwoTrips == {t1, t2}
TwoClients == {c1, c2}
OneFile == {f1}
TwoWorkers == {w1, w2}
Symmetry == Permutations(Trips) \cup Permutations(Workers)

SomeStatuses == {"PLANNED", "ASSIGNED"} \cup Active \cup {"COMPLETED", "CANCELLED"}
OneRestricted == {vr}
Spellings == [n \in {"Ann", "ann ", " "} |-> IF n = " " THEN Null ELSE "ann"]
TwoComponents == {"fuel", "tolls"}

\* Drivers picked, typed in, both, neither; with no, a plain or a restricted vehicle.
People ==
    {[client |-> c, driverId |-> d[1], driverName |-> d[2], vehicle |-> v, customer |-> k] :
         c \in {c1, c2},
         d \in {<<Null, Null>>, <<"ann", Null>>, <<"bob", "Ann">>, <<Null, "Ann">>,
                <<Null, "ann ">>, <<Null, " ">>},
         v \in {Null, "v", vr}, k \in {Null, "k"}}

\* Planned over midnight of the business day and of UTC; in time, late, unstamped,
\* stamped out of order.
Times ==
    {[start |-> s, end |-> s + 2, started |-> x[1], completed |-> x[2]] :
         s \in {-2, 3, 4, 6, 7}, x \in {<<Null, Null>>, <<4, 8>>, <<9, 8>>}}

Joined(p, t, s) ==
    [client |-> p.client, driverId |-> p.driverId, driverName |-> p.driverName,
     vehicle |-> p.vehicle, customer |-> p.customer, status |-> s, km |-> 3, route |-> "r",
     start |-> t.start, end |-> t.end, started |-> t.started, completed |-> t.completed]

Ann == [client |-> c1, driverId |-> Null, driverName |-> "Ann", vehicle |-> "v", customer |-> "k"]
OnTime == [start |-> 3, end |-> 5, started |-> 3, completed |-> 6]
Other == Joined(Ann, OnTime, "COMPLETED")

SomeTables ==
    {<<>>} \cup {<<Joined(p, OnTime, "COMPLETED"), Other>> : p \in People}
           \cup {<<Joined(Ann, t, s), Other>> : t \in Times, s \in SomeStatuses}

SomeUsers == {[role |-> "ADMIN", id |-> Null], [role |-> "CLIENT", id |-> c1]}
SomeQueries ==
    {[client |-> c, from |-> r[1], to |-> r[2]] :
         c \in {Null, c1},
         r \in {<<Null, Null>>, <<1, Null>>, <<Null, 1>>, <<0, 2>>, <<1, 1>>, <<1, 0>>}}
SomeDays == {3, 6}

SomeFleets ==
    [{"v", "u", vr} -> [client : {c1}, isOnline : BOOLEAN, driverName : {Null},
                        status : {"MOVING", "IDLE", "OFFLINE"}]]

SomeDelays ==
    {[trips |-> <<Joined(p, OnTime, "STARTED"), Other>>,
      delays |-> <<[trip |-> 1, category |-> "TRAFFIC", minutes |-> 5, at |-> a],
                   [trip |-> 2, category |-> c, minutes |-> 0, at |-> 4]>>] :
         p \in People, a \in {3, 31}, c \in {"TRAFFIC", "WEATHER"}}

Amounts == [{"fuel", "tolls"} -> {0, 2}]
SomeCosts ==
    {[trips |-> <<Other, Joined([Ann EXCEPT !.client = c2], OnTime, "PLANNED")>>, costs |-> <<a, b>>] :
         a \in [estimated : Amounts, actual : Amounts],
         b \in {Null, [estimated |-> [c \in {"fuel", "tolls"} |-> 1],
                       actual |-> [c \in {"fuel", "tolls"} |-> 3]]}}

\* Routes that run on, double back and have points that were never geocoded.
SomeJourneys ==
    [status : {"STARTED", "COMPLETED"}, origin : {Missing, 0, 1500},
     stops : {<<>>, <<3000>>, <<Missing, 1500>>, <<1500, 4500>>, <<3000, 1500>>, <<3000, 3000>>},
     destination : {Missing, 0, 4500}, position : {Missing, -500, 1500, 2000, 5000},
     speed : {Missing, 5, 60}, end : {-600, 100}]

\* A point of the plane is a pair; distances are rounded down to a tenth.
Tenths(a, b) ==
    LET square == 100 * ((a[1] - b[1]) * (a[1] - b[1]) + (a[2] - b[2]) * (a[2] - b[2]))
    IN CHOOSE n \in 0 .. 300 : n * n <= square /\ square < (n + 1) * (n + 1)

\* Stops ahead and behind, at equal distances, at one place, and three ahead for which
\* the nearest first is a detour.
SomePoints == {<<0, 0>>, <<10, -2>>, <<10, 1>>, <<10, 5>>, <<0, 10>>, <<-10, 0>>, <<10, 0>>}
Plane == [d \in SomePoints \X SomePoints |-> Tenths(d[1], d[2])]

SomeStopLists ==
    [points : {SomePoints}, far : {Plane}, origin : {<<0, 0>>, <<10, 1>>},
     destination : {<<0, 0>>, <<10, 5>>}, stops : UNION {[1 .. n -> SomePoints] : n \in 0 .. 3}]
=============================================================================
