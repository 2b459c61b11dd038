------------------------------- MODULE Reports -------------------------------
(***************************************************************************)
(* The figures: trip summary, driver, vehicle and customer reports, the    *)
(* dashboard's counters, delay statistics and costs, as operators on a     *)
(* table of trips (what the one findMany of each returns).                 *)
(*                                                                         *)
(* Instants are integers.  A day of UTC is DayLength of them; the business *)
(* day is Offset ahead.  A rate is in tenths of a percent, a distance in   *)
(* tenths of a kilometre.  Abstracted: labels, sorting, the PDF layout,    *)
(* reports by month.                                                       *)
(***************************************************************************)
EXTENDS Integers, FiniteSets, Functions

CONSTANTS
    Statuses,       \* TripStatus
    Restricted,     \* ids of restricted vehicles
    IdOf,           \* per spelling of a driver's name: driverIdFromName, Null if blank
    Components,     \* keys of COST_COMPONENTS
    DayLength,      \* length of a day
    Offset,         \* of the business day
    Margin,         \* DEFAULT_DELAY_MARGIN_MINUTES
    ActivityDays,   \* WEEKLY_ACTIVITY_DAYS
    Null            \* null

ASSUME ReportsAssumption ==
    /\ Statuses = {"PLANNED", "ASSIGNED", "STARTED", "ONGOING", "DELAYED", "COMPLETED",
                   "CANCELLED"}
    /\ IsFiniteSet(Components)
    /\ DayLength \in Nat \ {0}
    /\ Offset \in Int
    /\ ActivityDays \in Nat
    /\ Null \notin Int

Active == {"STARTED", "ONGOING", "DELAYED"}

\* Math.round of a / b, for b > 0.
RoundDiv(a, b) == (2 * a + b) \div (2 * b)

Pct(part, whole) == IF whole = 0 THEN 0 ELSE RoundDiv(1000 * part, whole)

-----------------------------------------------------------------------------
(* Days                                                                    *)

BusinessDay(i) == (i + Offset) \div DayLength

RangeStart(day) == day * DayLength - Offset

\* Inclusive: the last instant of the day.
RangeEnd(day) == RangeStart(day + 1) - 1

\* periodKey: days and weeks of UTC; day 0 is a Monday.
PeriodKey(i, period) ==
    LET day == i \div DayLength
    IN IF period = "day" THEN day ELSE day - (day % 7)

-----------------------------------------------------------------------------
(* Which trips: T is a table, a function from ids to rows                  *)

\* A client is pinned to its own trips; an admin may name a client.
InScope(user, client, t) ==
    IF user.role = "CLIENT" THEN t.client = user.id ELSE client \in {Null, t.client}

InRange(q, t) ==
    /\ q.from = Null \/ t.start >= RangeStart(q.from)
    /\ q.to = Null \/ t.start <= RangeEnd(q.to)

Selected(T, user, q) ==
    {i \in DOMAIN T : InScope(user, q.client, T[i]) /\ InRange(q, T[i])}

OfClient(T, client) == {i \in DOMAIN T : client \in {Null, T[i].client}}

Count(T, S, statuses) == Cardinality({i \in S : T[i].status \in statuses})

-----------------------------------------------------------------------------
(* Sums over trips                                                         *)

\* detectDelay
IsDelayed(end, arrival) == arrival - end > Margin

Arrived(t) == IF t.completed = Null THEN t.end ELSE t.completed

\* Actual minutes, when both stamps are there and in order.
HasElapsed(t) ==
    t.status = "COMPLETED" /\ t.started # Null /\ t.completed # Null /\ t.completed >= t.started

Tally(T, S) ==
    LET done == {i \in S : T[i].status = "COMPLETED"}
        late == {i \in done : IsDelayed(T[i].end, Arrived(T[i]))}
        timed == {i \in S : HasElapsed(T[i])}
    IN [trips     |-> Cardinality(S),
        completed |-> Cardinality(done),
        active    |-> Count(T, S, Active),
        cancelled |-> Count(T, S, {"CANCELLED"}),
        onTime    |-> Cardinality(done \ late),
        delayed   |-> Cardinality(late),
        km        |-> SumFunction([i \in S |-> T[i].km]),
        minutes   |-> SumFunction([i \in timed |-> T[i].completed - T[i].started]),
        timed     |-> Cardinality(timed)]

\* One row per key; only trips with a key count.
GroupBy(T, key) ==
    [k \in {key[i] : i \in DOMAIN key} \ {Null} |-> Tally(T, {i \in DOMAIN key : key[i] = k})]

\* The last row of a report: every column added up.
Total(rows, column) == SumFunction([k \in DOMAIN rows |-> rows[k][column]])

Rates(row) ==
    [completionRate  |-> Pct(row.completed, row.trips),
     onTimeRate      |-> Pct(row.onTime, row.completed),
     avgDurationMins |-> IF row.timed = 0 THEN 0 ELSE RoundDiv(row.minutes, row.timed)]

-----------------------------------------------------------------------------
(* The reports                                                             *)

SummaryReport(T, user, q) ==
    LET S == Selected(T, user, q)
    IN [total    |-> Cardinality(S),
        byStatus |-> [s \in Statuses |-> Count(T, S, {s})],
        vehicle  |-> [i \in S |-> IF T[i].vehicle \in Restricted THEN Null ELSE T[i].vehicle]]

DriverIdFromName(name) == IF name = Null THEN Null ELSE IdOf[name]

\* Mutant: a driver is its id only.
DriverIdAlone(id, name) == id

DriverKey(id, name) == IF id # Null THEN id ELSE DriverIdFromName(name)

DriverReport(T, user, q) ==
    LET S == {i \in Selected(T, user, q) : T[i].driverId # Null \/ T[i].driverName # Null}
    IN GroupBy(T, [i \in S |-> DriverKey(T[i].driverId, T[i].driverName)])

\* The ids offered for a new trip; vehicles is a function to [client, driverName].
ListDrivers(vehicles, client) ==
    {DriverIdFromName(vehicles[v].driverName) :
         v \in {u \in DOMAIN vehicles \ Restricted : vehicles[u].client = client}} \ {Null}

\* The minutes a trip keeps its vehicle busy.
Engaged(t) ==
    IF HasElapsed(t) THEN t.completed - t.started
    ELSE IF t.status \in Active \cup {"COMPLETED"} /\ t.start < t.end THEN t.end - t.start
    ELSE 0

\* The requested range, or the span of the trips where a bound is left out.
WindowMinutes(T, S, q) ==
    IF S = {} /\ Null \in {q.from, q.to} THEN 0
    ELSE LET first == IF q.from # Null THEN RangeStart(q.from)
                      ELSE CHOOSE m \in {T[i].start : i \in S} :
                               \A i \in S : m <= T[i].start
             last == IF q.to # Null THEN RangeEnd(q.to)
                     ELSE CHOOSE m \in {T[i].end : i \in S} : \A i \in S : m >= T[i].end
         IN IF last < first THEN 0 ELSE last - first

VehicleReport(T, user, q) ==
    LET S == {i \in Selected(T, user, q) : T[i].vehicle # Null}
        minutes == WindowMinutes(T, S, q)
        shown == {i \in S : T[i].vehicle \notin Restricted}
        busy(v) == {i \in shown : T[i].vehicle = v}
        share(v) == Pct(SumFunction([i \in busy(v) |-> Engaged(T[i])]), minutes)
    IN [rows        |-> GroupBy(T, [i \in shown |-> T[i].vehicle]),
        utilization |-> [v \in {T[i].vehicle : i \in shown} |->
                             IF share(v) > 1000 THEN 1000 ELSE share(v)]]

CustomerReport(T, client, q) ==
    LET S == {i \in OfClient(T, client) : InRange(q, T[i])}
    IN GroupBy(T, [i \in S |-> T[i].customer])

-----------------------------------------------------------------------------
(* The dashboard                                                           *)

\* Mutant: the list is not scoped.
DeliveredAtAll(T, client) ==
    LET done == {i \in DOMAIN T : T[i].status = "COMPLETED"}
    IN [completed |-> Cardinality(done),
        delayed   |-> Cardinality({i \in done : IsDelayed(T[i].end, Arrived(T[i]))})]

\* getDeliveryMetrics: a count and a list, read one beside the other.
Delivered(T, client) ==
    LET done == {i \in OfClient(T, client) : T[i].status = "COMPLETED"}
    IN [completed |-> Cardinality(done),
        delayed   |-> Cardinality({i \in done : IsDelayed(T[i].end, Arrived(T[i]))})]

DeliveryMetrics(total, list) ==
    [completionRate |-> Pct(list.completed, total),
     onTimeRate     |-> Pct(list.completed - list.delayed, list.completed),
     delayedRate    |-> Pct(list.delayed, list.completed)]

TripSummary(T, client) ==
    LET S == OfClient(T, client)
    IN [active    |-> Count(T, S, Active),
        upcoming  |-> Count(T, S, {"PLANNED", "ASSIGNED"}),
        delayed   |-> Count(T, S, {"DELAYED"}),
        completed |-> Count(T, S, {"COMPLETED"})]

WeeklyActivity(T, client, now) ==
    LET today == BusinessDay(now)
        fetched == {i \in OfClient(T, client) :
                        /\ T[i].start >= RangeStart(today - (ActivityDays - 1))
                        /\ T[i].start < RangeStart(today) + DayLength}
    IN [day \in today - (ActivityDays - 1) .. today |->
            Cardinality({i \in fetched : BusinessDay(T[i].start) = day})]

\* effectiveVehicleStatus
EffectiveStatus(v) == IF v.isOnline /\ v.status \in {"MOVING", "IDLE"} THEN v.status ELSE "OFFLINE"

\* vehicles is a function to [client, status, isOnline].
DashboardStats(vehicles, client) ==
    LET S == {v \in DOMAIN vehicles \ Restricted : client \in {Null, vehicles[v].client}}
        with(s) == Cardinality({v \in S : EffectiveStatus(vehicles[v]) = s})
    IN [totalVehicles   |-> Cardinality(S),
        activeVehicles  |-> with("MOVING"),
        idleVehicles    |-> with("IDLE"),
        offlineVehicles |-> with("OFFLINE")]

ActiveVehicles(vehicles, client) ==
    {v \in DOMAIN vehicles \ Restricted :
         /\ client \in {Null, vehicles[v].client}
         /\ vehicles[v].isOnline
         /\ vehicles[v].status \in {"MOVING", "IDLE"}}

-----------------------------------------------------------------------------
(* Delays: D is a function from ids to [trip, category, minutes, at]       *)

Reported(D, T, user, q) ==
    {d \in DOMAIN D :
         /\ InScope(user, Null, T[D[d].trip])
         /\ q.from = Null \/ D[d].at >= RangeStart(q.from)
         /\ q.to = Null \/ D[d].at <= RangeEnd(q.to)}

\* One bucket per key.
Bump(D, key) ==
    [k \in {key[d] : d \in DOMAIN key} |->
        LET B == {d \in DOMAIN key : key[d] = k}
        IN [count |-> Cardinality(B), minutes |-> SumFunction([d \in B |-> D[d].minutes])]]

DelayStats(D, T, user, q, period) ==
    LET S == Reported(D, T, user, q)
        driver(d) == DriverKey(T[D[d].trip].driverId, T[D[d].trip].driverName)
    IN [count      |-> Cardinality(S),
        minutes    |-> SumFunction([d \in S |-> D[d].minutes]),
        byCategory |-> Bump(D, [d \in S |-> D[d].category]),
        byDriver   |-> Bump(D, [d \in S |-> IF driver(d) = Null THEN "UNASSIGNED" ELSE driver(d)]),
        byRoute    |-> Bump(D, [d \in S |-> T[D[d].trip].route]),
        byPeriod   |-> Bump(D, [d \in S |-> PeriodKey(D[d].at, period)])]

-----------------------------------------------------------------------------
(* Costs: C is a function from ids of trips to Null or                     *)
(* [estimated, actual], each with an amount per component                  *)

Amount(cost, group, c) == IF cost = Null THEN 0 ELSE cost[group][c]

\* computeCostVariance
Variance(cost) ==
    LET sum(group) == SumFunction([c \in Components |-> Amount(cost, group, c)])
    IN [estimatedTotal |-> sum("estimated"),
        actualTotal    |-> sum("actual"),
        total          |-> sum("actual") - sum("estimated"),
        by             |-> [c \in Components |->
                                Amount(cost, "actual", c) - Amount(cost, "estimated", c)]]

CostReport(C, T, user, q) ==
    LET S == Selected(T, user, q)
        sum(group, c) == SumFunction([i \in S |-> Amount(C[i], group, c)])
        row == [i \in S |-> Variance(C[i])]
    IN [rows        |-> row,
        byComponent |-> [c \in Components |->
                             [estimated |-> sum("estimated", c),
                              actual    |-> sum("actual", c),
                              variance  |-> sum("actual", c) - sum("estimated", c)]],
        totals      |-> [estimatedTotal |-> SumFunction([i \in S |-> row[i].estimatedTotal]),
                         actualTotal    |-> SumFunction([i \in S |-> row[i].actualTotal]),
                         variance       |-> SumFunction([i \in S |-> row[i].total])]]
=============================================================================
