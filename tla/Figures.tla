------------------------------- MODULE Figures -------------------------------
(***************************************************************************)
(* What the reports and the arrival times promise, whatever the trips that *)
(* exist look like: bounded inputs stand for what Records abstracts.  Each *)
(* figure is held against a count made another way, and figures that show  *)
(* the same thing in two places against each other.                        *)
(***************************************************************************)
EXTENDS Records, Progress

CONSTANTS
    Tables,         \* tables of trips
    Users,          \* who asks
    Queries,        \* what for: client, from, to
    Today,          \* instants at which the dashboard is read
    Fleets,         \* tables of vehicles
    DelayTables,    \* tables of delays, each with its trips
    CostTables,     \* tables of costs, each with its trips
    Journeys,       \* trips with a route, a position and a speed
    Grid,           \* the points of Journeys are multiples of it
    StopLists       \* stops to put in order, with origin, destination and distances

IsTable(T) ==
    /\ IsFiniteSet(DOMAIN T)
    /\ \A i \in DOMAIN T :
           /\ T[i].status \in Statuses
           /\ T[i].start \in Int /\ T[i].end \in Int
           /\ T[i].started \in {Null} \cup Int /\ T[i].completed \in {Null} \cup Int

IsDelayTable(D, T) ==
    /\ IsFiniteSet(DOMAIN D)
    /\ \A d \in DOMAIN D : D[d].trip \in DOMAIN T /\ D[d].minutes \in Int /\ D[d].at \in Int

IsCostTable(C, T) ==
    \A i \in DOMAIN T :
        C[i] = Null \/ \A c \in Components : C[i].estimated[c] \in Int /\ C[i].actual[c] \in Int

IsJourney(trip) ==
    /\ trip.origin \in Places /\ trip.destination \in Places
    /\ trip.stops \in Seq(Places)
    /\ trip.position \in Places /\ trip.speed \in Places
    /\ trip.end \in Int

IsStopList(l) ==
    /\ l.far \in [l.points \X l.points -> Nat]
    /\ l.origin \in l.points /\ l.destination \in l.points
    /\ l.stops \in Seq(l.points)

ASSUME FiguresAssumption ==
    /\ \A T \in Tables : IsTable(T)
    /\ \A user \in Users : user.role = "CLIENT" => user.id # Null
    /\ \A q \in Queries : q.from \in {Null} \cup Int /\ q.to \in {Null} \cup Int
    /\ Today \subseteq Int
    /\ \A V \in Fleets : IsFiniteSet(DOMAIN V)
    /\ \A d \in DelayTables : IsTable(d.trips) /\ IsDelayTable(d.delays, d.trips)
    /\ \A c \in CostTables : IsTable(c.trips) /\ IsCostTable(c.costs, c.trips)
    /\ \A journey \in Journeys : IsJourney(journey)
    /\ Grid \in Nat \ {0}
    /\ \A l \in StopLists : IsStopList(l)

\* The columns of a report add up and its rates are rates.
Counted(rows) ==
    /\ Total(rows, "onTime") + Total(rows, "delayed") = Total(rows, "completed")
    /\ \A k \in DOMAIN rows :
           /\ rows[k].completed + rows[k].active + rows[k].cancelled <= rows[k].trips
           /\ Rates(rows[k]).completionRate \in 0 .. 1000

\* Every trip a report selects is counted once: in a row, or for the lack of a key.
RowsPartition(T, user, q) ==
    LET S == Selected(T, user, q)
        nobody == {i \in S : /\ T[i].driverId = Null
                             /\ T[i].driverName = Null \/ IdOf[T[i].driverName] = Null}
        unseen == {i \in S : T[i].vehicle = Null \/ T[i].vehicle \in Restricted}
        unnamed == {i \in S : T[i].customer = Null}
        total == SummaryReport(T, user, q).total
        vehicles == VehicleReport(T, user, q)
    IN /\ Counted(DriverReport(T, user, q))
       /\ Counted(vehicles.rows)
       /\ Total(DriverReport(T, user, q), "trips") + Cardinality(nobody) = total
       /\ Total(vehicles.rows, "trips") + Cardinality(unseen) = total
       /\ \A v \in DOMAIN vehicles.utilization : vehicles.utilization[v] \in 0 .. 1000
       /\ user.role = "CLIENT" =>
              Total(CustomerReport(T, user.id, q), "trips") + Cardinality(unnamed) = total
       /\ SumFunction(SummaryReport(T, user, q).byStatus) = total

\* A range splits at any day into two that leave no trip out and count none twice.
RangesSplit(T, user, q) ==
    LET range(from, to) == [client |-> q.client, from |-> from, to |-> to]
        total(from, to) == SummaryReport(T, user, range(from, to)).total
    IN Null \notin {q.from, q.to} =>
           \A day \in q.from .. q.to - 1 :
               total(q.from, q.to) = total(q.from, day) + total(day + 1, q.to)

\* The dashboard shows what the reports show.
DashboardAgrees(T, user) ==
    LET client == IF user.role = "CLIENT" THEN user.id ELSE Null
        all == [client |-> Null, from |-> Null, to |-> Null]
        summary == SummaryReport(T, user, all).byStatus
        cards == TripSummary(T, client)
    IN /\ Delivered(T, client).completed = summary["COMPLETED"]
       /\ cards.active + cards.upcoming + cards.completed + summary["CANCELLED"]
          = SummaryReport(T, user, all).total
       /\ Total(DriverReport(T, user, all), "delayed") <= Delivered(T, client).delayed
       /\ \A now \in Today :
              LET week == WeeklyActivity(T, client, now)
              IN /\ Cardinality(DOMAIN week) = ActivityDays
                 /\ \A day \in DOMAIN week :
                        week[day] = SummaryReport(T, user, [client |-> Null, from |-> day, to |-> day]).total

\* The counters of the fleet add up, and the list of active vehicles is what they count.
FleetAgrees(V) ==
    LET stats == DashboardStats(V, Null)
    IN /\ stats.activeVehicles + stats.idleVehicles + stats.offlineVehicles = stats.totalVehicles
       /\ Cardinality(ActiveVehicles(V, Null)) = stats.activeVehicles + stats.idleVehicles

\* The statistics of delays add up along each axis, and name the drivers as the
\* driver report does.
DelaysAgree(D, T, user, q) ==
    \A period \in {"day", "week"} :
        LET stats == DelayStats(D, T, user, q, period)
            all == [client |-> Null, from |-> Null, to |-> Null]
            whole(buckets) ==
                /\ Total(buckets, "count") = stats.count
                /\ Total(buckets, "minutes") = stats.minutes
        IN /\ whole(stats.byCategory) /\ whole(stats.byDriver)
           /\ whole(stats.byRoute) /\ whole(stats.byPeriod)
           /\ DOMAIN stats.byDriver \ {"UNASSIGNED"} \subseteq DOMAIN DriverReport(T, user, all)
           /\ \A week \in DOMAIN stats.byPeriod : period = "week" => week % 7 = 0

\* Costs add up alike by trip and by component.
CostsAgree(C, T, user, q) ==
    LET report == CostReport(C, T, user, q)
        sum(column) == SumFunction([c \in Components |-> report.byComponent[c][column]])
    IN /\ sum("estimated") = report.totals.estimatedTotal
       /\ sum("actual") = report.totals.actualTotal
       /\ sum("variance") = report.totals.variance

TablesAgree ==
    \A T \in Tables, user \in Users :
        /\ DashboardAgrees(T, user)
        /\ \A q \in Queries : RowsPartition(T, user, q) /\ RangesSplit(T, user, q)

\* Two cards of the dashboard, on the trips of the database.
CardsAgree ==
    \A client \in Clients \cup {Null} :
        Delivered(Table, client).completed = TripSummary(Table, client).completed

OthersAgree ==
    /\ \A V \in Fleets : FleetAgrees(V)
    /\ \A d \in DelayTables, user \in Users, q \in Queries :
           DelaysAgree(d.delays, d.trips, user, q)
    /\ \A c \in CostTables, user \in Users, q \in Queries :
           CostsAgree(c.costs, c.trips, user, q)

\* One table, many readers: the reports and the dashboard count every trip in their
\* scope exactly once, agree with each other and put a day's edge in the same place,
\* whether a driver was picked or typed in, whatever bound of the range is left out
\* and whichever vehicle is restricted.
ReportsAgree == (\E t \in Trips : Exists(t)) => CardsAgree /\ TablesAgree /\ OthersAgree

-----------------------------------------------------------------------------
\* The point at x metres along the route: where the covered distance should be.
PointAt(points, x) ==
    LET before(i) == RouteTotalDistance(SubSeq(points, 1, i))
        i == CHOOSE j \in 1 .. Len(points) - 1 :
                 x - before(j) \in 0 .. Distance(points[j], points[j + 1])
    IN IF points[i] < points[i + 1] THEN points[i] + (x - before(i))
       ELSE points[i] - (x - before(i))

\* The covered distance is the first place on the route that is nearest to the
\* vehicle.
CoversNearest(points, position) ==
    LET progress == RouteProgress(points, position)
        off(x) == Distance(position, PointAt(points, x))
    IN position # Missing /\ Len(points) > 1 /\ progress.total > 0 =>
           /\ off(progress.covered) = progress.deviation
           /\ \A x \in {Grid * n : n \in 0 .. progress.total \div Grid} :
                  off(x) > progress.deviation
                  \/ (off(x) = progress.deviation /\ x >= progress.covered)

JourneyOrdered(journey) ==
    LET stops == StopEtas(journey, 0)
        eta == TripEta(journey, 0)
    IN /\ CoversNearest(RoutePoints(journey), journey.position)
       /\ \A i, j \in DOMAIN stops : i <= j => stops[i] <= stops[j]
       /\ \A i \in DOMAIN stops :
              /\ eta # Missing
              /\ stops[i] <= eta
              /\ i = Len(journey.stops) /\ journey.destination = Missing => stops[i] = eta
              /\ stops[i] > journey.end + DelayMargin => Delay(journey, 0)
       /\ eta # Missing =>
              \A late \in 0 .. 1 :
                  "ETA_SHIFT" \in EtaAlerts(journey, eta - ShiftMinutes * 60 + late * 31, 0)
                  <=> late = 0

\* Per status: every trip in it has its times in order.
JourneysOrdered ==
    [s \in Statuses |-> \A journey \in Journeys : journey.status = s => JourneyOrdered(journey)]

\* Arrival times tell one story: the vehicle is placed at the nearest point of the
\* route, a stop is never reached after a later one or after the destination, the stop
\* a route ends at is reached when the trip is, and a trip with a stop predicted past
\* the planned end and its margin is flagged delayed.  An arrival that drifts by the
\* threshold, to the nearest minute, is an alert; one that drifts less is none.
EtasOrdered == \A t \in Trips : Exists(t) => JourneysOrdered[trips[t].status]

\* An order once stored is what the next call finds, so that call must leave it.
OrdersServe ==
    \A l \in StopLists :
        LET optimize(stops) == StopOptimization(l.far, l.origin, l.destination, stops)
            first == optimize(l.stops)
            second == optimize(Reordered(l.stops, first.order))
        IN /\ ToSet(first.order) = DOMAIN l.stops
           /\ Len(first.order) = Len(l.stops)
           /\ second.order = [n \in DOMAIN l.stops |-> n]
           /\ second.original = first.optimized
           /\ second.optimized = first.optimized

\* Two optimisations in a row, on any map: the first visits every stop once, ties and
\* stops at one place included; the second finds a route of the length the first
\* reported, moves no stop and saves nothing.
OrderServes == (\E t \in Trips : Exists(t)) => OrdersServe
=============================================================================
