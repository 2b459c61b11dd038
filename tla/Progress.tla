------------------------------- MODULE Progress -------------------------------
(***************************************************************************)
(* How far a trip is and when it arrives: trip-progress.util, trip-eta.util,*)
(* trip-delay.util, trip-eta-alert.util, route-optimize.util and the reads *)
(* of TripsService that use them.                                          *)
(*                                                                         *)
(* The map is a line: a point is a number of metres along it, the distance *)
(* of two points their difference, and the projection of a point onto a    *)
(* segment the nearest point of it.  Routes may double back.  A point that *)
(* was never geocoded, and the position of a vehicle that has none, is     *)
(* Missing.  Instants are seconds.                                         *)
(*                                                                         *)
(* The order of the stops does without the line: there the map is a table  *)
(* of distances, which may be those of any points on the globe.            *)
(***************************************************************************)
EXTENDS Integers, Sequences, FiniteSets, FiniteSetsExt, SequencesExt

CONSTANTS
    DelayMargin,    \* seconds past the planned end that count as on time
    ShiftMinutes,   \* drift of the arrival that raises an alert
    Missing         \* null

ASSUME ProgressAssumption ==
    /\ Missing \notin Int
    /\ DelayMargin \in Int
    /\ ShiftMinutes \in Nat \ {0}

Places == {Missing} \cup Int

InTransit == {"STARTED", "ONGOING", "DELAYED"}

Distance(a, b) == IF a < b THEN b - a ELSE a - b

RouteTotalDistance(points) ==
    SumFunction([i \in 1 .. Len(points) - 1 |-> Distance(points[i], points[i + 1])])

\* Those that are not Missing (SelectSeq, written so that it can be reasoned about).
Located(points) ==
    LET upTo[n \in 0 .. Len(points)] ==
            IF n = 0 THEN <<>>
            ELSE IF points[n] = Missing THEN upTo[n - 1]
            ELSE Append(upTo[n - 1], points[n])
    IN upTo[Len(points)]

\* The points of the route that have coordinates, in order.
RoutePoints(trip) == Located(<<trip.origin>> \o trip.stops \o <<trip.destination>>)

\* The point of the segment from a to b that is nearest to p.
Projection(a, b, p) ==
    LET low == IF a < b THEN a ELSE b
        high == IF a < b THEN b ELSE a
    IN IF p < low THEN low ELSE IF p > high THEN high ELSE p

\* computeRouteProgress: of the nearest segments the first.
RouteProgress(points, position) ==
    LET total == RouteTotalDistance(points)
        segments == 1 .. Len(points) - 1
        nearest(i) == Projection(points[i], points[i + 1], position)
        off(i) == Distance(position, nearest(i))
        best == CHOOSE i \in segments :
                    \A j \in segments : off(i) < off(j) \/ (off(i) = off(j) /\ i <= j)
        covered == RouteTotalDistance(SubSeq(points, 1, best))
                   + Distance(points[best], nearest(best))
    IN IF position = Missing \/ Len(points) < 2 \/ total = 0
       THEN [total |-> total, covered |-> 0, remaining |-> total, deviation |-> 0]
       ELSE [total |-> total, covered |-> covered, remaining |-> total - covered,
             deviation |-> off(best)]

-----------------------------------------------------------------------------
(* Arrival times                                                           *)

EffectiveSpeedKmh(speed) == IF speed # Missing /\ speed > 5 THEN speed ELSE 40

\* computeEta: seconds, rounded.
ComputeEta(remaining, speed, now) ==
    LET v == EffectiveSpeedKmh(speed)
    IN now + (2 * 36 * remaining + 10 * v) \div (2 * 10 * v)

\* computeTripEta; Missing if the trip is not on its way or not to be seen.
TripEta(trip, now) ==
    LET progress == RouteProgress(RoutePoints(trip), trip.position)
    IN IF trip.status \in InTransit /\ trip.position # Missing /\ progress.remaining > 0
       THEN ComputeEta(progress.remaining, trip.speed, now)
       ELSE Missing

\* Mutant: the route to a stop starts at the first stop.
PrefixOfStops(trip, i) == Located(SubSeq(trip.stops, 1, i))

\* The route up to a stop.
Prefix(trip, i) == Located(<<trip.origin>> \o SubSeq(trip.stops, 1, i))

RemainingTo(trip, i) ==
    RouteTotalDistance(Prefix(trip, i))
    - RouteProgress(RoutePoints(trip), trip.position).covered

\* getStopEtas: for the stops with coordinates that are still ahead.
StopEtas(trip, now) ==
    LET ahead == {i \in DOMAIN trip.stops :
                      /\ trip.status \in InTransit /\ trip.position # Missing
                      /\ trip.stops[i] # Missing
                      /\ RemainingTo(trip, i) > 0}
    IN [i \in ahead |-> ComputeEta(RemainingTo(trip, i), trip.speed, now)]

-----------------------------------------------------------------------------
(* Delays and alerts                                                       *)

DetectDelay(end, arrival) == arrival - end > DelayMargin

\* getDelay
Delay(trip, now) ==
    IF trip.status \in {"COMPLETED", "CANCELLED"} THEN FALSE
    ELSE LET eta == TripEta(trip, now)
         IN DetectDelay(trip.end, IF eta = Missing THEN now ELSE eta)

\* buildEtaShiftAlert: the drift in minutes, rounded upwards from the half.
EtaShifted(baseline, eta) == Distance(0, (2 * (eta - baseline) + 60) \div 120) >= ShiftMinutes

\* getEtaAlerts
EtaAlerts(trip, baseline, now) ==
    LET eta == TripEta(trip, now)
    IN (IF Delay(trip, now) THEN {"DELAY"} ELSE {})
       \cup (IF baseline # Missing /\ eta # Missing /\ EtaShifted(baseline, eta)
             THEN {"ETA_SHIFT"} ELSE {})

-----------------------------------------------------------------------------
(* The order of the stops                                                  *)

\* Mutant: every stop may be the nearest again.
ForgetVisited(stops, visited) == DOMAIN stops

Unvisited(stops, visited) == DOMAIN stops \ ToSet(visited)

\* optimizeStopOrder: always to the nearest that is left, of equals the first.
\* far[a, b] is the distance from a to b.
StopOrder(far, origin, stops) ==
    LET order[n \in 0 .. Len(stops)] ==
            IF n = 0 THEN <<>>
            ELSE LET left == Unvisited(stops, order[n - 1])
                     here == IF n = 1 THEN origin ELSE stops[order[n - 1][n - 1]]
                     to(i) == far[here, stops[i]]
                 IN Append(order[n - 1],
                           CHOOSE i \in left :
                               \A j \in left : to(i) < to(j) \/ (to(i) = to(j) /\ i <= j))
    IN order[Len(stops)]

\* The stops as optimizeStops stores them.
Reordered(stops, order) == [n \in DOMAIN order |-> stops[order[n]]]

RouteLength(far, points) ==
    SumFunction([i \in 1 .. Len(points) - 1 |-> far[points[i], points[i + 1]]])

\* computeStopOptimization: the length of the route before and after.
StopOptimization(far, origin, destination, stops) ==
    LET order == StopOrder(far, origin, stops)
        through(middle) == RouteLength(far, <<origin>> \o middle \o <<destination>>)
    IN [order     |-> order,
        original  |-> through(stops),
        optimized |-> through(Reordered(stops, order))]
=============================================================================
