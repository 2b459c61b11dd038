------------------------- MODULE TripLifecycleProofs -------------------------
(* Proofs about TripLifecycle for any workers, places and bounds.           *)
EXTENDS TripLifecycle, SequenceTheorems, TLAPS

\* A stop list as the nested create writes it is well typed, carries new ids
\* only, and is completely pending.
LEMMA FreshStopsFacts ==
    ASSUME NEW route \in Seq(Places), NEW first \in Nat
    PROVE  LET list == FreshStops(route, first) IN
           /\ list \in Seq(Stop)
           /\ Len(list) = Len(route)
           /\ \A i \in 1..Len(list) : list[i].id = first + i /\ ~list[i].done
<1> DEFINE n == Len(route)
<1> DEFINE list == [i \in 1..n |-> [id |-> first + i, place |-> route[i], done |-> FALSE]]
<1>1. n \in Nat
  OBVIOUS
<1>2. \A i \in 1..n : route[i] \in Places
  OBVIOUS
<1>3. \A i \in 1..n : [id |-> first + i, place |-> route[i], done |-> FALSE] \in Stop
  BY <1>1, <1>2 DEF Stop
<1>4. list \in [1..n -> Stop]
  BY <1>3
<1>5. list \in Seq(Stop) /\ Len(list) = n
  <2>1. list \in Seq(Stop)
    BY <1>1, <1>4, SeqDef
  <2>2. DOMAIN list = 1..n
    OBVIOUS
  <2> QED
    BY <1>1, <2>1, <2>2, LenProperties
<1>6. \A i \in 1..n : list[i].id = first + i /\ ~list[i].done
  OBVIOUS
<1>7. FreshStops(route, first) = list
  BY DEF FreshStops
<1> QED
  BY <1>5, <1>6, <1>7

\* The places of a stop list, in any order, are a sequence of places.
LEMMA RearrangedType ==
    ASSUME NEW list \in Seq(Stop), NEW route \in Rearranged(PlacesOf(list))
    PROVE  route \in Seq(Places)
<1> DEFINE n == Len(list)
<1>0. \A i \in 1..n : list[i] \in Stop
  OBVIOUS
<1>1. n \in Nat /\ \A i \in 1..n : list[i].place \in Places
  BY <1>0 DEF Stop
<1>2. PlacesOf(list) \in [1..n -> Places]
  BY <1>1 DEF PlacesOf
<1>3. Len(PlacesOf(list)) = n
  BY <1>1 DEF PlacesOf
<1>4. PICK p \in [1..n -> 1..n] : route = [i \in 1..n |-> PlacesOf(list)[p[i]]]
  BY <1>3 DEF Rearranged
<1>5. route \in [1..n -> Places]
  BY <1>2, <1>4
<1> QED
  BY <1>1, <1>5

\* Routes are sequences of places.
LEMMA RoutesType == ASSUME NEW route \in Routes PROVE route \in Seq(Places)
  BY BoundAssumption DEF Routes

\* Completing one stop keeps the list well typed, its ids and its places.
LEMMA CompletedListFacts ==
    ASSUME NEW list \in Seq(Stop), NEW id \in Nat
    PROVE  LET after == [i \in 1..Len(list) |->
                           [list[i] EXCEPT !.done = @ \/ list[i].id = id]] IN
           /\ after \in Seq(Stop)
           /\ Len(after) = Len(list)
           /\ \A i \in 1..Len(list) :
                /\ after[i].id = list[i].id
                /\ after[i].done <=> (list[i].done \/ list[i].id = id)
<1> DEFINE n == Len(list)
<1> DEFINE after == [i \in 1..n |-> [list[i] EXCEPT !.done = @ \/ list[i].id = id]]
<1>1. n \in Nat /\ \A i \in 1..n : list[i] \in Stop
  OBVIOUS
<1>2. ASSUME NEW s \in Stop
      PROVE  LET t == [s EXCEPT !.done = @ \/ s.id = id] IN
             t \in Stop /\ t.id = s.id /\ (t.done <=> (s.done \/ s.id = id))
  BY DEF Stop
<1>3. \A i \in 1..n : after[i] = [list[i] EXCEPT !.done = @ \/ list[i].id = id]
  OBVIOUS
<1>4. \A i \in 1..n : /\ after[i] \in Stop
                      /\ after[i].id = list[i].id
                      /\ after[i].done <=> (list[i].done \/ list[i].id = id)
  BY <1>1, <1>2, <1>3
<1>5. after \in [1..n -> Stop]
  BY <1>4
<1>6. after \in Seq(Stop) /\ Len(after) = n
  BY <1>1, <1>5
<1> QED
  BY <1>4, <1>6

-----------------------------------------------------------------------------
(* Type correctness.                                                       *)

\* Every value a handler stores or keeps has its type.
LEMMA TypeStep == TypeOK /\ [Next]_vars => TypeOK'
<1> SUFFICES ASSUME TypeOK, [Next]_vars PROVE TypeOK'
  OBVIOUS
<1> USE DEF TypeOK, rowVars, stopVars, notices, locals, Goto, Begin
<1>f. ASSUME NEW w \in Workers, Finish(w)
      PROVE  /\ pc' \in [Workers -> PC] /\ goal' \in [Workers -> Statuses]
             /\ fresh' \in [Workers -> BOOLEAN] /\ arg' \in [Workers -> Nat]
             /\ plan' \in [Workers -> Seq(Places)]
  <2>1. << >> \in Seq(Places)
    OBVIOUS
  <2>2. plan' \in [Workers -> Seq(Places)]
    BY <1>f, <2>1 DEF Finish
  <2> QED
    BY <1>f, <2>2 DEF Finish, PC, Statuses
<1>s. ASSUME NEW w \in Workers, ReplaceStops(plan[w])
      PROVE  stops' \in Seq(Stop) /\ lastId' \in Nat
  <2>1. plan[w] \in Seq(Places) /\ Len(plan[w]) \in Nat
    OBVIOUS
  <2>2. FreshStops(plan[w], lastId) \in Seq(Stop)
    BY <2>1, FreshStopsFacts
  <2> QED
    BY <1>s, <2>1, <2>2 DEF ReplaceStops
<1>1. ASSUME NEW w \in Workers, NEW to \in Statuses, StatusCall(w, to) PROVE TypeOK'
  BY <1>1 DEF StatusCall, PC
<1>2. ASSUME NEW w \in Workers, FinalStopCheck(w) PROVE TypeOK'
  BY <1>2 DEF FinalStopCheck, PC
<1>3. ASSUME NEW w \in Workers, FinalStopMissing(w) PROVE TypeOK'
  BY <1>3, <1>f DEF FinalStopMissing
<1>4. ASSUME NEW w \in Workers, StatusWrite(w) PROVE TypeOK'
  BY <1>4 DEF StatusWrite, PC
<1>5. ASSUME NEW w \in Workers, Notify(w) PROVE TypeOK'
  BY <1>5, <1>f DEF Notify
<1>6. ASSUME NEW w \in Workers, NEW id \in 1..MaxIds, CompleteStopCall(w, id) PROVE TypeOK'
  BY <1>6, BoundAssumption DEF CompleteStopCall, PC
<1>7. ASSUME NEW w \in Workers, CompleteStopRead(w) PROVE TypeOK'
  BY <1>7 DEF CompleteStopRead, PC
<1>8. ASSUME NEW w \in Workers, CompleteStopRefused(w) PROVE TypeOK'
  BY <1>8, <1>f DEF CompleteStopRefused
<1>9. ASSUME NEW w \in Workers, StopWrite(w) PROVE TypeOK'
  <2>1. stops \in Seq(Stop) /\ arg[w] \in Nat
    OBVIOUS
  <2>2. stops' = [i \in 1..Len(stops) |->
                    [stops[i] EXCEPT !.done = @ \/ stops[i].id = arg[w]]]
    BY <1>9 DEF StopWrite
  <2>3. stops' \in Seq(Stop)
    BY ONLY <2>1, <2>2, CompletedListFacts
  <2> QED
    BY <1>9, <1>f, <2>3 DEF StopWrite
<1>10. ASSUME NEW w \in Workers, StopWriteMissed(w) PROVE TypeOK'
  BY <1>10, <1>f DEF StopWriteMissed
<1>11. ASSUME NEW w \in Workers, NEW route \in Routes, UpdateCall(w, route) PROVE TypeOK'
  BY <1>11, RoutesType DEF UpdateCall, PC
<1>12. ASSUME NEW w \in Workers, UpdateWrite(w) PROVE TypeOK'
  BY <1>12, <1>f, <1>s DEF UpdateWrite
<1>13. ASSUME NEW w \in Workers, OptimizeCall(w) PROVE TypeOK'
  BY <1>13 DEF OptimizeCall, PC
<1>14. ASSUME NEW w \in Workers, OptimizeRead(w) PROVE TypeOK'
  <2>1. PICK route \in Rearranged(PlacesOf(stops)) : plan' = [plan EXCEPT ![w] = route]
    BY <1>14 DEF OptimizeRead
  <2>2. route \in Seq(Places)
    BY RearrangedType
  <2> QED
    BY <1>14, <2>1, <2>2 DEF OptimizeRead, PC
<1>15. ASSUME NEW w \in Workers, OptimizeRefused(w) PROVE TypeOK'
  BY <1>15, <1>f DEF OptimizeRefused
<1>16. ASSUME NEW w \in Workers, OptimizeWrite(w) PROVE TypeOK'
  BY <1>16, <1>f, <1>s DEF OptimizeWrite
<1>17. ASSUME NEW w \in Workers, RowMissed(w) PROVE TypeOK'
  BY <1>17, <1>f DEF RowMissed
<1>18. ASSUME NEW w \in Workers, Abandon(w) PROVE TypeOK'
  BY <1>18, <1>f DEF Abandon
<1>19. CASE Remove
  <2>1. << >> \in Seq(Stop)
    OBVIOUS
  <2> QED
    BY <1>19, <2>1 DEF Remove
<1>20. CASE UNCHANGED vars
  BY <1>20 DEF vars
<1> QED
  BY <1>1, <1>2, <1>3, <1>4, <1>5, <1>6, <1>7, <1>8, <1>9, <1>10, <1>11, <1>12,
     <1>13, <1>14, <1>15, <1>16, <1>17, <1>18, <1>19, <1>20 DEF Next

\* A created trip is well typed.
LEMMA TypeInit == Init => TypeOK
<1> SUFFICES ASSUME Init PROVE TypeOK
  OBVIOUS
<1>1. PICK route \in Routes : stops = FreshStops(route, 0) /\ lastId = Len(route)
  BY DEF Init
<1>2. route \in Seq(Places)
  BY RoutesType
<1>3. stops \in Seq(Stop) /\ lastId \in Nat
  BY <1>1, <1>2, FreshStopsFacts
<1>4. << >> \in Seq(Places)
  OBVIOUS
<1>5. plan \in [Workers -> Seq(Places)]
  BY <1>4 DEF Init
<1> QED
  BY <1>3, <1>5 DEF Init, TypeOK, Statuses, PC

\* Type correctness of the life cycle, for any number of handlers.
THEOREM TypeCorrect == Spec => []TypeOK
  BY TypeInit, TypeStep, PTL DEF Spec

-----------------------------------------------------------------------------
(* Safety however handlers interleave.                                      *)

StopsSafe == IdsUnique /\ ArrivalInOrder /\ CompletedPrefix

\* A list of pending stops with new ids satisfies every claim about stops.
LEMMA ReplacedStops ==
    ASSUME TypeOK, StopsSafe, NEW w \in Workers, ReplaceStops(plan[w]),
           pc[w] \in {"edit", "reorder"}, Finish(w)
    PROVE  StopsSafe'
<1>1. plan[w] \in Seq(Places) /\ Len(plan[w]) \in Nat /\ lastId \in Nat
  BY DEF TypeOK
<1>2. /\ stops' \in Seq(Stop)
      /\ Len(stops') = Len(plan[w])
      /\ \A i \in 1..Len(stops') : stops'[i].id = lastId + i /\ ~stops'[i].done
  BY <1>1, FreshStopsFacts DEF ReplaceStops
<1>3. lastId' = lastId + Len(plan[w])
  BY DEF ReplaceStops
<1>4. \A i \in 1..Len(plan[w]) : /\ lastId + i <= lastId + Len(plan[w])
                                 /\ \A n \in Nat : n <= lastId => lastId + i # n
  BY <1>1
<1>5. IdsUnique'
  BY <1>1, <1>2, <1>3, <1>4 DEF IdsUnique
<1>6. ArrivalInOrder'
  <2> SUFFICES ASSUME NEW v \in Workers, pc'[v] = "complete"
               PROVE  /\ arg'[v] <= lastId'
                      /\ \A i \in 1..Len(stops') : stops'[i].id # arg'[v]
    BY DEF ArrivalInOrder
  <2>1. pc[v] = "complete" /\ arg'[v] = arg[v] /\ arg[v] \in Nat
    BY DEF Finish, TypeOK
  <2>2. arg[v] <= lastId
    BY <2>1 DEF StopsSafe, ArrivalInOrder
  <2> QED
    BY <1>1, <1>2, <1>3, <1>4, <2>1, <2>2
<1>7. CompletedPrefix'
  BY <1>2 DEF CompletedPrefix
<1> QED
  BY <1>5, <1>6, <1>7 DEF StopsSafe

\* No step completes a stop before an earlier one or hands out an id twice.
LEMMA StopsStep == TypeOK /\ StopsSafe /\ [Next]_vars => StopsSafe'
<1> SUFFICES ASSUME TypeOK, StopsSafe, [Next]_vars PROVE StopsSafe'
  OBVIOUS
<1> DEFINE NoNewArrival ==
             \A w \in Workers : pc'[w] = "complete" =>
                pc[w] = "complete" /\ arg'[w] = arg[w]
<1>u. ASSUME UNCHANGED stopVars, NoNewArrival PROVE StopsSafe'
  BY <1>u DEF StopsSafe, stopVars, IdsUnique, ArrivalInOrder, CompletedPrefix
<1>1. ASSUME NEW w \in Workers, NEW to \in Statuses, StatusCall(w, to) PROVE StopsSafe'
  BY <1>1, <1>u DEF StatusCall, Begin, TypeOK
<1>2. ASSUME NEW w \in Workers, FinalStopCheck(w) PROVE StopsSafe'
  BY <1>2, <1>u DEF FinalStopCheck, Goto, TypeOK, locals
<1>3. ASSUME NEW w \in Workers, FinalStopMissing(w) PROVE StopsSafe'
  BY <1>3, <1>u DEF FinalStopMissing, Finish, TypeOK
<1>4. ASSUME NEW w \in Workers, StatusWrite(w) PROVE StopsSafe'
  BY <1>4, <1>u DEF StatusWrite, Goto, TypeOK, locals
<1>5. ASSUME NEW w \in Workers, Notify(w) PROVE StopsSafe'
  BY <1>5, <1>u DEF Notify, Finish, TypeOK
<1>6. ASSUME NEW w \in Workers, NEW id \in 1..MaxIds, CompleteStopCall(w, id) PROVE StopsSafe'
  BY <1>6, <1>u DEF CompleteStopCall, Begin, TypeOK
<1>7. ASSUME NEW w \in Workers, CompleteStopRead(w) PROVE StopsSafe'
  <2>1. PICK i \in 1..Len(stops) : /\ stops[i].id = arg[w]
                                   /\ \A j \in 1..(i - 1) : stops[j].done
    BY <1>7 DEF CompleteStopRead, InOrder
  <2>2. UNCHANGED <<stops, lastId, arg>>
    BY <1>7 DEF CompleteStopRead, stopVars, locals
  <2>3. arg[w] <= lastId
    BY <2>1 DEF StopsSafe, IdsUnique
  <2>4. \A k \in 1..Len(stops) : stops[k].id = arg[w] => k = i
    BY <2>1 DEF StopsSafe, IdsUnique
  <2>5. \A v \in Workers : pc'[v] = "complete" => v = w \/ pc[v] = "complete"
    BY <1>7 DEF CompleteStopRead, Goto, TypeOK
  <2> QED
    BY <2>1, <2>2, <2>3, <2>4, <2>5 DEF StopsSafe, IdsUnique, ArrivalInOrder, CompletedPrefix
<1>8. ASSUME NEW w \in Workers, CompleteStopRefused(w) PROVE StopsSafe'
  BY <1>8, <1>u DEF CompleteStopRefused, Finish, TypeOK
<1>9. ASSUME NEW w \in Workers, StopWrite(w) PROVE StopsSafe'
  <2>1. stops \in Seq(Stop) /\ arg[w] \in Nat /\ Len(stops) \in Nat
    BY DEF TypeOK
  <2>2. /\ Len(stops') = Len(stops)
        /\ \A i \in 1..Len(stops) :
             /\ stops'[i].id = stops[i].id
             /\ stops'[i].done <=> (stops[i].done \/ stops[i].id = arg[w])
    BY <1>9, <2>1, CompletedListFacts DEF StopWrite
  <2>3. lastId' = lastId
    BY <1>9 DEF StopWrite
  <2>4. pc[w] = "complete"
    BY <1>9 DEF StopWrite
  <2>5. NoNewArrival
    BY <1>9 DEF StopWrite, Finish, TypeOK
  <2>6. IdsUnique'
    BY <2>2, <2>3 DEF StopsSafe, IdsUnique
  <2>7. ArrivalInOrder'
    BY <2>1, <2>2, <2>3, <2>5 DEF StopsSafe, ArrivalInOrder
  <2>8. ASSUME NEW i \in 1..Len(stops), NEW j \in 1..Len(stops), i < j, stops'[j].done
        PROVE  stops'[i].done
    <3>1. CASE stops[j].done
      BY <2>2, <2>8, <3>1 DEF StopsSafe, CompletedPrefix
    <3>2. CASE stops[j].id = arg[w]
      <4>1. i \in 1..(j - 1)
        BY <2>1, <2>8
      <4>2. stops[i].done
        BY <2>4, <3>2, <4>1 DEF StopsSafe, ArrivalInOrder
      <4> QED
        BY <2>2, <4>2
    <3> QED
      BY <2>2, <2>8, <3>1, <3>2
  <2>9. CompletedPrefix'
    BY <2>2, <2>8 DEF CompletedPrefix
  <2> QED
    BY <2>6, <2>7, <2>9 DEF StopsSafe
<1>10. ASSUME NEW w \in Workers, StopWriteMissed(w) PROVE StopsSafe'
  BY <1>10, <1>u DEF StopWriteMissed, Finish, TypeOK
<1>11. ASSUME NEW w \in Workers, NEW route \in Routes, UpdateCall(w, route) PROVE StopsSafe'
  BY <1>11, <1>u DEF UpdateCall, Begin, TypeOK
<1>12. ASSUME NEW w \in Workers, UpdateWrite(w) PROVE StopsSafe'
  BY <1>12, ReplacedStops DEF UpdateWrite
<1>13. ASSUME NEW w \in Workers, OptimizeCall(w) PROVE StopsSafe'
  BY <1>13, <1>u DEF OptimizeCall, Begin, TypeOK, locals
<1>14. ASSUME NEW w \in Workers, OptimizeRead(w) PROVE StopsSafe'
  BY <1>14, <1>u DEF OptimizeRead, Goto, TypeOK
<1>15. ASSUME NEW w \in Workers, OptimizeRefused(w) PROVE StopsSafe'
  BY <1>15, <1>u DEF OptimizeRefused, Finish, TypeOK
<1>16. ASSUME NEW w \in Workers, OptimizeWrite(w) PROVE StopsSafe'
  BY <1>16, ReplacedStops DEF OptimizeWrite
<1>17. ASSUME NEW w \in Workers, RowMissed(w) PROVE StopsSafe'
  BY <1>17, <1>u DEF RowMissed, Finish, TypeOK
<1>18. ASSUME NEW w \in Workers, Abandon(w) PROVE StopsSafe'
  BY <1>18, <1>u DEF Abandon, Finish, TypeOK
<1>19. CASE Remove
  <2>1. stops' = << >> /\ UNCHANGED <<lastId, pc, arg>>
    BY <1>19 DEF Remove, locals
  <2>2. Len(stops') = 0
    BY <2>1
  <2> QED
    BY <2>1, <2>2 DEF StopsSafe, IdsUnique, ArrivalInOrder, CompletedPrefix
<1>20. CASE UNCHANGED vars
  BY <1>20, <1>u DEF vars, stopVars
<1> QED
  BY <1>1, <1>2, <1>3, <1>4, <1>5, <1>6, <1>7, <1>8, <1>9, <1>10, <1>11, <1>12,
     <1>13, <1>14, <1>15, <1>16, <1>17, <1>18, <1>19, <1>20 DEF Next

\* The stops of a created trip are pending, with ids of their own.
LEMMA StopsInit == Init => StopsSafe
<1> SUFFICES ASSUME Init PROVE StopsSafe
  OBVIOUS
<1>1. PICK route \in Routes : stops = FreshStops(route, 0) /\ lastId = Len(route)
  BY DEF Init
<1>2. route \in Seq(Places) /\ Len(route) \in Nat
  BY RoutesType
<1>3. /\ Len(stops) = lastId
      /\ \A i \in 1..Len(stops) : stops[i].id = i /\ ~stops[i].done
  BY <1>1, <1>2, FreshStopsFacts
<1>4. pc = [w \in Workers |-> "idle"]
  BY DEF Init
<1>5. \A w \in Workers : pc[w] # "complete"
  BY <1>4
<1> QED
  BY <1>1, <1>2, <1>3, <1>5 DEF StopsSafe, IdsUnique, ArrivalInOrder, CompletedPrefix

\* The stops of a trip are completed strictly in sequence, for any number of
\* concurrent handlers and any length of the list.
THEOREM StopsInSequence == Spec => []CompletedPrefix
<1>1. Init => TypeOK /\ StopsSafe
  BY TypeInit, StopsInit
<1>2. TypeOK /\ StopsSafe /\ [Next]_vars => (TypeOK /\ StopsSafe)'
  BY TypeStep, StopsStep
<1>3. StopsSafe => CompletedPrefix
  BY DEF StopsSafe
<1> QED
  BY <1>1, <1>2, <1>3, PTL DEF Spec

RowSafe == GoalStarted /\ StartRecorded /\ NoticeTruthful

\* No step moves a trip to a status that presupposes a start without stamping
\* the start, or tells the client so.
LEMMA RowStep == TypeOK /\ RowSafe /\ [Next]_vars => RowSafe'
<1> SUFFICES ASSUME TypeOK, RowSafe, [Next]_vars PROVE RowSafe'
  OBVIOUS
<1> DEFINE NoNewGoal ==
             \A w \in Workers :
               \/ pc'[w] = pc[w] /\ goal'[w] = goal[w] /\ fresh'[w] = fresh[w]
               \/ pc'[w] \in {"idle", "readStops", "complete", "edit",
                              "readOrder", "reorder"}
<1>u. ASSUME UNCHANGED rowVars, UNCHANGED told, NoNewGoal PROVE RowSafe'
  <2>1. GoalStarted'
    BY <1>u DEF RowSafe, rowVars, GoalStarted, TypeOK
  <2>2. StartRecorded' /\ NoticeTruthful'
    BY <1>u DEF RowSafe, rowVars, StartRecorded, NoticeTruthful
  <2> QED
    BY <2>1, <2>2 DEF RowSafe
<1>1. ASSUME NEW w \in Workers, NEW to \in Statuses, StatusCall(w, to) PROVE RowSafe'
  <2>1. /\ pc' = [pc EXCEPT ![w] = IF to = "COMPLETED" THEN "finalStop" ELSE "status"]
        /\ goal' = [goal EXCEPT ![w] = to]
        /\ fresh' = [fresh EXCEPT ![w] = starts = 0]
        /\ UNCHANGED <<status, starts, completed, told>>
    BY <1>1 DEF StatusCall, Begin, rowVars
  <2>2. status \in Statuses /\ to \in TRANSITIONS[status]
    BY <1>1 DEF StatusCall, Exists
  <2>3. to \in {"ONGOING", "DELAYED", "COMPLETED"} =>
          status \in {"STARTED", "ONGOING", "DELAYED"}
    BY <2>2 DEF TRANSITIONS, Statuses
  <2>4. to \in {"ONGOING", "DELAYED", "COMPLETED"} => starts > 0
    BY <2>3 DEF RowSafe, StartRecorded
  <2>5. GoalStarted'
    <3>1. /\ pc'[w] = IF to = "COMPLETED" THEN "finalStop" ELSE "status"
          /\ goal'[w] = to
          /\ fresh'[w] <=> starts = 0
          /\ starts \in Nat
      BY <2>1 DEF TypeOK
    <3>2. \A v \in Workers \ {w} :
            pc'[v] = pc[v] /\ goal'[v] = goal[v] /\ fresh'[v] = fresh[v]
      BY <2>1 DEF TypeOK
    <3>3. starts' = starts /\ completed' = completed
      BY <2>1
    <3> QED
      BY <2>4, <3>1, <3>2, <3>3 DEF RowSafe, GoalStarted
  <2>6. StartRecorded' /\ NoticeTruthful'
    BY <2>1 DEF RowSafe, StartRecorded, NoticeTruthful
  <2> QED
    BY <2>5, <2>6 DEF RowSafe
<1>2. ASSUME NEW w \in Workers, FinalStopCheck(w) PROVE RowSafe'
  BY <1>2 DEF FinalStopCheck, Goto, notices, TypeOK, locals, rowVars, RowSafe, GoalStarted,
              StartRecorded, NoticeTruthful
<1>3. ASSUME NEW w \in Workers, FinalStopMissing(w) PROVE RowSafe'
  BY <1>3, <1>u DEF FinalStopMissing, Finish, notices, TypeOK
<1>4. ASSUME NEW w \in Workers, StatusWrite(w) PROVE RowSafe'
  <2>1. /\ pc[w] = "status"
        /\ pc' = [pc EXCEPT ![w] = "notify"]
        /\ status' = goal[w]
        /\ starts' = starts + IF goal[w] \in {"STARTED", "ONGOING"} /\ fresh[w] THEN 1 ELSE 0
        /\ completed' = (completed \/ goal[w] = "COMPLETED")
        /\ UNCHANGED <<told, goal, fresh>>
    BY <1>4 DEF StatusWrite, Goto, notices, locals
  <2>2. starts \in Nat /\ starts' \in Nat /\ starts' >= starts /\ (completed => completed')
    BY <2>1 DEF TypeOK
  <2>3. goal[w] \in {"STARTED", "ONGOING", "DELAYED", "COMPLETED"} => starts' > 0
    <3>1. CASE goal[w] = "STARTED"
      BY <2>1, <2>2, <3>1 DEF RowSafe, GoalStarted, TypeOK
    <3>2. CASE goal[w] \in {"ONGOING", "DELAYED", "COMPLETED"}
      BY <2>1, <2>2, <3>2 DEF RowSafe, GoalStarted, TypeOK
    <3> QED
      BY <3>1, <3>2
  <2>4. goal[w] = "COMPLETED" => completed'
    BY <2>1
  <2>5. StartRecorded'
    BY <2>1, <2>3, <2>4 DEF StartRecorded
  <2>6. NoticeTruthful'
    BY <2>1, <2>2 DEF RowSafe, NoticeTruthful
  <2>7. GoalStarted'
    <3> SUFFICES ASSUME NEW v \in Workers
                 PROVE  (pc'[v] = "notify" => /\ goal'[v] \in NotifiedStatuses => starts' > 0
                                              /\ goal'[v] = "COMPLETED" => completed')
                        /\ (pc'[v] # "notify" => pc'[v] = pc[v])
      BY <2>1, <2>2 DEF RowSafe, GoalStarted, TypeOK
    <3>1. CASE v = w
      BY <2>1, <2>3, <2>4, <3>1 DEF NotifiedStatuses, TypeOK
    <3>2. CASE v # w
      <4>1. pc'[v] = pc[v] /\ goal'[v] = goal[v]
        BY <2>1, <3>2 DEF TypeOK
      <4> QED
        BY <2>2, <4>1 DEF RowSafe, GoalStarted
    <3> QED
      BY <3>1, <3>2
  <2> QED
    BY <2>5, <2>6, <2>7 DEF RowSafe
<1>5. ASSUME NEW w \in Workers, Notify(w) PROVE RowSafe'
  <2>1. NoNewGoal /\ UNCHANGED rowVars /\ pc[w] = "notify"
    BY <1>5 DEF Notify, Finish, TypeOK
  <2>2. GoalStarted'
    BY <2>1 DEF RowSafe, rowVars, GoalStarted, TypeOK
  <2>3. told' \subseteq told \cup ({goal[w]} \cap NotifiedStatuses)
    BY <1>5 DEF Notify
  <2>4. NoticeTruthful'
    BY <2>1, <2>3 DEF RowSafe, rowVars, GoalStarted, NoticeTruthful
  <2>5. StartRecorded'
    BY <2>1 DEF RowSafe, rowVars, StartRecorded
  <2> QED
    BY <2>2, <2>4, <2>5 DEF RowSafe
<1>6. ASSUME NEW w \in Workers, NEW id \in 1..MaxIds, CompleteStopCall(w, id) PROVE RowSafe'
  BY <1>6, <1>u DEF CompleteStopCall, Begin, TypeOK
<1>7. ASSUME NEW w \in Workers, CompleteStopRead(w) PROVE RowSafe'
  BY <1>7, <1>u DEF CompleteStopRead, Goto, notices, TypeOK, locals
<1>8. ASSUME NEW w \in Workers, CompleteStopRefused(w) PROVE RowSafe'
  BY <1>8, <1>u DEF CompleteStopRefused, Finish, notices, TypeOK
<1>9. ASSUME NEW w \in Workers, StopWrite(w) PROVE RowSafe'
  BY <1>9, <1>u DEF StopWrite, Finish, notices, TypeOK
<1>10. ASSUME NEW w \in Workers, StopWriteMissed(w) PROVE RowSafe'
  BY <1>10, <1>u DEF StopWriteMissed, Finish, notices, TypeOK
<1>11. ASSUME NEW w \in Workers, NEW route \in Routes, UpdateCall(w, route) PROVE RowSafe'
  BY <1>11, <1>u DEF UpdateCall, Begin, TypeOK
<1>12. ASSUME NEW w \in Workers, UpdateWrite(w) PROVE RowSafe'
  BY <1>12, <1>u DEF UpdateWrite, Finish, notices, TypeOK
<1>13. ASSUME NEW w \in Workers, OptimizeCall(w) PROVE RowSafe'
  BY <1>13, <1>u DEF OptimizeCall, Begin, TypeOK, locals
<1>14. ASSUME NEW w \in Workers, OptimizeRead(w) PROVE RowSafe'
  BY <1>14, <1>u DEF OptimizeRead, Goto, notices, TypeOK
<1>15. ASSUME NEW w \in Workers, OptimizeRefused(w) PROVE RowSafe'
  BY <1>15, <1>u DEF OptimizeRefused, Finish, notices, TypeOK
<1>16. ASSUME NEW w \in Workers, OptimizeWrite(w) PROVE RowSafe'
  BY <1>16, <1>u DEF OptimizeWrite, Finish, notices, TypeOK
<1>17. ASSUME NEW w \in Workers, RowMissed(w) PROVE RowSafe'
  BY <1>17, <1>u DEF RowMissed, Finish, notices, TypeOK
<1>18. ASSUME NEW w \in Workers, Abandon(w) PROVE RowSafe'
  BY <1>18, <1>u DEF Abandon, Finish, notices, TypeOK
<1>19. CASE Remove
  BY <1>19 DEF Remove, notices, locals, RowSafe, GoalStarted, StartRecorded, NoticeTruthful
<1>20. CASE UNCHANGED vars
  BY <1>20, <1>u DEF vars, rowVars
<1> QED
  BY <1>1, <1>2, <1>3, <1>4, <1>5, <1>6, <1>7, <1>8, <1>9, <1>10, <1>11, <1>12,
     <1>13, <1>14, <1>15, <1>16, <1>17, <1>18, <1>19, <1>20 DEF Next

\* The three safety claims hold together in every reachable state.
LEMMA InductiveInvariant == Spec => []Inductive
<1>1. Init => RowSafe
  BY DEF Init, RowSafe, GoalStarted, StartRecorded, NoticeTruthful
<1>2. Init => TypeOK /\ StopsSafe /\ RowSafe
  BY <1>1, TypeInit, StopsInit
<1>3. TypeOK /\ StopsSafe /\ RowSafe /\ [Next]_vars => (TypeOK /\ StopsSafe /\ RowSafe)'
  BY TypeStep, StopsStep, RowStep
<1>4. TypeOK /\ StopsSafe /\ RowSafe => Inductive
  BY DEF StopsSafe, RowSafe, Inductive
<1> QED
  BY <1>2, <1>3, <1>4, PTL DEF Spec

\* A trip that was under way always has a start time and a completed one a
\* completion time, however many status changes race.
THEOREM StartIsRecorded == Spec => []StartRecorded
<1>1. Inductive => StartRecorded
  BY DEF Inductive
<1> QED
  BY <1>1, InductiveInvariant, PTL

\* Notices about a trip are never ahead of what was written to it.
THEOREM NoticesAreTruthful == Spec => []NoticeTruthful
<1>1. Inductive => NoticeTruthful
  BY DEF Inductive
<1> QED
  BY <1>1, InductiveInvariant, PTL

-----------------------------------------------------------------------------
(* Safety as long as no two handlers on the trip overlapped.                *)

LoneSafe == TypeOK /\ StopsSafe /\ (~overlapped => CheckStillHolds) /\ CompletedServed

\* As long as no two handlers overlapped, the checks of a handler hold until its
\* write, so that only trips whose stops were all reached are completed.
LEMMA LoneStep == LoneSafe /\ [Next]_vars => LoneSafe'
<1> SUFFICES ASSUME LoneSafe, [Next]_vars, ~overlapped'
             PROVE  CheckStillHolds' /\ CompletedServed'
  BY TypeStep, StopsStep DEF LoneSafe, CompletedServed
<1>t. TypeOK /\ StopsSafe /\ CompletedServed
  BY DEF LoneSafe
<1>u. ASSUME UNCHANGED <<status, stops, overlapped>> PROVE CompletedServed'
  BY <1>t, <1>u DEF CompletedServed, AllDone
\* One worker moves to "next"; the others stay idle.
<1>m. ASSUME NEW w \in Workers, NEW next \in PC, ~overlapped, CheckStillHolds,
             pc' = [pc EXCEPT ![w] = next], pc[w] # "idle" \/ \A v \in Workers : pc[v] = "idle"
      PROVE  /\ pc'[w] = next
             /\ \A v \in Workers : v # w => pc[v] = "idle" /\ pc'[v] = "idle"
  BY <1>m, <1>t DEF CheckStillHolds, TypeOK
<1>c. ASSUME NEW w \in Workers, NEW next \in PC, Begin(w, next)
      PROVE  /\ ~overlapped /\ CheckStillHolds /\ overlapped' = overlapped
             /\ pc'[w] = next
             /\ \A v \in Workers : pc[v] = "idle"
             /\ \A v \in Workers : v # w => pc'[v] = "idle"
  <2>1. ~overlapped /\ \A v \in Workers : pc[v] = "idle"
    BY <1>c, <1>t DEF Begin, TypeOK
  <2>2. CheckStillHolds /\ overlapped' = overlapped
    BY <1>c, <1>t, <2>1 DEF LoneSafe, Begin, TypeOK
  <2> QED
    BY <1>c, <1>t, <2>1, <2>2 DEF Begin, TypeOK
<1>f. ASSUME NEW w \in Workers, Finish(w), pc[w] # "idle", overlapped' = overlapped
      PROVE  CheckStillHolds'
  <2>1. ~overlapped /\ CheckStillHolds
    BY <1>f DEF LoneSafe
  <2>2. \A v \in Workers : pc'[v] = "idle"
    BY <1>f, <2>1, <1>m DEF Finish, PC
  <2> QED
    BY <2>2 DEF CheckStillHolds
<1>r. ASSUME NEW w \in Workers, pc[w] \in {"edit", "reorder"}, Exists,
             UNCHANGED rowVars, overlapped' = overlapped
      PROVE  CompletedServed'
  <2>1. status \in STOP_EDITABLE_STATUSES
    BY <1>r DEF LoneSafe, CheckStillHolds
  <2> QED
    BY <1>r, <2>1 DEF CompletedServed, STOP_EDITABLE_STATUSES, rowVars
<1>1. ASSUME NEW w \in Workers, NEW to \in Statuses, StatusCall(w, to)
      PROVE  CheckStillHolds' /\ CompletedServed'
  <2> DEFINE next == IF to = "COMPLETED" THEN "finalStop" ELSE "status"
  <2>1. /\ Begin(w, next) /\ next \in PC
        /\ goal' = [goal EXCEPT ![w] = to]
        /\ UNCHANGED <<status, stops>>
        /\ to \in TRANSITIONS[status]
    BY <1>1 DEF StatusCall, rowVars, stopVars, PC
  <2> HIDE DEF next
  <2>2. /\ pc'[w] = next /\ overlapped' = overlapped
        /\ \A v \in Workers : v # w => pc'[v] = "idle"
    BY <2>1, <1>c
  <2>3. goal'[w] = to /\ next \in {"finalStop", "status"} /\ (next = "status" => to # "COMPLETED")
    BY <2>1, <1>t DEF TypeOK, next
  <2>4. CheckStillHolds'
    BY <2>1, <2>2, <2>3 DEF CheckStillHolds, Exists
  <2> QED
    BY <2>1, <2>2, <2>4, <1>u
<1>2. ASSUME NEW w \in Workers, FinalStopCheck(w) PROVE CheckStillHolds' /\ CompletedServed'
  <2>1. /\ pc[w] = "finalStop" /\ FinalStopDone /\ pc' = [pc EXCEPT ![w] = "status"]
        /\ UNCHANGED <<status, stops, goal, overlapped>>
    BY <1>2 DEF FinalStopCheck, Goto, rowVars, stopVars, notices, locals
  <2>2. ~overlapped /\ CheckStillHolds
    BY <2>1 DEF LoneSafe
  <2>3. pc'[w] = "status" /\ \A v \in Workers : v # w => pc'[v] = "idle"
    BY <2>1, <2>2, <1>m DEF PC
  <2>4. CheckStillHolds'
    BY <2>1, <2>2, <2>3 DEF CheckStillHolds, Exists, FinalStopDone
  <2> QED
    BY <2>1, <2>4, <1>u
<1>3. ASSUME NEW w \in Workers, FinalStopMissing(w) PROVE CheckStillHolds' /\ CompletedServed'
  BY <1>3, <1>f, <1>u DEF FinalStopMissing, rowVars, stopVars, notices
<1>4. ASSUME NEW w \in Workers, StatusWrite(w) PROVE CheckStillHolds' /\ CompletedServed'
  <2>1. /\ pc[w] = "status" /\ pc' = [pc EXCEPT ![w] = "notify"] /\ status' = goal[w]
        /\ UNCHANGED <<stops, overlapped>>
    BY <1>4 DEF StatusWrite, Goto, stopVars, notices
  <2>2. ~overlapped /\ CheckStillHolds
    BY <2>1 DEF LoneSafe
  <2>3. pc'[w] = "notify" /\ \A v \in Workers : v # w => pc'[v] = "idle"
    BY <2>1, <2>2, <1>m DEF PC
  <2>4. ASSUME status' = "COMPLETED", NEW i \in 1..Len(stops) PROVE stops[i].done
    <3>1. FinalStopDone
      BY <2>1, <2>2, <2>4 DEF CheckStillHolds
    <3>2. Len(stops) \in Nat
      BY <1>t DEF TypeOK
    <3>3. i = Len(stops) \/ i < Len(stops)
      BY <3>2
    <3>4. Len(stops) \in 1..Len(stops) /\ stops[Len(stops)].done
      BY <3>1, <3>2 DEF FinalStopDone
    <3> QED
      BY <3>3, <3>4, <1>t DEF StopsSafe, CompletedPrefix
  <2>5. CompletedServed'
    BY <2>1, <2>4 DEF CompletedServed, AllDone
  <2>6. CheckStillHolds'
    BY <2>3 DEF CheckStillHolds
  <2> QED
    BY <2>5, <2>6
<1>5. ASSUME NEW w \in Workers, Notify(w) PROVE CheckStillHolds' /\ CompletedServed'
  BY <1>5, <1>f, <1>u DEF Notify, rowVars, stopVars
<1>6. ASSUME NEW w \in Workers, NEW id \in 1..MaxIds, CompleteStopCall(w, id)
      PROVE  CheckStillHolds' /\ CompletedServed'
  <2>1. /\ Begin(w, "readStops") /\ status \in STOP_COMPLETABLE_STATUSES
        /\ UNCHANGED <<status, stops>>
    BY <1>6 DEF CompleteStopCall, rowVars, stopVars
  <2>2. /\ pc'[w] = "readStops" /\ overlapped' = overlapped
        /\ \A v \in Workers : v # w => pc'[v] = "idle"
    BY <2>1, <1>c DEF PC
  <2> QED
    BY <2>1, <2>2, <1>u DEF CheckStillHolds
<1>7. ASSUME NEW w \in Workers, CompleteStopRead(w) PROVE CheckStillHolds' /\ CompletedServed'
  <2>1. /\ pc[w] = "readStops" /\ pc' = [pc EXCEPT ![w] = "complete"]
        /\ UNCHANGED <<status, stops, overlapped>>
    BY <1>7 DEF CompleteStopRead, Goto, rowVars, stopVars, notices
  <2>2. ~overlapped /\ CheckStillHolds
    BY <2>1 DEF LoneSafe
  <2>3. pc'[w] = "complete" /\ \A v \in Workers : v # w => pc'[v] = "idle"
    BY <2>1, <2>2, <1>m DEF PC
  <2> QED
    BY <2>1, <2>2, <2>3, <1>u DEF CheckStillHolds, Exists
<1>8. ASSUME NEW w \in Workers, CompleteStopRefused(w) PROVE CheckStillHolds' /\ CompletedServed'
  BY <1>8, <1>f, <1>u DEF CompleteStopRefused, rowVars, stopVars, notices
<1>9. ASSUME NEW w \in Workers, StopWrite(w) PROVE CheckStillHolds' /\ CompletedServed'
  <2>1. pc[w] = "complete" /\ Exists /\ Finish(w) /\ UNCHANGED <<status, overlapped>>
    BY <1>9 DEF StopWrite, rowVars, notices
  <2>2. status \in STOP_COMPLETABLE_STATUSES
    BY <2>1 DEF LoneSafe, CheckStillHolds
  <2>3. CompletedServed'
    BY <2>1, <2>2 DEF CompletedServed, STOP_COMPLETABLE_STATUSES
  <2> QED
    BY <2>1, <2>3, <1>f
<1>10. ASSUME NEW w \in Workers, StopWriteMissed(w) PROVE CheckStillHolds' /\ CompletedServed'
  BY <1>10, <1>f, <1>u DEF StopWriteMissed, rowVars, stopVars, notices
<1>11. ASSUME NEW w \in Workers, NEW route \in Routes, UpdateCall(w, route)
       PROVE  CheckStillHolds' /\ CompletedServed'
  <2>1. /\ Begin(w, "edit") /\ status \in STOP_EDITABLE_STATUSES
        /\ UNCHANGED <<status, stops>>
    BY <1>11 DEF UpdateCall, rowVars, stopVars
  <2>2. /\ pc'[w] = "edit" /\ overlapped' = overlapped
        /\ \A v \in Workers : v # w => pc'[v] = "idle"
    BY <2>1, <1>c DEF PC
  <2> QED
    BY <2>1, <2>2, <1>u DEF CheckStillHolds
<1>12. ASSUME NEW w \in Workers, UpdateWrite(w) PROVE CheckStillHolds' /\ CompletedServed'
  BY <1>12, <1>f, <1>r DEF UpdateWrite, notices
<1>13. ASSUME NEW w \in Workers, OptimizeCall(w) PROVE CheckStillHolds' /\ CompletedServed'
  <2>1. /\ Begin(w, "readOrder") /\ status \in STOP_EDITABLE_STATUSES
        /\ UNCHANGED <<status, stops>>
    BY <1>13 DEF OptimizeCall, rowVars, stopVars
  <2>2. /\ pc'[w] = "readOrder" /\ overlapped' = overlapped
        /\ \A v \in Workers : v # w => pc'[v] = "idle"
    BY <2>1, <1>c DEF PC
  <2> QED
    BY <2>1, <2>2, <1>u DEF CheckStillHolds
<1>14. ASSUME NEW w \in Workers, OptimizeRead(w) PROVE CheckStillHolds' /\ CompletedServed'
  <2>1. /\ pc[w] = "readOrder" /\ pc' = [pc EXCEPT ![w] = "reorder"]
        /\ UNCHANGED <<status, stops, overlapped>>
    BY <1>14 DEF OptimizeRead, Goto, rowVars, stopVars, notices
  <2>2. ~overlapped /\ CheckStillHolds
    BY <2>1 DEF LoneSafe
  <2>3. pc'[w] = "reorder" /\ \A v \in Workers : v # w => pc'[v] = "idle"
    BY <2>1, <2>2, <1>m DEF PC
  <2> QED
    BY <2>1, <2>2, <2>3, <1>u DEF CheckStillHolds, Exists
<1>15. ASSUME NEW w \in Workers, OptimizeRefused(w) PROVE CheckStillHolds' /\ CompletedServed'
  BY <1>15, <1>f, <1>u DEF OptimizeRefused, rowVars, stopVars, notices
<1>16. ASSUME NEW w \in Workers, OptimizeWrite(w) PROVE CheckStillHolds' /\ CompletedServed'
  BY <1>16, <1>f, <1>r DEF OptimizeWrite, notices
<1>17. ASSUME NEW w \in Workers, RowMissed(w) PROVE CheckStillHolds' /\ CompletedServed'
  BY <1>17, <1>f, <1>u DEF RowMissed, rowVars, stopVars, notices
<1>18. ASSUME NEW w \in Workers, Abandon(w) PROVE CheckStillHolds' /\ CompletedServed'
  BY <1>18, <1>f, <1>u DEF Abandon, rowVars, stopVars, notices
<1>19. CASE Remove
  <2>1. stops' = << >> /\ status' = "DELETED" /\ UNCHANGED <<pc, overlapped>>
    BY <1>19 DEF Remove, notices
  <2>2. Len(stops') = 0 /\ ~Exists'
    BY <2>1 DEF Exists, Statuses
  <2>3. CheckStillHolds
    BY <2>1 DEF LoneSafe
  <2> QED
    BY <2>1, <2>2, <2>3 DEF CheckStillHolds, CompletedServed, FinalStopDone
<1>20. CASE UNCHANGED vars
  <2>1. CheckStillHolds
    BY <1>20 DEF vars, LoneSafe
  <2> QED
    BY <1>20, <2>1, <1>u DEF vars, CheckStillHolds, Exists, FinalStopDone
<1> QED
  BY <1>1, <1>2, <1>3, <1>4, <1>5, <1>6, <1>7, <1>8, <1>9, <1>10, <1>11, <1>12,
     <1>13, <1>14, <1>15, <1>16, <1>17, <1>18, <1>19, <1>20 DEF Next

\* What LoneStep preserves holds from the creation of the trip on.
LEMMA LoneInvariant == Spec => []LoneSafe
<1>1. Init => CheckStillHolds /\ CompletedServed
  BY DEF Init, CheckStillHolds, CompletedServed
<1>2. Init => LoneSafe
  BY <1>1, TypeInit, StopsInit DEF LoneSafe
<1> QED
  BY <1>2, LoneStep, PTL DEF Spec

\* As long as no two handlers overlapped, every stop of a completed trip was
\* reached.
THEOREM CompletedTripsAreServed == Spec => []CompletedServed
<1>1. LoneSafe => CompletedServed
  BY DEF LoneSafe
<1> QED
  BY <1>1, LoneInvariant, PTL

\* As long as no two handlers overlapped, the stored status follows the
\* transition table.
THEOREM TransitionsAreLegal == Spec => LegalAlone
<1>1. ASSUME LoneSafe, [Next]_vars, ~overlapped PROVE Legal
  <2>1. ASSUME NEW w \in Workers, StatusWrite(w) PROVE Legal
    BY <1>1, <2>1 DEF LoneSafe, CheckStillHolds, StatusWrite, Legal
  <2>2. CASE UNCHANGED status \/ Remove
    BY <2>2 DEF Remove, Legal
  <2>3. UNCHANGED status \/ Remove \/ \E w \in Workers : StatusWrite(w)
    BY <1>1 DEF Next, vars, rowVars, StatusCall, FinalStopCheck, FinalStopMissing, Notify,
       CompleteStopCall, CompleteStopRead, CompleteStopRefused, StopWrite,
       StopWriteMissed, UpdateCall, UpdateWrite, OptimizeCall, OptimizeRead,
       OptimizeRefused, OptimizeWrite, RowMissed, Abandon
  <2> QED
    BY <2>1, <2>2, <2>3
<1>2. LoneSafe /\ [Next]_vars => [~overlapped => Legal]_vars
  BY <1>1
<1> QED
  BY <1>2, LoneInvariant, PTL DEF Spec, LegalAlone

-----------------------------------------------------------------------------
(* What may change a stop list, as long as no two handlers overlapped.      *)

\* A step leaves the stops alone, completes one of a trip that is under way,
\* replaces those of a trip that has not started, or deletes the trip.
LEMMA StopsChange ==
    ASSUME LoneSafe, [Next]_vars, ~overlapped
    PROVE  \/ UNCHANGED stops
           \/ /\ status \in STOP_COMPLETABLE_STATUSES /\ UNCHANGED status
              /\ Len(stops') = Len(stops)
              /\ \A i \in 1..Len(stops) : /\ stops'[i].id = stops[i].id
                                          /\ stops[i].done => stops'[i] = stops[i]
           \/ /\ status \in STOP_EDITABLE_STATUSES /\ UNCHANGED status
              /\ \A i \in 1..Len(stops') : ~stops'[i].done
           \/ status' = "DELETED"
<1> DEFINE Completes ==
             /\ status \in STOP_COMPLETABLE_STATUSES /\ UNCHANGED status
             /\ Len(stops') = Len(stops)
             /\ \A i \in 1..Len(stops) : /\ stops'[i].id = stops[i].id
                                         /\ stops[i].done => stops'[i] = stops[i]
<1> DEFINE Replaces ==
             /\ status \in STOP_EDITABLE_STATUSES /\ UNCHANGED status
             /\ \A i \in 1..Len(stops') : ~stops'[i].done
<1>t. TypeOK /\ CheckStillHolds
  BY DEF LoneSafe
<1>1. ASSUME NEW w \in Workers, StopWrite(w) PROVE Completes
  <2>1. /\ pc[w] = "complete" /\ Exists /\ UNCHANGED status
        /\ stops' = [i \in 1..Len(stops) |->
                       [stops[i] EXCEPT !.done = @ \/ stops[i].id = arg[w]]]
    BY <1>1 DEF StopWrite, rowVars
  <2>2. status \in STOP_COMPLETABLE_STATUSES
    BY <1>t, <2>1 DEF CheckStillHolds
  <2>3. stops \in Seq(Stop) /\ arg[w] \in Nat
    BY <1>t DEF TypeOK
  <2>4. Len(stops') = Len(stops) /\ \A i \in 1..Len(stops) : stops'[i].id = stops[i].id
    BY <2>1, <2>3, CompletedListFacts
  <2>5. ASSUME NEW x \in Stop, x.done
        PROVE  [x EXCEPT !.done = @ \/ x.id = arg[w]] = x
    BY <2>5 DEF Stop
  <2>6. \A i \in 1..Len(stops) : stops[i] \in Stop
    BY <2>3
  <2>7. \A i \in 1..Len(stops) : stops[i].done => stops'[i] = stops[i]
    BY <2>1, <2>5, <2>6
  <2> QED
    BY <2>1, <2>2, <2>4, <2>7
<1>2. ASSUME NEW w \in Workers, UpdateWrite(w) \/ OptimizeWrite(w) PROVE Replaces
  <2>1. /\ pc[w] \in {"edit", "reorder"} /\ Exists /\ UNCHANGED status
        /\ stops' = FreshStops(plan[w], lastId)
    BY <1>2 DEF UpdateWrite, OptimizeWrite, ReplaceStops, rowVars
  <2>2. status \in STOP_EDITABLE_STATUSES
    BY <1>t, <2>1 DEF CheckStillHolds
  <2>3. plan[w] \in Seq(Places) /\ lastId \in Nat
    BY <1>t DEF TypeOK
  <2>4. \A i \in 1..Len(stops') : ~stops'[i].done
    BY <2>1, <2>3, FreshStopsFacts
  <2> QED
    BY <2>1, <2>2, <2>4
<1>3. CASE Remove
  BY <1>3 DEF Remove
<1>4. \/ UNCHANGED stops \/ Remove
      \/ \E w \in Workers : StopWrite(w) \/ UpdateWrite(w) \/ OptimizeWrite(w)
  BY DEF Next, vars, stopVars, StatusWrite, StatusCall, FinalStopCheck, FinalStopMissing, Notify,
       CompleteStopCall, CompleteStopRead, CompleteStopRefused,
       StopWriteMissed, UpdateCall, OptimizeCall, OptimizeRead,
       OptimizeRefused, RowMissed, Abandon
<1> QED
  BY <1>1, <1>2, <1>3, <1>4

\* A status that allows edits of the stops is never returned to.
LEMMA EditableBefore ==
    ASSUME LoneSafe, [Next]_vars, ~overlapped, status' \in STOP_EDITABLE_STATUSES
    PROVE  status \in STOP_EDITABLE_STATUSES
<1>1. ASSUME NEW w \in Workers, StatusWrite(w) PROVE status \in STOP_EDITABLE_STATUSES
  <2>1. status \in Statuses /\ status' \in TRANSITIONS[status]
    BY <1>1 DEF LoneSafe, CheckStillHolds, StatusWrite, Exists
  <2> QED
    BY <2>1 DEF Statuses, TRANSITIONS, STOP_EDITABLE_STATUSES
<1>2. CASE Remove
  BY <1>2 DEF Remove, STOP_EDITABLE_STATUSES
<1>3. UNCHANGED status \/ Remove \/ \E w \in Workers : StatusWrite(w)
  BY DEF Next, vars, rowVars, StopWrite, UpdateWrite, OptimizeWrite, StatusCall, FinalStopCheck, FinalStopMissing, Notify,
       CompleteStopCall, CompleteStopRead, CompleteStopRefused,
       StopWriteMissed, UpdateCall, OptimizeCall, OptimizeRead,
       OptimizeRefused, RowMissed, Abandon
<1> QED
  BY <1>1, <1>2, <1>3

\* No stop is completed before the trip starts.
LEMMA PendingStep == LoneSafe /\ EditablePending /\ [Next]_vars => EditablePending'
<1> SUFFICES ASSUME LoneSafe, EditablePending, [Next]_vars, ~overlapped',
                    status' \in STOP_EDITABLE_STATUSES
             PROVE  \A i \in 1..Len(stops') : ~stops'[i].done
  BY DEF EditablePending
<1>1. ~overlapped
  BY DEF Next, vars, notices, Begin, StatusWrite, StopWrite, UpdateWrite, OptimizeWrite,
       Remove, LoneSafe, TypeOK, StatusCall, FinalStopCheck, FinalStopMissing, Notify,
       CompleteStopCall, CompleteStopRead, CompleteStopRefused,
       StopWriteMissed, UpdateCall, OptimizeCall, OptimizeRead,
       OptimizeRefused, RowMissed, Abandon
<1>2. status \in STOP_EDITABLE_STATUSES
  BY <1>1, EditableBefore
<1>3. \A i \in 1..Len(stops) : ~stops[i].done
  BY <1>1, <1>2 DEF EditablePending
<1>4. "DELETED" \notin STOP_EDITABLE_STATUSES
      /\ STOP_EDITABLE_STATUSES \cap STOP_COMPLETABLE_STATUSES = {}
  BY DEF STOP_EDITABLE_STATUSES, STOP_COMPLETABLE_STATUSES
<1> QED
  BY <1>1, <1>2, <1>3, <1>4, StopsChange

\* What PendingStep preserves holds from the creation of the trip on.
LEMMA PendingInvariant == Spec => [](LoneSafe /\ EditablePending)
<1>1. Init => EditablePending
  <2> SUFFICES ASSUME Init PROVE \A i \in 1..Len(stops) : ~stops[i].done
    BY DEF EditablePending
  <2>1. PICK route \in Routes : stops = FreshStops(route, 0)
    BY DEF Init
  <2>2. route \in Seq(Places)
    BY RoutesType
  <2> QED
    BY <2>1, <2>2, FreshStopsFacts
<1> QED
  BY <1>1, LoneInvariant, PendingStep, PTL DEF Spec

\* As long as no two handlers overlapped, the list of stops stays as it is once
\* the trip has started.
THEOREM StopsStayFrozen == Spec => StopsFrozen
<1>1. LoneSafe /\ [Next]_vars =>
        [~overlapped /\ status \notin STOP_EDITABLE_STATUSES /\ status' # "DELETED" =>
           /\ Len(stops') = Len(stops)
           /\ \A i \in 1..Len(stops) : stops'[i].id = stops[i].id]_vars
  BY StopsChange
<1> QED
  BY <1>1, LoneInvariant, PTL DEF Spec, StopsFrozen

\* As long as no two handlers overlapped, no edit, reordering or status change
\* loses a recorded arrival.
THEOREM ArrivalsAreKept == Spec => ArrivalsKept
<1>1. ASSUME LoneSafe, EditablePending, [Next]_vars, NEW i \in 1..Len(stops),
             ~overlapped, stops[i].done, status' # "DELETED"
      PROVE  \E j \in 1..Len(stops') : stops'[j] = stops[i]
  <2>1. status \notin STOP_EDITABLE_STATUSES
    BY <1>1 DEF EditablePending
  <2> QED
    BY <1>1, <2>1, StopsChange
<1>2. LoneSafe /\ EditablePending /\ [Next]_vars =>
        [\A i \in 1..Len(stops) :
           ~overlapped /\ stops[i].done /\ status' # "DELETED" =>
             \E j \in 1..Len(stops') : stops'[j] = stops[i]]_vars
  BY <1>1
<1> QED
  BY <1>2, PendingInvariant, PTL DEF Spec, ArrivalsKept
=============================================================================
