-------------------------- MODULE EtaMonitorProofs --------------------------
(* Proofs about EtaMonitor for any travel times, deadline and threshold.    *)
EXTENDS EtaMonitor, TLAPS

\* Every value a scan stores or keeps has its type.
LEMMA TypeStep == TypeOK /\ [Next]_vars => TypeOK'
<1> SUFFICES ASSUME TypeOK, [Next]_vars PROVE TypeOK'
  OBVIOUS
<1> DEFINE LocalsOK == /\ pc \in [Scans -> PC] /\ now \in [Scans -> Nat]
                       /\ eta \in [Scans -> Time] /\ seenAlert \in [Scans -> Time]
                       /\ seenBase \in [Scans -> Time] /\ told \in [Scans -> BOOLEAN]
<1> DEFINE RowOK == /\ clock \in Nat /\ alertedAt \in Time /\ baseline \in Time
                    /\ delayNotices \in SUBSET Nat /\ shiftNotices \in SUBSET Nat
                    /\ onTime \in SUBSET Nat /\ killed \in SUBSET Nat /\ overlapped \in BOOLEAN
                    /\ last \in [late : BOOLEAN, eta : Time, failed : BOOLEAN]
<1>t. LocalsOK /\ RowOK
  BY DEF TypeOK
<1>q. LocalsOK' /\ RowOK' => TypeOK'
  BY DEF TypeOK
<1>f. ASSUME NEW s \in Scans, Finish(s) PROVE LocalsOK'
  BY <1>f, <1>t DEF Finish, PC, Time
<1>g. ASSUME NEW s \in Scans, NEW next \in PC, Goto(s, next), UNCHANGED snapshot,
             told' = told \/ told' = [told EXCEPT ![s] = TRUE]
      PROVE  LocalsOK'
  BY <1>g, <1>t DEF Goto, snapshot
<1>n. None \in Time /\ Nat \subseteq Time
  BY DEF Time
<1>v. ASSUME NEW s \in Scans
      PROVE  now[s] \in Nat /\ eta[s] \in Time /\ seenAlert[s] \in Time /\ seenBase[s] \in Time
  BY <1>t
<1>x. [last EXCEPT !.failed = TRUE] \in [late : BOOLEAN, eta : Time, failed : BOOLEAN]
  BY <1>t
<1>1. ASSUME NEW s \in Scans, Snapshot(s) PROVE TypeOK'
  <2>1. PICK arrival \in {clock + 1 + t : t \in Travel} \cup {None} :
          /\ eta' = [eta EXCEPT ![s] = arrival]
          /\ last' = [late |-> Late(arrival, clock + 1), eta |-> arrival, failed |-> FALSE]
    BY <1>1 DEF Snapshot
  <2>2. arrival \in Time
    BY <2>1, <1>t, TimeAssumption DEF Time
  <2>3. last' \in [late : BOOLEAN, eta : Time, failed : BOOLEAN]
    <3>1. Late(arrival, clock + 1) \in BOOLEAN
      BY DEF Late
    <3> QED
      BY <2>1, <2>2, <3>1
  <2>4. LocalsOK'
    BY <1>1, <2>1, <2>2, <1>t DEF Snapshot, Goto, PC
  <2>5. RowOK'
    BY <1>1, <2>3, <1>t DEF Snapshot, tripVars, noticeVars
  <2> QED
    BY <2>4, <2>5, <1>q
<1>2. ASSUME NEW s \in Scans, DelayClaim(s) PROVE TypeOK'
  <2>1. RowOK'
    BY <1>2, <1>t, <1>n, <1>v, <1>x DEF DelayClaim, tripVars, noticeVars, history
  <2>2. LocalsOK'
    BY <1>2, <1>g DEF DelayClaim, PC, snapshot
  <2> QED
    BY <2>1, <2>2, <1>q
<1>3. ASSUME NEW s \in Scans, DelayKnown(s) PROVE TypeOK'
  <2>1. RowOK'
    BY <1>3, <1>t, <1>n, <1>v, <1>x DEF DelayKnown, tripVars, noticeVars, history
  <2>2. LocalsOK'
    BY <1>3, <1>g DEF DelayKnown, PC, snapshot
  <2> QED
    BY <2>1, <2>2, <1>q
<1>4. ASSUME NEW s \in Scans, Recover(s) PROVE TypeOK'
  <2>1. RowOK'
    BY <1>4, <1>t, <1>n, <1>v, <1>x DEF Recover, tripVars, noticeVars, history
  <2>2. LocalsOK'
    BY <1>4, <1>g DEF Recover, PC, snapshot
  <2> QED
    BY <2>1, <2>2, <1>q
<1>5. ASSUME NEW s \in Scans, DelayStored(s) PROVE TypeOK'
  <2>1. RowOK'
    BY <1>5, <1>t, <1>n, <1>v, <1>x DEF DelayStored, tripVars, noticeVars, history
  <2>2. LocalsOK'
    BY <1>5, <1>g DEF DelayStored, PC, snapshot
  <2> QED
    BY <2>1, <2>2, <1>q
<1>6. ASSUME NEW s \in Scans, DelayRefused(s) PROVE TypeOK'
  <2>1. RowOK'
    BY <1>6, <1>t, <1>n, <1>v, <1>x DEF DelayRefused, tripVars, noticeVars, history
  <2>2. LocalsOK'
    BY <1>6, <1>g DEF DelayRefused, PC, snapshot
  <2> QED
    BY <2>1, <2>2, <1>q
<1>7. ASSUME NEW s \in Scans, DelayRollback(s) PROVE TypeOK'
  <2>1. RowOK'
    BY <1>7, <1>t, <1>n, <1>v, <1>x DEF DelayRollback, tripVars, noticeVars, history
  <2>2. LocalsOK'
    BY <1>7, <1>g DEF DelayRollback, PC, snapshot
  <2> QED
    BY <2>1, <2>2, <1>q
<1>8. ASSUME NEW s \in Scans, ShiftNone(s) PROVE TypeOK'
  <2>1. RowOK'
    BY <1>8, <1>t, <1>n, <1>v, <1>x DEF ShiftNone, tripVars, noticeVars, history
  <2>2. LocalsOK'
    BY <1>8, <1>f DEF ShiftNone
  <2> QED
    BY <2>1, <2>2, <1>q
<1>9. ASSUME NEW s \in Scans, Establish(s) PROVE TypeOK'
  <2>1. RowOK'
    BY <1>9, <1>t, <1>n, <1>v, <1>x DEF Establish, tripVars, noticeVars, history
  <2>2. LocalsOK'
    BY <1>9, <1>f DEF Establish
  <2> QED
    BY <2>1, <2>2, <1>q
<1>10. ASSUME NEW s \in Scans, Rebaseline(s) PROVE TypeOK'
  <2>1. RowOK'
    BY <1>10, <1>t, <1>n, <1>v, <1>x DEF Rebaseline, tripVars, noticeVars, history, Drifting
  <2>2. LocalsOK'
    BY <1>10, <1>f, <1>g DEF Rebaseline, PC
  <2> QED
    BY <2>1, <2>2, <1>q
<1>11. ASSUME NEW s \in Scans, RebaselineLost(s) PROVE TypeOK'
  <2>1. RowOK'
    BY <1>11, <1>t, <1>n, <1>v, <1>x DEF RebaselineLost, tripVars, noticeVars, history
  <2>2. LocalsOK'
    BY <1>11, <1>f DEF RebaselineLost
  <2> QED
    BY <2>1, <2>2, <1>q
<1>12. ASSUME NEW s \in Scans, ShiftStored(s) PROVE TypeOK'
  <2>1. RowOK'
    BY <1>12, <1>t, <1>n, <1>v, <1>x DEF ShiftStored, tripVars, noticeVars, history
  <2>2. LocalsOK'
    BY <1>12, <1>f DEF ShiftStored
  <2> QED
    BY <2>1, <2>2, <1>q
<1>13. ASSUME NEW s \in Scans, ShiftRefused(s) PROVE TypeOK'
  <2>1. RowOK'
    BY <1>13, <1>t, <1>n, <1>v, <1>x DEF ShiftRefused, tripVars, noticeVars, history
  <2>2. LocalsOK'
    BY <1>13, <1>g DEF ShiftRefused, PC, snapshot
  <2> QED
    BY <2>1, <2>2, <1>q
<1>14. ASSUME NEW s \in Scans, ShiftRollback(s) PROVE TypeOK'
  <2>1. RowOK'
    BY <1>14, <1>t, <1>n, <1>v, <1>x DEF ShiftRollback, tripVars, noticeVars, history
  <2>2. LocalsOK'
    BY <1>14, <1>f DEF ShiftRollback
  <2> QED
    BY <2>1, <2>2, <1>q
<1>15. ASSUME NEW s \in Scans, Interrupt(s) PROVE TypeOK'
  <2>1. RowOK'
    BY <1>15, <1>t, <1>n, <1>v, <1>x DEF Interrupt, tripVars, noticeVars, history
  <2>2. LocalsOK'
    BY <1>15, <1>f DEF Interrupt
  <2> QED
    BY <2>1, <2>2, <1>q
<1>16. CASE UNCHANGED vars
  BY <1>16, <1>t, <1>q DEF vars
<1> QED
  BY <1>1, <1>2, <1>3, <1>4, <1>5, <1>6, <1>7, <1>8, <1>9, <1>10, <1>11, <1>12,
     <1>13, <1>14, <1>15, <1>16 DEF Next

\* The monitor starts well typed.
LEMMA TypeInit == Init => TypeOK
<1> SUFFICES ASSUME Init PROVE TypeOK
  OBVIOUS
<1>1. None \in Time /\ 0 \in Nat
  BY DEF Time
<1>2. [late |-> FALSE, eta |-> None, failed |-> FALSE]
        \in [late : BOOLEAN, eta : Time, failed : BOOLEAN]
  BY <1>1
<1>3. last \in [late : BOOLEAN, eta : Time, failed : BOOLEAN]
  BY <1>2 DEF Init
<1>4. pc \in [Scans -> PC] /\ now \in [Scans -> Nat] /\ told \in [Scans -> BOOLEAN]
  BY DEF Init, PC
<1>5. eta \in [Scans -> Time] /\ seenAlert \in [Scans -> Time] /\ seenBase \in [Scans -> Time]
  BY <1>1 DEF Init
<1> QED
  BY <1>1, <1>3, <1>4, <1>5 DEF Init, TypeOK

\* Type correctness of the monitor, for any number of overlapping scans.
THEOREM TypeCorrect == Spec => []TypeOK
  BY TypeInit, TypeStep, PTL DEF Spec

-----------------------------------------------------------------------------
(* However scans overlap.                                                   *)

\* No step leaves a delay flag without a notice, a scan that is still busy with
\* it, or one that died.
LEMMA ClaimStep == TypeOK /\ ClaimBacked /\ [Next]_vars => ClaimBacked'
<1> SUFFICES ASSUME TypeOK, ClaimBacked, [Next]_vars PROVE ClaimBacked'
  OBVIOUS
<1> DEFINE Busy(s) == pc[s] \in {"notifyDelay", "rollbackDelay"}
<1>t. pc \in [Scans -> PC] /\ now \in [Scans -> Nat] /\ None \notin Nat
  BY NoneAssumption DEF TypeOK
<1>u. ASSUME alertedAt' \in {alertedAt, None},
             delayNotices \cup killed \subseteq (delayNotices \cup killed)',
             \A s \in Scans : Busy(s) => Busy(s)' /\ now'[s] = now[s]
      PROVE  ClaimBacked'
  BY <1>u DEF ClaimBacked
<1>1. ASSUME NEW s \in Scans, Snapshot(s) PROVE ClaimBacked'
  BY <1>1, <1>t, <1>u DEF Snapshot, Goto, tripVars, noticeVars
<1>2. ASSUME NEW s \in Scans, DelayClaim(s) PROVE ClaimBacked'
  <2>1. alertedAt' = now[s] /\ now' = now /\ pc' = [pc EXCEPT ![s] = "notifyDelay"]
    BY <1>2 DEF DelayClaim, Goto, snapshot
  <2>2. pc'[s] = "notifyDelay"
    BY <2>1, <1>t
  <2> QED
    BY <2>1, <2>2 DEF ClaimBacked
<1>3. ASSUME NEW s \in Scans, DelayKnown(s) PROVE ClaimBacked'
  BY <1>3, <1>t, <1>u DEF DelayKnown, Goto, tripVars, noticeVars, history, snapshot
<1>4. ASSUME NEW s \in Scans, Recover(s) PROVE ClaimBacked'
  BY <1>4, <1>t, <1>u DEF Recover, Goto, tripVars, noticeVars, history, snapshot
<1>5. ASSUME NEW s \in Scans, DelayStored(s) PROVE ClaimBacked'
  <2>1. /\ delayNotices' = delayNotices \cup {now[s]} /\ UNCHANGED <<now, alertedAt, killed>>
        /\ pc' = [pc EXCEPT ![s] = "shift"]
    BY <1>5 DEF DelayStored, Goto, snapshot, tripVars, history
  <2> QED
    BY <2>1, <1>t DEF ClaimBacked
<1>6. ASSUME NEW s \in Scans, DelayRefused(s) PROVE ClaimBacked'
  BY <1>6, <1>t, <1>u DEF DelayRefused, Goto, tripVars, noticeVars, history, snapshot
<1>7. ASSUME NEW s \in Scans, DelayRollback(s) PROVE ClaimBacked'
  <2>1. /\ alertedAt' = IF alertedAt = now[s] THEN None ELSE alertedAt
        /\ UNCHANGED <<now, delayNotices, killed>>
        /\ pc' = [pc EXCEPT ![s] = "shift"]
    BY <1>7 DEF DelayRollback, Goto, snapshot, noticeVars, history
  <2> QED
    BY <2>1, <1>t DEF ClaimBacked
<1>8. ASSUME NEW s \in Scans, ShiftNone(s) PROVE ClaimBacked'
  BY <1>8, <1>t, <1>u DEF ShiftNone, Finish, tripVars, noticeVars, history, Drifting
<1>9. ASSUME NEW s \in Scans, Establish(s) PROVE ClaimBacked'
  BY <1>9, <1>t, <1>u DEF Establish, Finish, tripVars, noticeVars, history, Drifting
<1>10. ASSUME NEW s \in Scans, Rebaseline(s) PROVE ClaimBacked'
  <2>1. pc[s] = "shift" /\ UNCHANGED <<alertedAt, delayNotices, killed>>
    BY <1>10 DEF Rebaseline, Drifting, noticeVars, history
  <2>2. \A r \in Scans \ {s} : pc'[r] = pc[r] /\ now'[r] = now[r]
    BY <1>10, <1>t DEF Rebaseline, Goto, Finish, snapshot
  <2> QED
    BY <2>1, <2>2, <1>u
<1>11. ASSUME NEW s \in Scans, RebaselineLost(s) PROVE ClaimBacked'
  BY <1>11, <1>t, <1>u DEF RebaselineLost, Finish, tripVars, noticeVars, history, Drifting
<1>12. ASSUME NEW s \in Scans, ShiftStored(s) PROVE ClaimBacked'
  BY <1>12, <1>t, <1>u DEF ShiftStored, Finish, tripVars, noticeVars, history, Drifting
<1>13. ASSUME NEW s \in Scans, ShiftRefused(s) PROVE ClaimBacked'
  BY <1>13, <1>t, <1>u DEF ShiftRefused, Goto, tripVars, noticeVars, history, snapshot
<1>14. ASSUME NEW s \in Scans, ShiftRollback(s) PROVE ClaimBacked'
  BY <1>14, <1>t, <1>u DEF ShiftRollback, Finish, tripVars, noticeVars, history, Drifting
<1>15. ASSUME NEW s \in Scans, Interrupt(s) PROVE ClaimBacked'
  <2>1. /\ UNCHANGED <<alertedAt, delayNotices>> /\ killed' = killed \cup {now[s]}
        /\ \A r \in Scans \ {s} : pc'[r] = pc[r] /\ now'[r] = now[r]
    BY <1>15, <1>t DEF Interrupt, Finish, tripVars, noticeVars
  <2> QED
    BY <2>1 DEF ClaimBacked
<1>16. CASE UNCHANGED vars
  BY <1>16, <1>u DEF vars
<1> QED
  BY <1>1, <1>2, <1>3, <1>4, <1>5, <1>6, <1>7, <1>8, <1>9, <1>10, <1>11, <1>12,
     <1>13, <1>14, <1>15, <1>16 DEF Next

\* Only a crash leaves a delay marked as alerted without a notice, whichever
\* scans overlap and whichever notices are refused.
THEOREM NoSilentClaim == Spec => []ClaimBacked
<1>1. Init => TypeOK /\ ClaimBacked
  BY TypeInit DEF Init, ClaimBacked
<1>2. TypeOK /\ ClaimBacked /\ [Next]_vars => (TypeOK /\ ClaimBacked)'
  BY TypeStep, ClaimStep
<1> QED
  BY <1>1, <1>2, PTL DEF Spec

-----------------------------------------------------------------------------
(* As long as scans do not overlap.                                         *)

LoneSafe == TypeOK /\ (~overlapped => LoneScan) /\ OncePerEpisode

\* A lone scan claims the flag only when the last episode is over, and crashes
\* only lose notices.
LEMMA LoneStep == LoneSafe /\ [Next]_vars => LoneSafe'
<1> DEFINE Episodes(flags, times) ==
             \A m, n \in flags : m < n => \E k \in times : m < k /\ k < n
<1> SUFFICES ASSUME LoneSafe, [Next]_vars, ~overlapped'
             PROVE  LoneScan' /\ Episodes(delayNotices', onTime')
  BY TypeStep DEF LoneSafe, OncePerEpisode
<1>o. ~overlapped
  BY DEF Next, Snapshot, DelayClaim, DelayKnown, Recover, DelayStored, DelayRefused,
         DelayRollback, ShiftNone, Establish, Rebaseline, RebaselineLost, ShiftStored,
         ShiftRefused, ShiftRollback, Interrupt, history, vars
<1>a. TypeOK /\ LoneScan /\ Episodes(delayNotices, onTime)
  BY <1>o DEF LoneSafe, OncePerEpisode
<1>t. /\ pc \in [Scans -> PC] /\ now \in [Scans -> Nat] /\ seenAlert \in [Scans -> Time]
      /\ clock \in Nat /\ delayNotices \subseteq Nat /\ onTime \subseteq Nat
      /\ None \notin Nat
  BY <1>a, NoneAssumption DEF TypeOK
<1>l. ASSUME NEW s \in Scans, pc[s] # "idle"
      PROVE  /\ now[s] = clock
             /\ \A r \in Scans \ {s} : pc[r] = "idle"
  BY <1>a, <1>l DEF LoneScan
<1>b. \A n \in delayNotices \cup onTime : n <= clock
  BY <1>a DEF LoneScan
<1>u. ASSUME UNCHANGED <<clock, alertedAt, delayNotices, onTime>>,
             \A s \in Scans : \/ pc'[s] = "idle"
                              \/ /\ pc'[s] \in {"shift", "notifyShift", "rollbackShift"}
                                 /\ pc[s] # "idle" /\ now'[s] = now[s]
      PROVE  LoneScan' /\ Episodes(delayNotices', onTime')
  <2>1. EpisodeOver' = EpisodeOver
    BY <1>u DEF EpisodeOver
  <2>2. LoneScan'
    BY <1>a, <1>u, <2>1 DEF LoneScan
  <2> QED
    BY <1>a, <1>u, <2>2
<1>1. ASSUME NEW s \in Scans, Snapshot(s) PROVE LoneScan' /\ Episodes(delayNotices', onTime')
  <2>1. /\ clock' = clock + 1 /\ UNCHANGED <<alertedAt, delayNotices, onTime>>
        /\ pc'[s] = "delay" /\ now'[s] = clock + 1 /\ seenAlert'[s] = alertedAt
        /\ \A r \in Scans \ {s} : pc'[r] = "idle"
    BY <1>1, <1>t DEF Snapshot, Goto, tripVars, noticeVars
  <2>2. \A n \in delayNotices \cup onTime : n <= clock + 1 /\ n # clock + 1
    BY <1>b, <1>t
  <2>3. EpisodeOver' = EpisodeOver
    BY <2>1 DEF EpisodeOver
  <2>4. LoneScan'
    BY <1>a, <2>1, <2>2, <2>3 DEF LoneScan
  <2> QED
    BY <1>a, <2>1, <2>4
<1>2. ASSUME NEW s \in Scans, DelayClaim(s) PROVE LoneScan' /\ Episodes(delayNotices', onTime')
  <2>1. /\ pc[s] = "delay" /\ alertedAt = None /\ alertedAt' = now[s]
        /\ UNCHANGED <<clock, delayNotices, onTime>>
        /\ pc'[s] = "notifyDelay" /\ now'[s] = now[s]
        /\ \A r \in Scans \ {s} : pc'[r] = "idle"
    BY <1>2, <1>t, <1>l DEF DelayClaim, Goto, noticeVars, snapshot, history
  <2>2. now[s] = clock /\ EpisodeOver /\ clock \notin onTime
    BY <1>a, <2>1 DEF LoneScan
  <2>3. EpisodeOver' /\ alertedAt' # None
    BY <1>t, <2>1, <2>2 DEF EpisodeOver
  <2>4. LoneScan'
    BY <1>b, <2>1, <2>2, <2>3 DEF LoneScan
  <2> QED
    BY <1>a, <2>1, <2>4
<1>3. ASSUME NEW s \in Scans, DelayKnown(s) PROVE LoneScan' /\ Episodes(delayNotices', onTime')
  BY <1>3, <1>t, <1>l, <1>u DEF DelayKnown, Goto, tripVars, noticeVars, snapshot, history
<1>4. ASSUME NEW s \in Scans, Recover(s) PROVE LoneScan' /\ Episodes(delayNotices', onTime')
  <2>1. /\ pc[s] = "delay" /\ onTime' = onTime \cup {now[s]}
        /\ UNCHANGED <<clock, delayNotices>>
        /\ pc'[s] = "shift" /\ now'[s] = now[s]
        /\ \A r \in Scans \ {s} : pc'[r] = "idle"
    BY <1>4, <1>t, <1>l DEF Recover, Goto, noticeVars, snapshot
  <2>2. now[s] = clock /\ clock \notin delayNotices
    BY <1>a, <2>1 DEF LoneScan
  <2>3. \A n \in delayNotices : n < clock
    BY <1>b, <1>t, <2>2
  <2>4. EpisodeOver'
    BY <2>1, <2>2, <2>3 DEF EpisodeOver
  <2>5. \A n \in delayNotices' \cup onTime' : n <= clock'
    BY <1>b, <1>t, <2>1, <2>2
  <2>6. LoneScan'
    BY <2>1, <2>2, <2>4, <2>5 DEF LoneScan
  <2> QED
    BY <1>a, <2>1, <2>6
<1>5. ASSUME NEW s \in Scans, DelayStored(s) PROVE LoneScan' /\ Episodes(delayNotices', onTime')
  <2>1. /\ pc[s] = "notifyDelay" /\ delayNotices' = delayNotices \cup {now[s]}
        /\ UNCHANGED <<clock, alertedAt, onTime>>
        /\ pc'[s] = "shift" /\ now'[s] = now[s]
        /\ \A r \in Scans \ {s} : pc'[r] = "idle"
    BY <1>5, <1>t, <1>l DEF DelayStored, Goto, tripVars, snapshot, history
  <2>2. now[s] = clock /\ EpisodeOver /\ alertedAt = clock /\ clock \notin onTime
    BY <1>a, <2>1 DEF LoneScan
  <2>3. \A k \in onTime : k < clock
    BY <1>b, <1>t, <2>2
  <2>4. \A m \in delayNotices : \E k \in onTime : m < k /\ k < clock
    BY <2>2, <2>3 DEF EpisodeOver
  <2>5. Episodes(delayNotices', onTime')
    <3> SUFFICES ASSUME NEW m \in delayNotices', NEW n \in delayNotices', m < n
                 PROVE  \E k \in onTime : m < k /\ k < n
      BY <2>1
    <3>1. CASE n = clock
      <4>1. m # clock
        BY <1>t, <3>1
      <4> QED
        BY <2>1, <2>2, <2>4, <3>1, <4>1
    <3>2. CASE n # clock
      <4>1. n \in delayNotices /\ n <= clock
        BY <1>b, <2>1, <2>2, <3>2
      <4>2. m # clock
        BY <1>t, <4>1
      <4>3. m \in delayNotices
        BY <2>1, <2>2, <4>2
      <4> QED
        BY <1>a, <4>1, <4>3
    <3> QED
      BY <3>1, <3>2
  <2>6. \A n \in delayNotices' \cup onTime' : n <= clock'
    BY <1>b, <1>t, <2>1, <2>2
  <2>7. alertedAt' # None
    BY <1>t, <2>1, <2>2
  <2>8. LoneScan'
    BY <2>1, <2>2, <2>6, <2>7 DEF LoneScan
  <2> QED
    BY <2>5, <2>8
<1>6. ASSUME NEW s \in Scans, DelayRefused(s) PROVE LoneScan' /\ Episodes(delayNotices', onTime')
  <2>1. /\ pc[s] = "notifyDelay"
        /\ UNCHANGED <<clock, alertedAt, delayNotices, onTime>>
        /\ pc'[s] = "rollbackDelay" /\ now'[s] = now[s]
        /\ \A r \in Scans \ {s} : pc'[r] = "idle"
    BY <1>6, <1>t, <1>l DEF DelayRefused, Goto, tripVars, noticeVars, snapshot
  <2>2. EpisodeOver' = EpisodeOver
    BY <2>1 DEF EpisodeOver
  <2>3. LoneScan'
    BY <1>a, <2>1, <2>2 DEF LoneScan
  <2> QED
    BY <1>a, <2>1, <2>3
<1>7. ASSUME NEW s \in Scans, DelayRollback(s) PROVE LoneScan' /\ Episodes(delayNotices', onTime')
  <2>1. /\ pc[s] = "rollbackDelay"
        /\ UNCHANGED <<clock, delayNotices, onTime>>
        /\ pc'[s] = "shift" /\ now'[s] = now[s]
        /\ \A r \in Scans \ {s} : pc'[r] = "idle"
    BY <1>7, <1>t, <1>l DEF DelayRollback, Goto, noticeVars, snapshot, history
  <2>2. now[s] = clock /\ EpisodeOver
    BY <1>a, <2>1 DEF LoneScan
  <2>3. EpisodeOver'
    BY <2>1, <2>2 DEF EpisodeOver
  <2>4. LoneScan'
    BY <1>b, <2>1, <2>2, <2>3 DEF LoneScan
  <2> QED
    BY <1>a, <2>1, <2>4
<1>8. ASSUME NEW s \in Scans, ShiftNone(s) PROVE LoneScan' /\ Episodes(delayNotices', onTime')
  BY <1>8, <1>t, <1>l, <1>u DEF ShiftNone, Finish, tripVars, noticeVars, history, Drifting
<1>9. ASSUME NEW s \in Scans, Establish(s) PROVE LoneScan' /\ Episodes(delayNotices', onTime')
  BY <1>9, <1>t, <1>l, <1>u DEF Establish, Finish, tripVars, noticeVars, history, Drifting
<1>10. ASSUME NEW s \in Scans, Rebaseline(s) PROVE LoneScan' /\ Episodes(delayNotices', onTime')
  <2>1. pc[s] = "shift" /\ UNCHANGED <<clock, alertedAt, delayNotices, onTime>>
    BY <1>10 DEF Rebaseline, Drifting, noticeVars, history
  <2>2. pc'[s] = "idle" \/ (pc'[s] = "notifyShift" /\ now'[s] = now[s])
    BY <1>10, <1>t DEF Rebaseline, Goto, Finish, snapshot
  <2>3. \A r \in Scans \ {s} : pc'[r] = pc[r]
    BY <1>10, <1>t DEF Rebaseline, Goto, Finish
  <2> QED
    BY <2>1, <2>2, <2>3, <1>l, <1>u
<1>11. ASSUME NEW s \in Scans, RebaselineLost(s) PROVE LoneScan' /\ Episodes(delayNotices', onTime')
  BY <1>11, <1>t, <1>l, <1>u DEF RebaselineLost, Finish, tripVars, noticeVars, history, Drifting
<1>12. ASSUME NEW s \in Scans, ShiftStored(s) PROVE LoneScan' /\ Episodes(delayNotices', onTime')
  BY <1>12, <1>t, <1>l, <1>u DEF ShiftStored, Finish, tripVars, noticeVars, history, Drifting
<1>13. ASSUME NEW s \in Scans, ShiftRefused(s) PROVE LoneScan' /\ Episodes(delayNotices', onTime')
  BY <1>13, <1>t, <1>l, <1>u DEF ShiftRefused, Goto, tripVars, noticeVars, snapshot
<1>14. ASSUME NEW s \in Scans, ShiftRollback(s) PROVE LoneScan' /\ Episodes(delayNotices', onTime')
  BY <1>14, <1>t, <1>l, <1>u DEF ShiftRollback, Finish, tripVars, noticeVars, history, Drifting
<1>15. ASSUME NEW s \in Scans, Interrupt(s) PROVE LoneScan' /\ Episodes(delayNotices', onTime')
  BY <1>15, <1>t, <1>l, <1>u DEF Interrupt, Finish, tripVars, noticeVars, history, Drifting
<1>16. CASE UNCHANGED vars
  BY <1>16, <1>a DEF vars, LoneScan, EpisodeOver
<1> QED
  BY <1>1, <1>2, <1>3, <1>4, <1>5, <1>6, <1>7, <1>8, <1>9, <1>10, <1>11, <1>12,
     <1>13, <1>14, <1>15, <1>16 DEF Next

\* As long as no two scans overlapped, crashing or not, a client gets one delay
\* notice per delay episode.
THEOREM OneNoticePerEpisode == Spec => []OncePerEpisode
<1>1. Init => LoneScan /\ OncePerEpisode
  BY DEF Init, LoneScan, EpisodeOver, OncePerEpisode
<1>2. Init => LoneSafe
  BY <1>1, TypeInit DEF LoneSafe
<1>3. LoneSafe => OncePerEpisode
  BY DEF LoneSafe
<1> QED
  BY <1>2, <1>3, LoneStep, PTL DEF Spec
-----------------------------------------------------------------------------
(* However scans overlap: the flag of an alert that was sent.               *)

\* Each running scan keeps a minute of its own.
LEMMA StampsStep == TypeOK /\ Stamps /\ [Next]_vars => Stamps'
<1> SUFFICES ASSUME TypeOK, Stamps, [Next]_vars PROVE Stamps'
  OBVIOUS
<1>t. /\ pc \in [Scans -> PC] /\ now \in [Scans -> Nat]
      /\ clock \in Nat /\ delayNotices \subseteq Nat /\ onTime \subseteq Nat
  BY DEF TypeOK
<1>b. \A n \in delayNotices \cup onTime : n <= clock
  BY DEF Stamps
<1>r. ASSUME NEW s \in Scans, pc[s] # "idle"
      PROVE  now[s] <= clock /\ \A r \in Scans : pc[r] # "idle" /\ now[r] = now[s] => r = s
  BY <1>r DEF Stamps
<1>u. ASSUME NEW s \in Scans, pc[s] # "idle",
             UNCHANGED <<clock, delayNotices, onTime>>,
             pc'[s] = "idle" \/ (pc'[s] # "delay" /\ now'[s] = now[s]),
             pc'[s] \in {"notifyDelay", "rollbackDelay"} =>
               pc[s] \in {"delay", "notifyDelay", "rollbackDelay"},
             \A r \in Scans \ {s} : pc'[r] = pc[r] /\ now'[r] = now[r]
      PROVE  Stamps'
  <2>1. \A r \in Scans : pc'[r] # "idle" => pc[r] # "idle" /\ now'[r] = now[r]
    BY <1>u
  <2>2. \A q, r \in Scans : pc'[q] # "idle" /\ pc'[r] # "idle" /\ now'[q] = now'[r] => q = r
    BY <2>1 DEF Stamps
  <2>3. ASSUME NEW r \in Scans
        PROVE  /\ pc'[r] # "idle" => now'[r] <= clock
               /\ pc'[r] = "delay" => now'[r] \notin onTime
               /\ pc'[r] \in {"delay", "notifyDelay", "rollbackDelay"} =>
                    now'[r] \notin delayNotices
    <3>1. CASE r = s
      BY <1>u, <2>1, <3>1 DEF Stamps
    <3>2. CASE r # s
      BY <1>u, <3>2 DEF Stamps
    <3> QED
      BY <3>1, <3>2
  <2> QED
    BY <1>u, <1>b, <2>2, <2>3 DEF Stamps
<1>1. ASSUME NEW s \in Scans, Snapshot(s) PROVE Stamps'
  <2>1. /\ clock' = clock + 1 /\ UNCHANGED <<delayNotices, onTime>>
        /\ pc'[s] = "delay" /\ now'[s] = clock + 1
        /\ \A r \in Scans \ {s} : pc'[r] = pc[r] /\ now'[r] = now[r]
    BY <1>1, <1>t DEF Snapshot, Goto, noticeVars
  <2>2. \A r \in Scans \ {s} : pc[r] # "idle" => now[r] <= clock /\ now[r] # clock + 1
    BY <1>r, <1>t
  <2>3. \A n \in delayNotices \cup onTime : n <= clock + 1 /\ n # clock + 1
    BY <1>b, <1>t
  <2>4. \A q, r \in Scans : pc'[q] # "idle" /\ pc'[r] # "idle" /\ now'[q] = now'[r] => q = r
    BY <2>1, <2>2 DEF Stamps
  <2>5. ASSUME NEW r \in Scans
        PROVE  /\ pc'[r] # "idle" => now'[r] <= clock'
               /\ pc'[r] = "delay" => now'[r] \notin onTime
               /\ pc'[r] \in {"delay", "notifyDelay", "rollbackDelay"} =>
                    now'[r] \notin delayNotices
    <3>1. CASE r = s
      BY <1>t, <2>1, <2>3, <3>1
    <3>2. CASE r # s
      <4>1. pc[r] # "idle" => now[r] <= clock + 1
        BY <1>r, <1>t
      <4> QED
        BY <2>1, <3>2, <4>1 DEF Stamps
    <3> QED
      BY <3>1, <3>2
  <2> QED
    BY <2>1, <2>3, <2>4, <2>5 DEF Stamps
<1>2. ASSUME NEW s \in Scans, DelayClaim(s) PROVE Stamps'
  BY <1>2, <1>t, <1>u DEF DelayClaim, Goto, noticeVars, snapshot, history
<1>3. ASSUME NEW s \in Scans, DelayKnown(s) PROVE Stamps'
  BY <1>3, <1>t, <1>u DEF DelayKnown, Goto, noticeVars, snapshot, history
<1>4. ASSUME NEW s \in Scans, Recover(s) PROVE Stamps'
  <2>1. /\ pc[s] = "delay" /\ onTime' = onTime \cup {now[s]}
        /\ UNCHANGED <<clock, delayNotices, now>> /\ pc' = [pc EXCEPT ![s] = "shift"]
    BY <1>4 DEF Recover, Goto, noticeVars, snapshot, history
  <2>2. now[s] <= clock
    BY <1>r, <2>1
  <2>3. \A r \in Scans \ {s} : pc[r] # "idle" => now[r] # now[s]
    BY <1>r, <2>1
  <2>4. pc'[s] = "shift" /\ \A r \in Scans \ {s} : pc'[r] = pc[r]
    BY <1>t, <2>1
  <2>5. \A n \in (delayNotices \cup onTime)' : n <= clock
    BY <1>b, <2>1, <2>2
  <2>6. \A r \in Scans : pc'[r] # "idle" => pc[r] # "idle"
    BY <2>1, <2>4
  <2>7. \A q, r \in Scans : pc'[q] # "idle" /\ pc'[r] # "idle" /\ now[q] = now[r] => q = r
    BY <2>6 DEF Stamps
  <2> QED
    BY <2>1, <2>3, <2>4, <2>5, <2>6, <2>7 DEF Stamps
<1>5. ASSUME NEW s \in Scans, DelayStored(s) PROVE Stamps'
  <2>1. /\ pc[s] = "notifyDelay" /\ delayNotices' = delayNotices \cup {now[s]}
        /\ UNCHANGED <<clock, onTime, now>> /\ pc' = [pc EXCEPT ![s] = "shift"]
    BY <1>5 DEF DelayStored, Goto, noticeVars, snapshot, history
  <2>2. now[s] <= clock
    BY <1>r, <2>1
  <2>3. \A r \in Scans \ {s} : pc[r] # "idle" => now[r] # now[s]
    BY <1>r, <2>1
  <2>4. pc'[s] = "shift" /\ \A r \in Scans \ {s} : pc'[r] = pc[r]
    BY <1>t, <2>1
  <2>5. \A n \in (delayNotices \cup onTime)' : n <= clock
    BY <1>b, <2>1, <2>2
  <2>6. \A r \in Scans : pc'[r] # "idle" => pc[r] # "idle"
    BY <2>1, <2>4
  <2>7. \A q, r \in Scans : pc'[q] # "idle" /\ pc'[r] # "idle" /\ now[q] = now[r] => q = r
    BY <2>6 DEF Stamps
  <2> QED
    BY <2>1, <2>3, <2>4, <2>5, <2>6, <2>7 DEF Stamps
<1>6. ASSUME NEW s \in Scans, DelayRefused(s) PROVE Stamps'
  BY <1>6, <1>t, <1>u DEF DelayRefused, Goto, noticeVars, snapshot
<1>7. ASSUME NEW s \in Scans, DelayRollback(s) PROVE Stamps'
  BY <1>7, <1>t, <1>u DEF DelayRollback, Goto, noticeVars, snapshot, history
<1>8. ASSUME NEW s \in Scans, ShiftNone(s) PROVE Stamps'
  BY <1>8, <1>t, <1>u DEF ShiftNone, Finish, noticeVars, history
<1>9. ASSUME NEW s \in Scans, Establish(s) PROVE Stamps'
  BY <1>9, <1>t, <1>u DEF Establish, Finish, noticeVars, history
<1>10. ASSUME NEW s \in Scans, Rebaseline(s) PROVE Stamps'
  <2>1. pc[s] = "shift" /\ UNCHANGED <<clock, delayNotices, onTime>>
    BY <1>10 DEF Rebaseline, Drifting, noticeVars, history
  <2>2. pc'[s] = "idle" \/ (pc'[s] = "notifyShift" /\ now'[s] = now[s])
    BY <1>10, <1>t DEF Rebaseline, Goto, Finish, snapshot
  <2>3. \A r \in Scans \ {s} : pc'[r] = pc[r] /\ now'[r] = now[r]
    BY <1>10, <1>t DEF Rebaseline, Goto, Finish, snapshot
  <2> QED
    BY <2>1, <2>2, <2>3, <1>u
<1>11. ASSUME NEW s \in Scans, RebaselineLost(s) PROVE Stamps'
  BY <1>11, <1>t, <1>u DEF RebaselineLost, Finish, Drifting, noticeVars, history
<1>12. ASSUME NEW s \in Scans, ShiftStored(s) PROVE Stamps'
  BY <1>12, <1>t, <1>u DEF ShiftStored, Finish, history
<1>13. ASSUME NEW s \in Scans, ShiftRefused(s) PROVE Stamps'
  BY <1>13, <1>t, <1>u DEF ShiftRefused, Goto, noticeVars, snapshot
<1>14. ASSUME NEW s \in Scans, ShiftRollback(s) PROVE Stamps'
  BY <1>14, <1>t, <1>u DEF ShiftRollback, Finish, noticeVars, history
<1>15. ASSUME NEW s \in Scans, Interrupt(s) PROVE Stamps'
  BY <1>15, <1>t, <1>u DEF Interrupt, Finish, noticeVars
<1>16. CASE UNCHANGED vars
  BY <1>16 DEF vars, Stamps
<1> QED
  BY <1>1, <1>2, <1>3, <1>4, <1>5, <1>6, <1>7, <1>8, <1>9, <1>10, <1>11, <1>12,
     <1>13, <1>14, <1>15, <1>16 DEF Next

\* A step that changes the flag of an alert the client has seen is the recovery
\* of a scan that found the trip on time.
LEMMA MarkStep ==
  TypeOK /\ Stamps /\ [Next]_vars /\ alertedAt # None /\ alertedAt \in delayNotices
    /\ alertedAt' # alertedAt => onTime' # onTime
<1> SUFFICES ASSUME TypeOK, Stamps, [Next]_vars, alertedAt # None,
                    alertedAt \in delayNotices, alertedAt' # alertedAt
             PROVE  onTime' # onTime
  OBVIOUS
<1>1. ASSUME NEW s \in Scans, Recover(s) PROVE onTime' # onTime
  <2>1. pc[s] = "delay" /\ onTime' = onTime \cup {now[s]}
    BY <1>1 DEF Recover
  <2>2. now[s] \notin onTime
    BY <2>1 DEF Stamps
  <2> QED
    BY <2>1, <2>2
<1>2. ASSUME NEW s \in Scans, DelayRollback(s) PROVE FALSE
  <2>1. pc[s] = "rollbackDelay" /\ alertedAt = now[s]
    BY <1>2 DEF DelayRollback
  <2> QED
    BY <2>1 DEF Stamps
<1>3. ASSUME NEW s \in Scans,
             \/ Snapshot(s) \/ DelayClaim(s) \/ DelayKnown(s) \/ DelayStored(s)
             \/ DelayRefused(s) \/ ShiftNone(s) \/ Establish(s) \/ Rebaseline(s)
             \/ RebaselineLost(s) \/ ShiftStored(s) \/ ShiftRefused(s)
             \/ ShiftRollback(s) \/ Interrupt(s)
      PROVE  FALSE
  BY <1>3 DEF Snapshot, DelayClaim, DelayKnown, DelayStored, DelayRefused, ShiftNone,
              Establish, Rebaseline, RebaselineLost, ShiftStored, ShiftRefused,
              ShiftRollback, Interrupt, tripVars
<1>4. CASE UNCHANGED vars
  BY <1>4 DEF vars
<1> QED
  BY <1>1, <1>2, <1>3, <1>4 DEF Next

\* The rollback of a refused notice never takes back the flag of an alert that
\* was sent, however many scans overlap or die.
THEOREM SentAlertKept == Spec => MarkKept
<1>1. Init => TypeOK /\ Stamps
  BY TypeInit DEF Init, Stamps
<1>2. TypeOK /\ Stamps /\ [Next]_vars => (TypeOK /\ Stamps)'
  BY TypeStep, StampsStep
<1>3. TypeOK /\ Stamps /\ [Next]_vars =>
        [alertedAt # None /\ alertedAt \in delayNotices /\ alertedAt' # alertedAt
           => onTime' # onTime]_vars
  BY MarkStep
<1> QED
  BY <1>1, <1>2, <1>3, PTL DEF Spec, MarkKept

-----------------------------------------------------------------------------
(* As long as scans do not overlap: what a scan leaves behind.              *)

\* The scan started last, if it did not fail, has settled the flag and tracked
\* the arrival it predicted.
Outcome ==
    Idle /\ ~last.failed =>
        /\ Settled
        /\ last.eta # None => baseline # None /\ ~Drifted(baseline, last.eta)

Concluded == TypeOK /\ ClaimBacked /\ (~overlapped => LoneScan /\ Judged /\ Outcome)

\* A lone scan acts on the row it judged, so that what it found is what it
\* leaves behind.
LEMMA JudgeStep ==
  TypeOK /\ ClaimBacked /\ ~overlapped' /\ (~overlapped => LoneScan /\ Judged /\ Outcome)
    /\ [Next]_vars => Judged' /\ Outcome'
<1> SUFFICES ASSUME TypeOK, ClaimBacked, ~overlapped',
                    ~overlapped => LoneScan /\ Judged /\ Outcome, [Next]_vars
             PROVE  Judged' /\ Outcome'
  OBVIOUS
<1>o. ~overlapped
  BY DEF Next, Snapshot, DelayClaim, DelayKnown, Recover, DelayStored, DelayRefused,
         DelayRollback, ShiftNone, Establish, Rebaseline, RebaselineLost, ShiftStored,
         ShiftRefused, ShiftRollback, Interrupt, history, vars
<1>a. LoneScan /\ Judged /\ Outcome
  BY <1>o
<1>t. /\ pc \in [Scans -> PC] /\ now \in [Scans -> Nat] /\ eta \in [Scans -> Time]
      /\ seenAlert \in [Scans -> Time] /\ seenBase \in [Scans -> Time]
      /\ None \notin Nat
      /\ last \in [late : BOOLEAN, eta : Time, failed : BOOLEAN]
  BY NoneAssumption DEF TypeOK
<1>l. ASSUME NEW s \in Scans, pc[s] # "idle"
      PROVE  /\ now[s] = clock
             /\ eta[s] = last.eta /\ last.late = Late(eta[s], now[s])
             /\ \A r \in Scans \ {s} : pc[r] = "idle"
  BY <1>a, <1>l DEF LoneScan, Judged
\* The running scan goes on.
<1>m. ASSUME NEW s \in Scans, pc[s] # "idle", pc'[s] # "idle",
             \A r \in Scans \ {s} : pc'[r] = "idle",
             UNCHANGED <<now, eta, seenBase>>,
             last' = last \/ last' = [last EXCEPT !.failed = TRUE],
             pc'[s] = "rollbackDelay" \/ pc'[s] = "rollbackShift" => last'.failed,
             pc'[s] \in {"delay", "notifyDelay", "rollbackDelay", "shift"} =>
               seenBase[s] = baseline',
             pc'[s] = "notifyShift" => baseline' = eta[s],
             pc'[s] = "notifyDelay" => last.late,
             pc'[s] \in {"shift", "notifyShift"} /\ ~last'.failed => Settled'
      PROVE  Judged' /\ Outcome'
  <2>1. last'.eta = last.eta /\ last'.late = last.late
    BY <1>m, <1>t
  <2>2. ~Idle'
    BY <1>m DEF Idle
  <2>3. eta'[s] = last'.eta /\ last'.late = Late(eta'[s], now'[s])
    BY <1>l, <1>m, <2>1
  <2>4. Judged'
    BY <1>m, <2>1, <2>3 DEF Judged
  <2> QED
    BY <2>2, <2>4 DEF Outcome
\* The running scan finishes.
<1>f. ASSUME NEW s \in Scans, pc[s] # "idle", Finish(s)
      PROVE  Judged' /\ \A r \in Scans : pc'[r] = "idle"
  <2>1. \A r \in Scans : pc'[r] = "idle"
    BY <1>f, <1>l, <1>t DEF Finish
  <2> QED
    BY <2>1 DEF Judged
<1>d. ASSUME NEW x \in Nat PROVE ~Drifted(x, x)
  BY TimeAssumption DEF Drifted
<1>1. ASSUME NEW s \in Scans, Snapshot(s) PROVE Judged' /\ Outcome'
  <2>1. PICK arrival \in {clock + 1 + t : t \in Travel} \cup {None} :
          /\ eta' = [eta EXCEPT ![s] = arrival]
          /\ last' = [late |-> Late(arrival, clock + 1), eta |-> arrival, failed |-> FALSE]
    BY <1>1 DEF Snapshot
  <2>2. /\ pc'[s] = "delay" /\ now'[s] = clock + 1 /\ seenBase'[s] = baseline
        /\ UNCHANGED baseline /\ eta'[s] = arrival
        /\ \A r \in Scans \ {s} : pc'[r] = "idle"
    BY <1>1, <1>t, <2>1 DEF Snapshot, Goto, tripVars
  <2>3. ~Idle'
    BY <2>2 DEF Idle
  <2>4. last'.eta = arrival /\ last'.late = Late(arrival, clock + 1)
    BY <2>1
  <2>5. Judged'
    BY <2>2, <2>4 DEF Judged
  <2> QED
    BY <2>3, <2>5 DEF Outcome
<1>2. ASSUME NEW s \in Scans, DelayClaim(s) PROVE Judged' /\ Outcome'
  <2>1. /\ pc[s] = "delay" /\ pc'[s] = "notifyDelay" /\ Late(eta[s], now[s])
        /\ UNCHANGED <<now, eta, seenBase, baseline, last>>
        /\ \A r \in Scans \ {s} : pc'[r] = "idle"
    BY <1>2, <1>t, <1>l DEF DelayClaim, Goto, snapshot, history
  <2>2. seenBase[s] = baseline /\ last.late
    BY <1>a, <1>l, <2>1 DEF Judged
  <2> QED
    BY <2>1, <2>2, <1>m
<1>3. ASSUME NEW s \in Scans, DelayKnown(s) PROVE Judged' /\ Outcome'
  <2>1. /\ pc[s] = "delay" /\ pc'[s] = "shift" /\ Late(eta[s], now[s])
        /\ seenAlert[s] # None \/ alertedAt # None
        /\ UNCHANGED <<now, eta, seenBase, baseline, last, alertedAt, delayNotices, killed>>
        /\ \A r \in Scans \ {s} : pc[r] = "idle" /\ pc'[r] = "idle"
    BY <1>3, <1>t, <1>l DEF DelayKnown, Goto, snapshot, history, tripVars, noticeVars
  <2>2. seenBase[s] = baseline /\ last.late
    BY <1>a, <1>l, <2>1 DEF Judged
  <2>3. alertedAt # None
    BY <1>a, <2>1 DEF LoneScan
  <2>4. alertedAt \in delayNotices \cup killed
    BY <2>1, <2>3 DEF ClaimBacked
  <2>5. Settled'
    BY <2>1, <2>2, <2>4 DEF Settled
  <2> QED
    BY <2>1, <2>2, <2>5, <1>m
<1>4. ASSUME NEW s \in Scans, Recover(s) PROVE Judged' /\ Outcome'
  <2>1. /\ pc[s] = "delay" /\ pc'[s] = "shift" /\ ~Late(eta[s], now[s])
        /\ alertedAt' = IF seenAlert[s] # None THEN None ELSE alertedAt
        /\ UNCHANGED <<now, eta, seenBase, baseline, last>>
        /\ \A r \in Scans \ {s} : pc'[r] = "idle"
    BY <1>4, <1>t, <1>l DEF Recover, Goto, snapshot
  <2>2. seenBase[s] = baseline /\ ~last.late
    BY <1>a, <1>l, <2>1 DEF Judged
  <2>3. alertedAt' = None
    BY <1>a, <2>1 DEF LoneScan
  <2>4. Settled'
    BY <2>1, <2>2, <2>3 DEF Settled
  <2> QED
    BY <2>1, <2>2, <2>4, <1>m
<1>5. ASSUME NEW s \in Scans, DelayStored(s) PROVE Judged' /\ Outcome'
  <2>1. /\ pc[s] = "notifyDelay" /\ pc'[s] = "shift"
        /\ delayNotices' = delayNotices \cup {now[s]}
        /\ UNCHANGED <<now, eta, seenBase, baseline, last, alertedAt>>
        /\ \A r \in Scans \ {s} : pc'[r] = "idle"
    BY <1>5, <1>t, <1>l DEF DelayStored, Goto, snapshot, history, tripVars
  <2>2. seenBase[s] = baseline /\ last.late
    BY <1>a, <2>1 DEF Judged
  <2>3. alertedAt = now[s]
    BY <1>a, <1>l, <2>1 DEF LoneScan
  <2>4. Settled'
    BY <2>1, <2>2, <2>3 DEF Settled
  <2> QED
    BY <2>1, <2>2, <2>4, <1>m
<1>6. ASSUME NEW s \in Scans, DelayRefused(s) PROVE Judged' /\ Outcome'
  <2>1. /\ pc[s] = "notifyDelay" /\ pc'[s] = "rollbackDelay"
        /\ last' = [last EXCEPT !.failed = TRUE]
        /\ UNCHANGED <<now, eta, seenBase, baseline>>
        /\ \A r \in Scans \ {s} : pc'[r] = "idle"
    BY <1>6, <1>t, <1>l DEF DelayRefused, Goto, snapshot, tripVars
  <2>2. seenBase[s] = baseline /\ last'.failed
    BY <1>a, <1>t, <2>1 DEF Judged
  <2> QED
    BY <2>1, <2>2, <1>m
<1>7. ASSUME NEW s \in Scans, DelayRollback(s) PROVE Judged' /\ Outcome'
  <2>1. /\ pc[s] = "rollbackDelay" /\ pc'[s] = "shift"
        /\ UNCHANGED <<now, eta, seenBase, baseline, last>>
        /\ \A r \in Scans \ {s} : pc'[r] = "idle"
    BY <1>7, <1>t, <1>l DEF DelayRollback, Goto, snapshot, history
  <2>2. seenBase[s] = baseline /\ last.failed
    BY <1>a, <2>1 DEF Judged
  <2> QED
    BY <2>1, <2>2, <1>m
<1>8. ASSUME NEW s \in Scans, ShiftNone(s) PROVE Judged' /\ Outcome'
  <2>1. /\ pc[s] = "shift" /\ Finish(s)
        /\ eta[s] # None => seenBase[s] # None /\ ~Drifted(seenBase[s], eta[s])
        /\ UNCHANGED <<baseline, last, alertedAt, delayNotices, killed>>
    BY <1>8 DEF ShiftNone, history, tripVars, noticeVars
  <2>2. seenBase[s] = baseline /\ (~last.failed => Settled)
    BY <1>a, <2>1 DEF Judged
  <2>3. Settled' = Settled
    BY <2>1 DEF Settled
  <2>4. eta[s] = last.eta
    BY <1>l, <2>1
  <2>5. last.eta # None => baseline # None /\ ~Drifted(baseline, last.eta)
    BY <2>1, <2>2, <2>4
  <2>6. Outcome'
    BY <2>1, <2>2, <2>3, <2>5 DEF Outcome
  <2> QED
    BY <2>1, <2>6, <1>f
<1>9. ASSUME NEW s \in Scans, Establish(s) PROVE Judged' /\ Outcome'
  <2>1. /\ pc[s] = "shift" /\ Finish(s) /\ eta[s] # None /\ seenBase[s] = None
        /\ baseline' = IF baseline = None THEN eta[s] ELSE baseline
        /\ UNCHANGED <<last, alertedAt, delayNotices, killed>>
    BY <1>9 DEF Establish, history, noticeVars
  <2>2. seenBase[s] = baseline /\ (~last.failed => Settled)
    BY <1>a, <2>1 DEF Judged
  <2>3. Settled' = Settled
    BY <2>1 DEF Settled
  <2>4. eta[s] = last.eta /\ eta[s] \in Nat
    BY <1>l, <1>t, <2>1 DEF Time
  <2>5. baseline' = last.eta /\ ~Drifted(baseline', last.eta)
    BY <1>d, <2>1, <2>2, <2>4
  <2>6. Outcome'
    BY <2>1, <2>2, <2>3, <2>5 DEF Outcome
  <2> QED
    BY <2>1, <2>6, <1>f
<1>10. ASSUME NEW s \in Scans, Rebaseline(s) PROVE Judged' /\ Outcome'
  <2>1. /\ pc[s] = "shift" /\ eta[s] # None /\ baseline' = eta[s]
        /\ UNCHANGED <<last, alertedAt, delayNotices, killed>>
    BY <1>10 DEF Rebaseline, Drifting, history, noticeVars
  <2>2. ~last.failed => Settled
    BY <1>a, <2>1 DEF Judged
  <2>3. Settled' = Settled
    BY <2>1 DEF Settled
  <2>4. eta[s] = last.eta /\ eta[s] \in Nat
    BY <1>l, <1>t, <2>1 DEF Time
  <2>5. CASE Finish(s)
    <3>1. baseline' = last.eta /\ ~Drifted(baseline', last.eta)
      BY <1>d, <2>1, <2>4
    <3>2. Outcome'
      BY <2>1, <2>2, <2>3, <3>1 DEF Outcome
    <3> QED
      BY <2>1, <2>5, <3>2, <1>f
  <2>6. CASE Goto(s, "notifyShift") /\ UNCHANGED snapshot
    <3>1. /\ pc'[s] = "notifyShift" /\ UNCHANGED <<now, eta, seenBase>>
          /\ \A r \in Scans \ {s} : pc'[r] = "idle"
      BY <1>l, <1>t, <2>1, <2>6 DEF Goto, snapshot
    <3> QED
      BY <2>1, <2>2, <2>3, <3>1, <1>m
  <2> QED
    BY <1>10, <2>5, <2>6 DEF Rebaseline
<1>11. ASSUME NEW s \in Scans, RebaselineLost(s) PROVE Judged' /\ Outcome'
  <2>1. pc[s] = "shift" /\ baseline # seenBase[s]
    BY <1>11 DEF RebaselineLost, Drifting
  <2> QED
    BY <1>a, <2>1 DEF Judged
<1>12. ASSUME NEW s \in Scans, ShiftStored(s) PROVE Judged' /\ Outcome'
  <2>1. /\ pc[s] = "notifyShift" /\ Finish(s)
        /\ UNCHANGED <<baseline, last, alertedAt, delayNotices, killed>>
    BY <1>12 DEF ShiftStored, history, tripVars
  <2>2. baseline = eta[s] /\ (~last.failed => Settled)
    BY <1>a, <2>1 DEF Judged
  <2>3. Settled' = Settled
    BY <2>1 DEF Settled
  <2>4. eta[s] = last.eta /\ (eta[s] # None => eta[s] \in Nat)
    BY <1>l, <1>t, <2>1 DEF Time
  <2>5. last.eta # None => baseline # None /\ ~Drifted(baseline, last.eta)
    BY <1>d, <2>2, <2>4
  <2>6. Outcome'
    BY <2>1, <2>2, <2>3, <2>5 DEF Outcome
  <2> QED
    BY <2>1, <2>6, <1>f
<1>13. ASSUME NEW s \in Scans, ShiftRefused(s) PROVE Judged' /\ Outcome'
  <2>1. /\ pc[s] = "notifyShift" /\ pc'[s] = "rollbackShift"
        /\ last' = [last EXCEPT !.failed = TRUE]
        /\ UNCHANGED <<now, eta, seenBase>>
        /\ \A r \in Scans \ {s} : pc'[r] = "idle"
    BY <1>13, <1>t, <1>l DEF ShiftRefused, Goto, snapshot
  <2>2. last'.failed
    BY <1>t, <2>1
  <2> QED
    BY <2>1, <2>2, <1>m
<1>14. ASSUME NEW s \in Scans, ShiftRollback(s) PROVE Judged' /\ Outcome'
  <2>1. pc[s] = "rollbackShift" /\ Finish(s) /\ last' = last
    BY <1>14 DEF ShiftRollback, history
  <2>2. last'.failed
    BY <1>a, <2>1 DEF Judged
  <2> QED
    BY <2>1, <2>2, <1>f DEF Outcome
<1>15. ASSUME NEW s \in Scans, Interrupt(s) PROVE Judged' /\ Outcome'
  <2>1. pc[s] # "idle" /\ Finish(s) /\ last' = [last EXCEPT !.failed = TRUE]
    BY <1>15 DEF Interrupt
  <2>2. last'.failed
    BY <1>t, <2>1
  <2> QED
    BY <2>1, <2>2, <1>f DEF Outcome
<1>16. CASE UNCHANGED vars
  BY <1>16, <1>a DEF vars, Judged, Outcome, Idle, Settled
<1> QED
  BY <1>1, <1>2, <1>3, <1>4, <1>5, <1>6, <1>7, <1>8, <1>9, <1>10, <1>11, <1>12,
     <1>13, <1>14, <1>15, <1>16 DEF Next

\* What JudgeStep preserves holds from the start on.
LEMMA ConcludedInvariant == Spec => []Concluded
<1>1. Init => LoneSafe /\ Judged /\ Outcome
  <2>1. Init => Judged /\ Outcome
    BY DEF Init, Judged, Outcome, Settled
  <2>2. Init => LoneScan /\ OncePerEpisode
    BY DEF Init, LoneScan, EpisodeOver, OncePerEpisode
  <2> QED
    BY <2>1, <2>2, TypeInit DEF LoneSafe
<1>2. Init => ClaimBacked
  BY DEF Init, ClaimBacked
<1>3. Init => Concluded /\ LoneSafe
  BY <1>1, <1>2 DEF LoneSafe, Concluded
<1>4. Concluded /\ LoneSafe /\ [Next]_vars => (Concluded /\ LoneSafe)'
  <2>1. Concluded /\ LoneSafe /\ [Next]_vars => LoneSafe' /\ ClaimBacked'
    BY LoneStep, ClaimStep DEF Concluded
  <2>2. Concluded /\ LoneSafe /\ [Next]_vars /\ ~overlapped' => Judged' /\ Outcome'
    BY JudgeStep DEF Concluded
  <2> QED
    BY <2>1, <2>2 DEF Concluded, LoneSafe
<1> QED
  BY <1>3, <1>4, PTL DEF Spec

\* As long as no two scans overlapped, a scan that did not fail leaves a late
\* trip flagged and a trip on time not.
THEOREM ScansSettleTheFlag == Spec => []ScanSettles
<1>1. Concluded => ScanSettles
  BY DEF Concluded, Outcome, ScanSettles
<1> QED
  BY <1>1, ConcludedInvariant, PTL

\* As long as no two scans overlapped, a scan with a live ETA that did not fail
\* leaves a baseline within the tolerance of it.
THEOREM BaselineFollowsEta == Spec => []EtaTracked
<1>1. Concluded => EtaTracked
  BY DEF Concluded, Outcome, EtaTracked
<1> QED
  BY <1>1, ConcludedInvariant, PTL
=============================================================================
