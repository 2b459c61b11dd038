----------------------------- MODULE EtaMonitor -----------------------------
(***************************************************************************)
(* The ETA monitor of TripsService: every minute a scan loads the active   *)
(* trips and, for each, may raise a delay alert (condition A) and a shift  *)
(* alert (condition B).  One trip is modelled.                             *)
(*                                                                         *)
(* The cron handler has no re-entrancy guard, so a scan that takes longer  *)
(* than a minute overlaps the next one.  A scan judges the trip on the     *)
(* snapshot it loaded at its start; between two awaits the other scans     *)
(* run.  pc[s] is the statement scan s will execute next.                  *)
(*                                                                         *)
(* Abstracted: positions and speed (a scan finds some remaining travel     *)
(* time, or no live ETA), the other trips of the scan, and time below a    *)
(* minute.  scheduledEnd is not edited while the trip is under way.        *)
(***************************************************************************)
EXTENDS Integers

CONSTANTS
    Scans,       \* scans that may run at the same time
    Travel,      \* remaining travel times a scan may compute (minutes)
    Deadline,    \* scheduledEnd plus DEFAULT_DELAY_MARGIN_MINUTES
    Threshold,   \* DEFAULT_ETA_SHIFT_ALERT_MINUTES
    MaxClock,    \* bound: scans started
    None         \* a null timestamp

ASSUME TimeAssumption ==
    /\ Travel \subseteq Nat \ {0}
    /\ Deadline \in Nat
    /\ Threshold \in Nat \ {0}
    /\ MaxClock \in Nat
ASSUME NoneAssumption == None \notin Int

VARIABLES
    clock,         \* the minute of the last cron tick
    alertedAt,     \* Trip.etaDelayAlertedAt
    baseline,      \* Trip.etaBaseline
    delayNotices,  \* the "now" of the scans that stored a delay notice
    shiftNotices,  \* the "now" of the scans that stored a shift notice
    onTime,        \* history: the "now" of the scans that judged the trip on time
    last,          \* history: what the scan started last found, and if it failed
    killed,        \* history: the "now" of the scans that died
    overlapped,    \* history: some scan started while another was running
    pc,            \* per scan: the next statement
    now,           \* per scan: its start
    eta,           \* per scan: the predicted arrival, or None
    seenAlert,     \* per scan: etaDelayAlertedAt of its snapshot
    seenBase,      \* per scan: etaBaseline of its snapshot
    told           \* per scan: delayNotifiedThisTick

tripVars == <<alertedAt, baseline>>
noticeVars == <<delayNotices, shiftNotices>>
history == <<onTime, last, killed, overlapped>>
snapshot == <<now, eta, seenAlert, seenBase>>
vars == <<clock, alertedAt, baseline, delayNotices, shiftNotices, onTime, last,
          killed, overlapped, pc, now, eta, seenAlert, seenBase, told>>

Time == Nat \cup {None}
PC == {"idle", "delay", "notifyDelay", "rollbackDelay", "shift",
       "notifyShift", "rollbackShift"}

TypeOK ==
    /\ clock \in Nat
    /\ alertedAt \in Time
    /\ baseline \in Time
    /\ delayNotices \in SUBSET Nat
    /\ shiftNotices \in SUBSET Nat
    /\ onTime \in SUBSET Nat
    /\ last \in [late : BOOLEAN, eta : Time, failed : BOOLEAN]
    /\ killed \in SUBSET Nat
    /\ overlapped \in BOOLEAN
    /\ pc \in [Scans -> PC]
    /\ now \in [Scans -> Nat]
    /\ eta \in [Scans -> Time]
    /\ seenAlert \in [Scans -> Time]
    /\ seenBase \in [Scans -> Time]
    /\ told \in [Scans -> BOOLEAN]

Init ==
    /\ clock = 0
    /\ alertedAt = None
    /\ baseline = None
    /\ delayNotices = {}
    /\ shiftNotices = {}
    /\ onTime = {}
    /\ last = [late |-> FALSE, eta |-> None, failed |-> FALSE]
    /\ killed = {}
    /\ overlapped = FALSE
    /\ pc = [s \in Scans |-> "idle"]
    /\ now = [s \in Scans |-> 0]
    /\ eta = [s \in Scans |-> None]
    /\ seenAlert = [s \in Scans |-> None]
    /\ seenBase = [s \in Scans |-> None]
    /\ told = [s \in Scans |-> FALSE]

-----------------------------------------------------------------------------
(* Judgements on a snapshot.                                               *)

\* detectDelay: the arrival to compare is the live ETA, else the current time.
Late(arrival, time) == (IF arrival = None THEN time ELSE arrival) > Deadline

\* buildEtaShiftAlert is not null.
Drifted(from, to) == to - from >= Threshold \/ from - to >= Threshold

Goto(s, next) == pc' = [pc EXCEPT ![s] = next]

\* The evaluation of the trip ends; its snapshot is gone.
Finish(s) ==
    /\ pc' = [pc EXCEPT ![s] = "idle"]
    /\ now' = [now EXCEPT ![s] = 0]
    /\ eta' = [eta EXCEPT ![s] = None]
    /\ seenAlert' = [seenAlert EXCEPT ![s] = None]
    /\ seenBase' = [seenBase EXCEPT ![s] = None]
    /\ told' = [told EXCEPT ![s] = FALSE]

-----------------------------------------------------------------------------
(* The cron tick and findMany.                                             *)

Snapshot(s) ==
    /\ pc[s] = "idle"
    /\ clock < MaxClock
    /\ clock' = clock + 1
    /\ now' = [now EXCEPT ![s] = clock + 1]
    /\ \E arrival \in {clock + 1 + t : t \in Travel} \cup {None} :
         /\ eta' = [eta EXCEPT ![s] = arrival]
         /\ last' = [late |-> Late(arrival, clock + 1), eta |-> arrival, failed |-> FALSE]
    /\ seenAlert' = [seenAlert EXCEPT ![s] = alertedAt]
    /\ seenBase' = [seenBase EXCEPT ![s] = baseline]
    /\ overlapped' = (overlapped \/ \E r \in Scans : pc[r] # "idle")
    /\ Goto(s, "delay")
    /\ UNCHANGED <<tripVars, noticeVars, onTime, killed, told>>

-----------------------------------------------------------------------------
(* Condition A: the delay alert.                                           *)

\* Mutant: the claim does not check that the flag is still null.
DelayClaimBlind(s) ==
    /\ pc[s] = "delay"
    /\ Late(eta[s], now[s])
    /\ alertedAt' = now[s]
    /\ Goto(s, "notifyDelay")
    /\ UNCHANGED <<clock, baseline, noticeVars, history, snapshot, told>>

\* updateMany null -> now, for a snapshot without a flag: count 1.
DelayClaim(s) ==
    /\ pc[s] = "delay"
    /\ Late(eta[s], now[s])
    /\ seenAlert[s] = None
    /\ alertedAt = None
    /\ alertedAt' = now[s]
    /\ Goto(s, "notifyDelay")
    /\ UNCHANGED <<clock, baseline, noticeVars, history, snapshot, told>>

\* The episode was alerted already, in the snapshot or by a scan that was faster.
DelayKnown(s) ==
    /\ pc[s] = "delay"
    /\ Late(eta[s], now[s])
    /\ seenAlert[s] # None \/ alertedAt # None
    /\ Goto(s, "shift")
    /\ UNCHANGED <<clock, tripVars, noticeVars, history, snapshot, told>>

\* Mutant: a trip back on time keeps its flag.
RecoverKeepsFlag(s) ==
    /\ pc[s] = "delay"
    /\ ~Late(eta[s], now[s])
    /\ onTime' = onTime \cup {now[s]}
    /\ Goto(s, "shift")
    /\ UNCHANGED <<clock, tripVars, noticeVars, last, killed, overlapped, snapshot, told>>

\* Back on time: the flag of the snapshot is cleared whatever it is by now.
Recover(s) ==
    /\ pc[s] = "delay"
    /\ ~Late(eta[s], now[s])
    /\ alertedAt' = IF seenAlert[s] # None THEN None ELSE alertedAt
    /\ onTime' = onTime \cup {now[s]}
    /\ Goto(s, "shift")
    /\ UNCHANGED <<clock, baseline, noticeVars, last, killed, overlapped, snapshot, told>>

\* onEtaDelay stores the notice.
DelayStored(s) ==
    /\ pc[s] = "notifyDelay"
    /\ delayNotices' = delayNotices \cup {now[s]}
    /\ told' = [told EXCEPT ![s] = TRUE]
    /\ Goto(s, "shift")
    /\ UNCHANGED <<clock, tripVars, shiftNotices, history, snapshot>>

\* onEtaDelay returns null.  (A row stored before the socket signal threw is
\* not counted: delayNotices holds the notices the monitor knows of.)
DelayRefused(s) ==
    /\ pc[s] = "notifyDelay"
    /\ last' = [last EXCEPT !.failed = TRUE]
    /\ Goto(s, "rollbackDelay")
    /\ UNCHANGED <<clock, tripVars, noticeVars, onTime, killed, overlapped, snapshot, told>>

\* Mutant: the flag is cleared without looking whose claim it holds.
DelayRollbackBlind(s) ==
    /\ pc[s] = "rollbackDelay"
    /\ alertedAt' = None
    /\ Goto(s, "shift")
    /\ UNCHANGED <<clock, baseline, noticeVars, history, snapshot, told>>

\* Mutant: a refused notice keeps the claim.
DelayRollbackMissing(s) ==
    /\ pc[s] = "rollbackDelay"
    /\ Goto(s, "shift")
    /\ UNCHANGED <<clock, tripVars, noticeVars, history, snapshot, told>>

\* updateMany now -> null: only this scan's own claim is rolled back.
DelayRollback(s) ==
    /\ pc[s] = "rollbackDelay"
    /\ alertedAt' = IF alertedAt = now[s] THEN None ELSE alertedAt
    /\ Goto(s, "shift")
    /\ UNCHANGED <<clock, baseline, noticeVars, history, snapshot, told>>

-----------------------------------------------------------------------------
(* Condition B: the shift alert.                                           *)

\* No live ETA, or one within the tolerance: nothing to do.
ShiftNone(s) ==
    /\ pc[s] = "shift"
    /\ eta[s] # None => seenBase[s] # None /\ ~Drifted(seenBase[s], eta[s])
    /\ Finish(s)
    /\ UNCHANGED <<clock, tripVars, noticeVars, history>>

\* updateMany null -> eta: the first live ETA becomes the baseline.
Establish(s) ==
    /\ pc[s] = "shift"
    /\ eta[s] # None /\ seenBase[s] = None
    /\ baseline' = IF baseline = None THEN eta[s] ELSE baseline
    /\ Finish(s)
    /\ UNCHANGED <<clock, alertedAt, noticeVars, history>>

Drifting(s) ==
    /\ pc[s] = "shift"
    /\ eta[s] # None
    /\ seenBase[s] # None
    /\ Drifted(seenBase[s], eta[s])

\* Mutant: only a later arrival moves the baseline.
RebaselineOnlyLater(s) ==
    /\ Drifting(s)
    /\ baseline = seenBase[s]
    /\ baseline' = IF eta[s] > seenBase[s] THEN eta[s] ELSE baseline
    /\ IF eta[s] > seenBase[s] /\ ~told[s]
       THEN Goto(s, "notifyShift") /\ UNCHANGED <<snapshot, told>>
       ELSE Finish(s)
    /\ UNCHANGED <<clock, alertedAt, noticeVars, history>>

\* updateMany old -> eta, count 1.  Only a later arrival is worth a notice, and
\* only if this scan raised no delay alert.
Rebaseline(s) ==
    /\ Drifting(s)
    /\ baseline = seenBase[s]
    /\ baseline' = eta[s]
    /\ IF eta[s] > seenBase[s] /\ ~told[s]
       THEN Goto(s, "notifyShift") /\ UNCHANGED <<snapshot, told>>
       ELSE Finish(s)
    /\ UNCHANGED <<clock, alertedAt, noticeVars, history>>

\* Count 0: another scan moved the baseline.
RebaselineLost(s) ==
    /\ Drifting(s)
    /\ baseline # seenBase[s]
    /\ Finish(s)
    /\ UNCHANGED <<clock, tripVars, noticeVars, history>>

ShiftStored(s) ==
    /\ pc[s] = "notifyShift"
    /\ shiftNotices' = shiftNotices \cup {now[s]}
    /\ Finish(s)
    /\ UNCHANGED <<clock, tripVars, delayNotices, history>>

ShiftRefused(s) ==
    /\ pc[s] = "notifyShift"
    /\ last' = [last EXCEPT !.failed = TRUE]
    /\ Goto(s, "rollbackShift")
    /\ UNCHANGED <<clock, tripVars, noticeVars, onTime, killed, overlapped, snapshot, told>>

\* updateMany eta -> old: only if the row still holds the claimed baseline.
ShiftRollback(s) ==
    /\ pc[s] = "rollbackShift"
    /\ baseline' = IF baseline = eta[s] THEN seenBase[s] ELSE baseline
    /\ Finish(s)
    /\ UNCHANGED <<clock, alertedAt, noticeVars, history>>

-----------------------------------------------------------------------------
\* The process dies, or a statement throws and the scan skips the trip.
Interrupt(s) ==
    /\ pc[s] # "idle"
    /\ killed' = killed \cup {now[s]}
    /\ last' = [last EXCEPT !.failed = TRUE]
    /\ Finish(s)
    /\ UNCHANGED <<clock, tripVars, noticeVars, onTime, overlapped>>

Next ==
    \E s \in Scans :
        \/ Snapshot(s)
        \/ DelayClaim(s)
        \/ DelayKnown(s)
        \/ Recover(s)
        \/ DelayStored(s)
        \/ DelayRefused(s)
        \/ DelayRollback(s)
        \/ ShiftNone(s)
        \/ Establish(s)
        \/ Rebaseline(s)
        \/ RebaselineLost(s)
        \/ ShiftStored(s)
        \/ ShiftRefused(s)
        \/ ShiftRollback(s)
        \/ Interrupt(s)

Spec == Init /\ [][Next]_vars

-----------------------------------------------------------------------------
(* Properties that hold however scans overlap.                             *)

\* A delay flag is backed by a notice, by the scan that claimed it and is about
\* to store one or to roll its claim back, or by a scan that died with its
\* claim: a delay is silently marked as alerted by a crash only.
ClaimBacked ==
    alertedAt # None =>
        \/ alertedAt \in delayNotices \cup killed
        \/ \E s \in Scans : /\ pc[s] \in {"notifyDelay", "rollbackDelay"}
                            /\ now[s] = alertedAt

\* The flag of an alert that reached the client is cleared by a scan that found
\* the trip on time only, never by the rollback of another scan.
MarkKept ==
    [][alertedAt # None /\ alertedAt \in delayNotices /\ alertedAt' # alertedAt
         => onTime' # onTime]_vars

-----------------------------------------------------------------------------
(* Properties that hold as long as no two scans overlapped.                *)

\* "Raised at most once per delay episode" (notifications.service.ts:183-184):
\* between two delay notices some scan found the trip on time.
OncePerEpisode ==
    ~overlapped =>
        \A m, n \in delayNotices : m < n => \E k \in onTime : m < k /\ k < n

Idle == \A s \in Scans : pc[s] = "idle"

\* The flag agrees with what the scan started last found.
Settled == IF last.late THEN alertedAt \in delayNotices \cup killed ELSE alertedAt = None

\* After a scan that did not fail, a late trip is flagged, with a notice or a
\* dead scan behind the flag, and a trip on time is not flagged.
ScanSettles ==
    ~overlapped /\ Idle /\ ~last.failed => Settled

\* After a scan with a live ETA that did not fail, the baseline is within the
\* tolerance of it: no drift, earlier ones included, is left to add up unseen.
EtaTracked ==
    ~overlapped /\ Idle /\ ~last.failed /\ last.eta # None =>
        baseline # None /\ ~Drifted(baseline, last.eta)

-----------------------------------------------------------------------------
(* What a comment promises and overlapping scans break.                    *)

\* "Every state change is an atomic compare-and-set (updateMany with the prior
\* value in the WHERE)" (trips.service.ts:611): the judgement of a delay changes
\* the flag only while it still has the value of the scan's snapshot.
FlagComparedAndSet ==
    [][\A s \in Scans :
         pc[s] = "delay" /\ pc'[s] # "delay" /\ alertedAt' # alertedAt =>
            seenAlert[s] = alertedAt]_vars

-----------------------------------------------------------------------------
(* The strengthening behind OncePerEpisode.                                *)

\* Every stored delay notice was followed by a scan that found the trip on time.
EpisodeOver == \A n \in delayNotices : \E k \in onTime : n < k

\* As long as no two scans overlapped, at most one runs; while the flag is null,
\* or its claim may still be rolled back, the last episode is over; and the scan
\* acts on the flag its snapshot showed.
LoneScan ==
    /\ \A r, s \in Scans : pc[r] # "idle" /\ pc[s] # "idle" => r = s
    /\ \A n \in delayNotices \cup onTime : n <= clock
    /\ alertedAt = None => EpisodeOver
    /\ \A s \in Scans :
         /\ pc[s] # "idle" => now[s] = clock
         /\ pc[s] = "delay" => /\ seenAlert[s] = alertedAt
                               /\ clock \notin delayNotices \cup onTime
         /\ pc[s] \in {"notifyDelay", "rollbackDelay"} =>
              EpisodeOver /\ alertedAt = clock /\ clock \notin onTime

-----------------------------------------------------------------------------
(* The strengthening behind MarkKept.                                      *)

\* However scans overlap, each has a minute of its own, of which no notice and
\* no recovery is known before the scan itself reports it.
Stamps ==
    /\ \A n \in delayNotices \cup onTime : n <= clock
    /\ \A r, s \in Scans : pc[r] # "idle" /\ pc[s] # "idle" /\ now[r] = now[s] => r = s
    /\ \A s \in Scans :
         /\ pc[s] # "idle" => now[s] <= clock
         /\ pc[s] = "delay" => now[s] \notin onTime
         /\ pc[s] \in {"delay", "notifyDelay", "rollbackDelay"} => now[s] \notin delayNotices

-----------------------------------------------------------------------------
(* The strengthening behind ScanSettles and EtaTracked.                    *)

\* A running scan that has not failed is the one "last" is about; before its
\* compare-and-set the baseline is its snapshot's, after it its prediction, and
\* from condition B on the flag is settled.
Judged ==
    \A s \in Scans :
        /\ pc[s] = "rollbackDelay" \/ pc[s] = "rollbackShift" => last.failed
        /\ pc[s] \in {"delay", "notifyDelay", "rollbackDelay", "shift"} => seenBase[s] = baseline
        /\ pc[s] = "notifyShift" => baseline = eta[s]
        /\ pc[s] # "idle" => eta[s] = last.eta /\ last.late = Late(eta[s], now[s])
        /\ pc[s] = "notifyDelay" => last.late
        /\ pc[s] \in {"shift", "notifyShift"} /\ ~last.failed => Settled
=============================================================================
