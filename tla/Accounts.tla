------------------------------ MODULE Accounts ------------------------------
(***************************************************************************)
(* Who may log in and whose the vehicles are: ClientsService (create,      *)
(* update, remove, assignVehicles), UsersService (create, remove) and the  *)
(* password reset of AuthService, beside trips that start and end.         *)
(*                                                                         *)
(* One action per statement between two awaits; pc[w] is the statement     *)
(* worker w will execute next.  create and update of a client run in a     *)
(* transaction (READ COMMITTED): its writes are in written[w], visible to  *)
(* itself only and locking their rows, until it commits or is rolled back. *)
(*                                                                         *)
(* Abstracted: an account is its email, which is given to one account ever *)
(* (a deleted one does not come back) and does not change; names, the      *)
(* password itself and its hash; the mail.  A restricted vehicle, which    *)
(* the handlers treat as missing, is no member.                            *)
(***************************************************************************)
EXTENDS Integers

CONSTANTS
    Clients,    \* emails of clients
    Users,      \* emails of admins
    Vehicles,   \* ids of vehicles
    Trips,      \* ids of trips
    Tokens,     \* ids of password reset tokens
    Workers,    \* requests handled at the same time
    MaxCalls,   \* bound on the requests in a behaviour
    Null        \* null

ASSUME ConstantAssumption ==
    /\ Clients \cap Users = {}
    /\ Null \notin Workers \cup Clients \cup Users \cup Vehicles \cup Trips \cup Tokens
    /\ MaxCalls \in Nat

VARIABLES
    account,    \* per email: "none", "exists" or "deleted"
    owner,      \* per vehicle: clientId, as committed
    trip,       \* per trip: its client, its vehicle and whether it is active, or Null
    token,      \* per token: its email and state
    pc,         \* per worker: the next statement
    email,      \* per worker: the account it was called for
    wanted,     \* per worker: vehicleIds
    free,       \* per worker: toAssign
    written,    \* per worker: what its transaction has written, vehicle by vehicle
    link,       \* per worker: the token of its reset
    calls,      \* history: requests so far
    asked,      \* history, per client: the vehicles of the last request that succeeded
    shared,     \* history, per worker: a call of the same handler for its account overlaps
    mixed,      \* history: accounts whose last update, or last link, was shared
    stale,      \* history, per worker: trips that started, or whose vehicle changed hands,
                \* after its check
    broken,     \* history: trips under way that lost vehicle or row although no check of
                \* theirs was stale: whose, by which call for which client
    dead        \* history: tokens issued before a reset that succeeded

rows == <<account, owner, trip, token>>
locals == <<email, wanted, free, written, link>>
histories == <<calls, asked, shared, mixed, stale, broken, dead>>
vars == <<rows, pc, locals, histories>>

Accounts == Clients \cup Users
\* A row the transaction has not written.
Kept == "kept"

ASSUME KeptAssumption == Kept \notin Clients \cup {Null}

TypeOK ==
    /\ account \in [Accounts -> {"none", "exists", "deleted"}]
    /\ owner \in [Vehicles -> Clients \cup {Null}]
    /\ trip \in [Trips -> [client : Clients, vehicle : Vehicles \cup {Null}, active : BOOLEAN]
                          \cup {Null}]
    /\ token \in [Tokens -> [email : Accounts \cup {Null},
                             state : {"none", "live", "used", "expired", "gone"}]]
    /\ pc \in [Workers -> {"idle", "insert", "check", "release", "read", "assign", "commit",
                           "delete", "forget", "issue", "password", "consume", "siblings"}]
    /\ email \in [Workers -> Accounts \cup {Null}]
    /\ wanted \in [Workers -> SUBSET Vehicles]
    /\ free \in [Workers -> SUBSET Vehicles]
    /\ written \in [Workers -> [Vehicles -> Clients \cup {Null, Kept}]]
    /\ link \in [Workers -> Tokens \cup {Null}]
    /\ calls \in 0 .. MaxCalls
    /\ asked \in [Clients -> SUBSET Vehicles]
    /\ shared \in [Workers -> BOOLEAN]
    /\ mixed \in [{"update", "link"} -> SUBSET Accounts]
    /\ stale \in [Workers -> SUBSET Trips]
    /\ broken \in SUBSET [trip : Trips, of : Clients, by : Clients, call : {"update", "delete"}]
    /\ dead \in SUBSET Tokens

Untouched == [v \in Vehicles |-> Kept]

Init ==
    /\ account \in [Accounts -> {"none", "exists"}]
    /\ owner = [v \in Vehicles |-> Null]
    /\ trip = [t \in Trips |-> Null]
    /\ token = [k \in Tokens |-> [email |-> Null, state |-> "none"]]
    /\ pc = [w \in Workers |-> "idle"]
    /\ email = [w \in Workers |-> Null]
    /\ wanted = [w \in Workers |-> {}]
    /\ free = [w \in Workers |-> {}]
    /\ written = [w \in Workers |-> Untouched]
    /\ link = [w \in Workers |-> Null]
    /\ calls = 0
    /\ asked = [c \in Clients |-> {}]
    /\ shared = [w \in Workers |-> FALSE]
    /\ mixed = [h \in {"update", "link"} |-> {}]
    /\ stale = [w \in Workers |-> {}]
    /\ broken = {}
    /\ dead = {}

-----------------------------------------------------------------------------
(* How a request starts and ends.                                          *)

Goto(w, next) == pc' = [pc EXCEPT ![w] = next]

\* The statements of each handler.
Handler(next) ==
    CHOOSE h \in {{"insert", "check", "release", "read", "assign", "commit"}, {"delete"},
                  {"forget", "issue"}, {"password", "consume", "siblings"}} : next \in h

\* Two overlapping calls of one handler for one account: each is shared.
Begin(w, next, e) ==
    /\ pc[w] = "idle"
    /\ calls < MaxCalls
    /\ calls' = calls + 1
    /\ Goto(w, next)
    /\ email' = [email EXCEPT ![w] = e]
    /\ LET others == {v \in Workers \ {w} : pc[v] \in Handler(next) /\ email[v] = e}
       IN shared' = [v \in Workers |->
              IF v = w THEN others # {} ELSE shared[v] \/ v \in others]
    /\ UNCHANGED <<rows, asked, mixed, stale, broken, dead>>

End(w) ==
    /\ Goto(w, "idle")
    /\ email' = [email EXCEPT ![w] = Null]
    /\ wanted' = [wanted EXCEPT ![w] = {}]
    /\ free' = [free EXCEPT ![w] = {}]
    /\ written' = [written EXCEPT ![w] = Untouched]
    /\ link' = [link EXCEPT ![w] = Null]
    /\ shared' = [shared EXCEPT ![w] = FALSE]

\* History: the last call of a handler for w's account was a shared one, or not.
Note(w, h) ==
    mixed' = [mixed EXCEPT ![h] = IF shared[w] THEN @ \cup {email[w]} ELSE @ \ {email[w]}]

\* History: the checks of workers other than w no longer speak for the trips ts.
Disturb(w, ts) ==
    stale' = [v \in Workers |->
        IF v # w /\ pc[v] \in {"release", "delete"} THEN stale[v] \cup ts ELSE {}]

\* History: w's call takes the vehicle or the row of the trips ts.
Break(w, ts, call) ==
    broken' = broken \cup {[trip |-> t, of |-> trip[t].client, by |-> email[w], call |-> call] :
                              t \in {t \in ts \ stale[w] : trip[t].active}}

\* A refusal, a failed statement, a lost deadlock or the death of the process:
\* a transaction is rolled back, anything else stays as it is.
Abandon(w) ==
    /\ pc[w] # "idle"
    /\ End(w)
    /\ stale' = [stale EXCEPT ![w] = {}]
    /\ UNCHANGED <<rows, calls, asked, mixed, broken, dead>>

-----------------------------------------------------------------------------
(* assignVehicles, in the transaction of its caller                        *)

\* A client's own writes and what the others have committed.
Sees(w, v) == IF written[w][v] = Kept THEN owner[v] ELSE written[w][v]

Locked(w, v) == \E u \in Workers \ {w} : written[u][v] # Kept

\* Nothing but vehicles that are free or the client's own.
ReadVehicles(w) ==
    /\ pc[w] = "read"
    /\ \A v \in wanted[w] : Sees(w, v) \in {Null, email[w]}
    /\ free' = [free EXCEPT ![w] = {v \in wanted[w] : Sees(w, v) = Null}]
    /\ Goto(w, IF free'[w] = {} THEN "commit" ELSE "assign")
    /\ UNCHANGED <<rows, email, wanted, written, link, histories>>

\* Mutant: the update does not ask again whether the vehicles are free.
AssignRead(w) ==
    /\ pc[w] = "assign"
    /\ \A v \in free[w] : ~Locked(w, v)
    /\ written' = [written EXCEPT ![w] = [v \in Vehicles |->
           IF v \in free[w] THEN email[w] ELSE written[w][v]]]
    /\ Goto(w, "commit")
    /\ UNCHANGED <<rows, email, wanted, free, link, histories>>

\* updateMany on the rows that are still free; it waits for those another
\* transaction holds.  A count that falls short, or a client that is gone, rolls
\* back (Abandon).
AssignVehicles(w) ==
    /\ pc[w] = "assign"
    /\ \A v \in free[w] : ~Locked(w, v) /\ Sees(w, v) = Null
    /\ written' = [written EXCEPT ![w] = [v \in Vehicles |->
           IF v \in free[w] THEN email[w] ELSE written[w][v]]]
    /\ free' = [free EXCEPT ![w] = {}]
    /\ Goto(w, "commit")
    /\ UNCHANGED <<rows, email, wanted, link, histories>>

-----------------------------------------------------------------------------
(* create, update and remove of a client                                   *)

\* The email is not taken; the password is hashed.
CreateCall(w, c, vs) ==
    /\ account[c] = "none"
    /\ Begin(w, "insert", c)
    /\ wanted' = [wanted EXCEPT ![w] = vs]
    /\ UNCHANGED <<free, written, link>>

\* The insert waits for another that holds the email, and fails if that commits.
InsertClient(w) ==
    /\ pc[w] = "insert"
    /\ account[email[w]] = "none"
    /\ \A v \in Workers \ {w} : email[v] = email[w] => pc[v] \in {"idle", "insert"}
    /\ Goto(w, "read")
    /\ UNCHANGED <<rows, locals, histories>>

UpdateCall(w, c, vs) ==
    /\ account[c] = "exists"
    /\ Begin(w, "check", c)
    /\ wanted' = [wanted EXCEPT ![w] = vs]
    /\ UNCHANGED <<free, written, link>>

\* Mutant: the vehicles that are left out stay.
ReleaseNothing(w) ==
    /\ pc[w] = "release"
    /\ Goto(w, "read")
    /\ UNCHANGED <<rows, locals, histories>>

\* The vehicles of the client that the request leaves out.
Leaving(w) == {v \in Vehicles : Sees(w, v) = email[w] /\ v \notin wanted[w]}

\* The trips, of any client, that are to be made with one of the vehicles.
TripsWith(vs) == {t \in Trips : trip[t] # Null /\ trip[t].vehicle \in vs}

\* Mutant: only trips that have not started yet count.
PendingOn(vs) == {t \in TripsWith(vs) : ~trip[t].active}

ActiveOn(vs) == {t \in TripsWith(vs) : trip[t].active}

\* None of them is on an active trip.
CheckLeaving(w) ==
    /\ pc[w] = "check"
    /\ ActiveOn(Leaving(w)) = {}
    /\ Goto(w, "release")
    /\ UNCHANGED <<rows, locals, histories>>

ReleaseVehicles(w) ==
    /\ pc[w] = "release"
    /\ \A v \in Leaving(w) : ~Locked(w, v)
    /\ written' = [written EXCEPT ![w] = [v \in Vehicles |->
           IF v \in Leaving(w) THEN Null ELSE written[w][v]]]
    /\ Break(w, TripsWith(Leaving(w)), "update")
    /\ stale' = [stale EXCEPT ![w] = {}]
    /\ Goto(w, "read")
    /\ UNCHANGED <<rows, email, wanted, free, link, calls, asked, shared, mixed, dead>>

\* create commits its client; update writes name and email, which fails when the
\* client is gone.
Commit(w) ==
    /\ pc[w] = "commit"
    /\ account[email[w]] # "deleted"
    /\ account' = [account EXCEPT ![email[w]] = "exists"]
    /\ owner' = [v \in Vehicles |-> Sees(w, v)]
    /\ asked' = [asked EXCEPT ![email[w]] = wanted[w]]
    /\ Note(w, "update")
    /\ Disturb(w, TripsWith({v \in Vehicles : owner'[v] # owner[v]}))
    /\ End(w)
    /\ UNCHANGED <<trip, token, calls, broken, dead>>

TripsOf(c) == {t \in Trips : trip[t] # Null /\ trip[t].client = c}

\* The client has no active trip.  Trips of others are not looked at.
RemoveCall(w, c) ==
    /\ account[c] = "exists"
    /\ \A t \in TripsOf(c) : ~trip[t].active
    /\ Begin(w, "delete", c)
    /\ UNCHANGED <<wanted, free, written, link>>

VehiclesOf(c) == {v \in Vehicles : owner[v] = c}

\* The trips are deleted with the client, its vehicles become unassigned whosever
\* trips they are on.  The statement waits for transactions that hold the client or a
\* vehicle of it.
DeleteClient(w) ==
    /\ pc[w] = "delete"
    /\ account[email[w]] = "exists"
    /\ \A v \in VehiclesOf(email[w]) : ~Locked(w, v)
    /\ \A u \in Workers, v \in Vehicles : written[u][v] # email[w]
    /\ account' = [account EXCEPT ![email[w]] = "deleted"]
    /\ owner' = [v \in Vehicles |-> IF v \in VehiclesOf(email[w]) THEN Null ELSE owner[v]]
    /\ trip' = [t \in Trips |-> IF t \in TripsOf(email[w]) THEN Null ELSE trip[t]]
    /\ Break(w, TripsOf(email[w]) \cup TripsWith(VehiclesOf(email[w])), "delete")
    /\ Disturb(w, {})
    /\ End(w)
    /\ UNCHANGED <<token, calls, asked, mixed, dead>>

-----------------------------------------------------------------------------
(* Admin accounts: one insert, one delete                                  *)

CreateUser(u) ==
    /\ account[u] = "none"
    /\ account' = [account EXCEPT ![u] = "exists"]
    /\ UNCHANGED <<owner, trip, token, pc, locals, histories>>

RemoveUser(u) ==
    /\ account[u] = "exists"
    /\ account' = [account EXCEPT ![u] = "deleted"]
    /\ UNCHANGED <<owner, trip, token, pc, locals, histories>>

-----------------------------------------------------------------------------
(* Trips                                                                   *)

\* create: the vehicle is the client's.
CreateTrip(t, c, v) ==
    /\ trip[t] = Null
    /\ account[c] = "exists"
    /\ owner[v] = c
    /\ trip' = [trip EXCEPT ![t] = [client |-> c, vehicle |-> v, active |-> FALSE]]
    /\ UNCHANGED <<account, owner, token, pc, locals, histories>>

\* updateStatus looks at the trip only.
StartTrip(t) ==
    /\ trip[t] # Null
    /\ ~trip[t].active
    /\ trip' = [trip EXCEPT ![t].active = TRUE]
    /\ Disturb(Null, {t})
    /\ UNCHANGED <<account, owner, token, pc, locals, calls, asked, shared, mixed, broken, dead>>

EndTrip(t) ==
    /\ trip[t] # Null
    /\ trip[t].active
    /\ trip' = [trip EXCEPT ![t].active = FALSE]
    /\ UNCHANGED <<account, owner, token, pc, locals, histories>>

-----------------------------------------------------------------------------
(* Password reset                                                          *)

\* resolveAccountType: an unknown email gets the same answer and no link.
ForgotCall(w, e) ==
    /\ account[e] = "exists"
    /\ Begin(w, "forget", e)
    /\ UNCHANGED <<wanted, free, written, link>>

Of(e) == {k \in Tokens : token[k].email = e}

\* Mutant: the outstanding links stay.
ForgetNothing(w) ==
    /\ pc[w] = "forget"
    /\ Goto(w, "issue")
    /\ UNCHANGED <<rows, locals, histories>>

ForgetLinks(w) ==
    /\ pc[w] = "forget"
    /\ token' = [k \in Tokens |->
           IF k \in Of(email[w]) THEN [token[k] EXCEPT !.state = "gone"] ELSE token[k]]
    /\ Goto(w, "issue")
    /\ UNCHANGED <<account, owner, trip, locals, histories>>

IssueLink(w, k) ==
    /\ pc[w] = "issue"
    /\ token[k].state = "none"
    /\ token' = [token EXCEPT ![k] = [email |-> email[w], state |-> "live"]]
    /\ Note(w, "link")
    /\ End(w)
    /\ UNCHANGED <<account, owner, trip, calls, asked, stale, broken, dead>>

\* getValidResetToken: a row that exists, is unused and has not expired.
ResetCall(w, k) ==
    /\ token[k].state = "live"
    /\ Begin(w, "password", token[k].email)
    /\ link' = [link EXCEPT ![w] = k]
    /\ UNCHANGED <<wanted, free, written>>

\* By email; fails when the account is gone.
SetPassword(w) ==
    /\ pc[w] = "password"
    /\ account[email[w]] = "exists"
    /\ Goto(w, "consume")
    /\ UNCHANGED <<rows, locals, histories>>

\* Fails when the row is gone.
ConsumeLink(w) ==
    /\ pc[w] = "consume"
    /\ token[link[w]].state # "gone"
    /\ token' = [token EXCEPT ![link[w]].state = "used"]
    /\ Goto(w, "siblings")
    /\ UNCHANGED <<account, owner, trip, locals, histories>>

\* Mutant: other links for the account stay.
LeaveSiblings(w) ==
    /\ pc[w] = "siblings"
    /\ dead' = dead \cup Of(email[w])
    /\ End(w)
    /\ UNCHANGED <<rows, calls, asked, mixed, stale, broken>>

DropSiblings(w) ==
    /\ pc[w] = "siblings"
    /\ token' = [k \in Tokens |->
           IF k \in Of(email[w]) \ {link[w]} THEN [token[k] EXCEPT !.state = "gone"]
           ELSE token[k]]
    /\ dead' = dead \cup Of(email[w])
    /\ End(w)
    /\ UNCHANGED <<account, owner, trip, calls, asked, mixed, stale, broken>>

Expire(k) ==
    /\ token[k].state = "live"
    /\ token' = [token EXCEPT ![k].state = "expired"]
    /\ UNCHANGED <<account, owner, trip, pc, locals, histories>>

-----------------------------------------------------------------------------
Next ==
    \/ \E w \in Workers, c \in Clients, vs \in SUBSET Vehicles :
           CreateCall(w, c, vs) \/ UpdateCall(w, c, vs)
    \/ \E w \in Workers, c \in Clients : RemoveCall(w, c)
    \/ \E w \in Workers :
           \/ InsertClient(w) \/ CheckLeaving(w) \/ ReleaseVehicles(w)
           \/ ReadVehicles(w) \/ AssignVehicles(w) \/ Commit(w)
           \/ DeleteClient(w)
           \/ ForgetLinks(w) \/ SetPassword(w) \/ ConsumeLink(w) \/ DropSiblings(w)
           \/ Abandon(w)
    \/ \E w \in Workers, e \in Accounts : ForgotCall(w, e)
    \/ \E w \in Workers, k \in Tokens : IssueLink(w, k) \/ ResetCall(w, k)
    \/ \E u \in Users : CreateUser(u) \/ RemoveUser(u)
    \/ \E t \in Trips, c \in Clients, v \in Vehicles : CreateTrip(t, c, v)
    \/ \E t \in Trips : StartTrip(t) \/ EndTrip(t)
    \/ \E k \in Tokens : Expire(k)

Spec == Init /\ [][Next]_vars

-----------------------------------------------------------------------------
(* Properties                                                              *)

\* Two admins give one vehicle to two clients: whatever the order of their reads,
\* updates and commits, no vehicle passes from one client to another without being
\* free in between (assignVehicles asks again in the update itself, and a count
\* that falls short rolls back).
NoTheft == [][\A v \in Vehicles : owner'[v] \in {owner[v], Null} \/ owner[v] = Null]_vars

\* The full set of a client: its vehicles are those of the last request that
\* succeeded, all of them and no others, unless that request overlapped another
\* for the client.  No other client's request and no rollback leaves a part.
FullSet ==
    \A c \in Clients :
        account[c] = "exists" /\ c \notin mixed["update"] => VehiclesOf(c) = asked[c]

\* update and remove break no trip under way that their check could have seen, but in
\* one way: a client was given a vehicle on which another's trip was planned, the trip
\* started, and deleting that client unassigns the vehicle.  An update never does, and
\* no deletion takes the row of a trip under way; a trip that started, or whose vehicle
\* came to the client, after the check of this very call is outside the promise.
BrokenByHandOverOnly == \A b \in broken : b.call = "delete" /\ b.of # b.by

\* When a reset has gone through, no link issued before, used or not, will start
\* another one.
DeadLinksStayDead == \A k \in dead : token[k].state # "live"

\* Two links for one account work at the same time only if the requests for them
\* overlapped: a later request withdraws the earlier links.
OneLiveLink ==
    \A j, k \in Tokens :
        j # k /\ token[j].state = "live" /\ token[k].state = "live"
        /\ token[j].email = token[k].email
            => token[j].email \in mixed["link"]
=============================================================================
