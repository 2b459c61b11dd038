---------------------------- MODULE AccountsProofs ----------------------------
(***************************************************************************)
(* Proofs about Accounts: its type invariant; that no vehicle is taken     *)
(* from a client; that a request that succeeds leaves its full set; that a *)
(* trip under way loses its vehicle to a race, or to the deletion of a     *)
(* client that is not its own, only; that a reset kills the links issued   *)
(* before it, and a new link the earlier ones.                             *)
(***************************************************************************)
EXTENDS Accounts, TLAPS

Statements ==
    {"idle", "insert", "check", "release", "read", "assign", "commit",
     "delete", "forget", "issue", "password", "consume", "siblings"}

Updating == {"insert", "check", "release", "read", "assign", "commit"}

(* What a worker has at hand at each statement.                            *)
AtHand(w) ==
    /\ pc[w] \in Updating \cup {"delete"} => email[w] \in Clients
    /\ pc[w] \in {"forget", "issue"} => email[w] \in Accounts
    /\ pc[w] \in {"password", "consume", "siblings"} => link[w] \in Tokens
    /\ pc[w] \notin {"read", "assign", "commit"} => written[w] = Untouched

TypeInv == TypeOK /\ \A w \in Workers : AtHand(w)

ClientsAreAccounts == Clients \subseteq Accounts

LEMMA AccountFacts == ClientsAreAccounts /\ Null \notin Accounts /\ Kept \notin Clients /\ Kept # Null
  BY ConstantAssumption, KeptAssumption DEF ClientsAreAccounts, Accounts

LEMMA UntouchedTyped == Untouched \in [Vehicles -> Clients \cup {Null, Kept}]
  BY DEF Untouched

LEMMA BeginTyped ==
    ASSUME TypeInv, NEW w \in Workers, NEW next \in Statements, NEW e \in Accounts \cup {Null},
           Begin(w, next, e)
    PROVE  /\ pc' = [pc EXCEPT ![w] = next] /\ pc[w] = "idle" /\ pc' \in [Workers -> Statements]
           /\ email' = [email EXCEPT ![w] = e] /\ email' \in [Workers -> Accounts \cup {Null}]
           /\ shared' \in [Workers -> BOOLEAN]
           /\ calls' \in 0 .. MaxCalls
           /\ UNCHANGED <<rows, asked, mixed, stale, broken, dead>>
<1>1. shared' \in [Workers -> BOOLEAN]
  BY DEF Begin, TypeInv, TypeOK
<1>2. calls' \in 0 .. MaxCalls
  BY ConstantAssumption DEF Begin, TypeInv, TypeOK
<1> QED
  BY <1>1, <1>2 DEF Begin, Goto, TypeInv, TypeOK, Statements

LEMMA EndTyped ==
    ASSUME TypeInv, NEW w \in Workers, End(w)
    PROVE  /\ pc' = [pc EXCEPT ![w] = "idle"] /\ pc' \in [Workers -> Statements]
           /\ email' \in [Workers -> Accounts \cup {Null}]
           /\ wanted' \in [Workers -> SUBSET Vehicles] /\ free' \in [Workers -> SUBSET Vehicles]
           /\ written' \in [Workers -> [Vehicles -> Clients \cup {Null, Kept}]]
           /\ link' \in [Workers -> Tokens \cup {Null}]
           /\ shared' \in [Workers -> BOOLEAN]
           /\ \A u \in Workers : AtHand(u)'
<1>1. /\ pc' = [pc EXCEPT ![w] = "idle"] /\ pc' \in [Workers -> Statements]
      /\ email' \in [Workers -> Accounts \cup {Null}]
      /\ wanted' \in [Workers -> SUBSET Vehicles] /\ free' \in [Workers -> SUBSET Vehicles]
      /\ link' \in [Workers -> Tokens \cup {Null}]
      /\ shared' \in [Workers -> BOOLEAN]
  BY DEF End, Goto, TypeInv, TypeOK, Statements
<1>2. written' = [written EXCEPT ![w] = Untouched]
      /\ written' \in [Workers -> [Vehicles -> Clients \cup {Null, Kept}]]
  BY UntouchedTyped DEF End, TypeInv, TypeOK
<1>3. ASSUME NEW u \in Workers PROVE AtHand(u)'
  <2>1. CASE u = w
    BY <1>1, <1>2, <2>1 DEF TypeInv, TypeOK, AtHand, Updating, Untouched
  <2>2. CASE u # w
    BY <1>1, <1>2, <2>2 DEF TypeInv, TypeOK, AtHand, End, Untouched
  <2> QED
    BY <2>1, <2>2
<1> QED
  BY <1>1, <1>2, <1>3

\* A call enters its handler with the account at hand and nothing written.
LEMMA BegunTyped ==
    ASSUME TypeInv, NEW w \in Workers, NEW next \in Statements, NEW e \in Accounts \cup {Null},
           Begin(w, next, e), UNCHANGED <<free, written>>,
           wanted' \in [Workers -> SUBSET Vehicles],
           link' \in [Workers -> Tokens \cup {Null}],
           \A u \in Workers : u # w => link'[u] = link[u],
           next \in Updating \cup {"delete"} => e \in Clients,
           next \in {"forget", "issue"} => e \in Accounts,
           next \notin {"read", "assign", "commit"},
           next \in {"password", "consume", "siblings"} => link'[w] \in Tokens
    PROVE  TypeInv'
<1>1. /\ pc' = [pc EXCEPT ![w] = next] /\ pc[w] = "idle" /\ pc' \in [Workers -> Statements]
      /\ email' = [email EXCEPT ![w] = e] /\ email' \in [Workers -> Accounts \cup {Null}]
      /\ shared' \in [Workers -> BOOLEAN]
      /\ calls' \in 0 .. MaxCalls
      /\ UNCHANGED <<rows, asked, mixed, stale, broken, dead>>
  BY BeginTyped
<1>2. ASSUME NEW u \in Workers PROVE AtHand(u)'
  <2>1. CASE u = w
    BY <1>1, <2>1 DEF TypeInv, TypeOK, AtHand, Updating, Untouched
  <2>2. CASE u # w
    BY <1>1, <2>2 DEF TypeInv, TypeOK, AtHand, Untouched
  <2> QED
    BY <2>1, <2>2
<1> QED
  BY <1>1, <1>2 DEF TypeInv, TypeOK, Statements, rows

\* A worker goes on to another statement with what it has at hand.
LEMMA GoesOn ==
    ASSUME TypeInv, NEW w \in Workers, NEW next \in Statements, Goto(w, next),
           UNCHANGED <<email, link>>,
           \A u \in Workers : u # w => written'[u] = written[u],
           next \in Updating \cup {"delete"} => email[w] \in Clients,
           next \in {"forget", "issue"} => email[w] \in Accounts,
           next \in {"password", "consume", "siblings"} => link[w] \in Tokens,
           next \notin {"read", "assign", "commit"} => written'[w] = Untouched
    PROVE  pc' \in [Workers -> Statements] /\ \A u \in Workers : AtHand(u)'
<1>1. pc' = [pc EXCEPT ![w] = next] /\ pc' \in [Workers -> Statements]
  BY DEF Goto, TypeInv, TypeOK, Statements
<1>2. ASSUME NEW u \in Workers PROVE AtHand(u)'
  <2>1. CASE u = w
    BY <1>1, <2>1 DEF TypeInv, TypeOK, AtHand, Updating, Untouched
  <2>2. CASE u # w
    BY <1>1, <2>2 DEF TypeInv, TypeOK, AtHand, Untouched
  <2> QED
    BY <2>1, <2>2
<1> QED
  BY <1>1, <1>2

LinkRow == [email : Accounts \cup {Null}, state : {"none", "live", "used", "expired", "gone"}]

LEMMA LinkTyped ==
    ASSUME NEW row \in LinkRow, NEW s \in {"live", "used", "expired", "gone"}
    PROVE  [row EXCEPT !.state = s] \in LinkRow
  BY DEF LinkRow

LEMMA SeesTyped ==
    ASSUME TypeOK, NEW w \in Workers, NEW v \in Vehicles
    PROVE  Sees(w, v) \in Clients \cup {Null}
<1>1. written[w][v] \in Clients \cup {Null, Kept} /\ owner[v] \in Clients \cup {Null}
  BY DEF TypeOK
<1> QED
  BY <1>1 DEF Sees

LEMMA DisturbTyped ==
    ASSUME TypeInv, NEW w, NEW ts \in SUBSET Trips, Disturb(w, ts)
    PROVE  stale' \in [Workers -> SUBSET Trips]
  BY DEF Disturb, TypeInv, TypeOK

LEMMA BreakTyped ==
    ASSUME TypeInv, NEW w \in Workers, email[w] \in Clients, NEW ts \in SUBSET Trips,
           \A t \in ts : trip[t] # Null, NEW call \in {"update", "delete"}, Break(w, ts, call)
    PROVE  broken' \in SUBSET [trip : Trips, of : Clients, by : Clients,
                              call : {"update", "delete"}]
<1>1. ASSUME NEW t \in ts PROVE t \in Trips /\ trip[t].client \in Clients
  BY DEF TypeInv, TypeOK
<1> QED
  BY <1>1 DEF Break, TypeInv, TypeOK

LEMMA StepTyped == TypeInv /\ [Next]_vars => TypeInv'
<1> SUFFICES ASSUME TypeInv, [Next]_vars PROVE TypeInv'
  OBVIOUS
<1> USE DEF rows, locals, histories
<1>0. /\ \A w \in Workers : AtHand(w)
      /\ \A c \in Clients : c \in Accounts
      /\ \A s \in {"insert", "check", "read", "release", "assign", "commit", "delete", "forget",
                   "issue", "password", "consume", "siblings"} : s \in Statements
  BY AccountFacts DEF TypeInv, ClientsAreAccounts, Statements
<1>1. ASSUME NEW w \in Workers, NEW c \in Clients, NEW vs \in SUBSET Vehicles,
             CreateCall(w, c, vs) \/ UpdateCall(w, c, vs)
      PROVE  TypeInv'
  <2>1. wanted' \in [Workers -> SUBSET Vehicles] /\ link' = link
        /\ link \in [Workers -> Tokens \cup {Null}]
    BY <1>1 DEF CreateCall, UpdateCall, TypeInv, TypeOK
  <2>2. CASE CreateCall(w, c, vs)
    BY <1>0, <2>1, <2>2, BegunTyped DEF CreateCall
  <2>3. CASE UpdateCall(w, c, vs)
    BY <1>0, <2>1, <2>3, BegunTyped DEF UpdateCall
  <2> QED
    BY <1>1, <2>2, <2>3
<1>2. ASSUME NEW w \in Workers, NEW c \in Clients, RemoveCall(w, c)
      PROVE  TypeInv'
  <2>1. wanted' \in [Workers -> SUBSET Vehicles] /\ link' = link
        /\ link \in [Workers -> Tokens \cup {Null}]
    BY <1>2 DEF RemoveCall, TypeInv, TypeOK
  <2> QED
    BY <1>0, <1>2, <2>1, BegunTyped DEF RemoveCall
<1>3. ASSUME NEW w \in Workers, NEW e \in Accounts, ForgotCall(w, e)
      PROVE  TypeInv'
  <2>1. wanted' \in [Workers -> SUBSET Vehicles] /\ link' = link
        /\ link \in [Workers -> Tokens \cup {Null}]
    BY <1>3 DEF ForgotCall, TypeInv, TypeOK
  <2> QED
    BY <1>0, <1>3, <2>1, BegunTyped DEF ForgotCall, Updating
<1>4. ASSUME NEW w \in Workers, NEW k \in Tokens, ResetCall(w, k)
      PROVE  TypeInv'
  <2>1. /\ wanted' \in [Workers -> SUBSET Vehicles] /\ link' = [link EXCEPT ![w] = k]
        /\ link' \in [Workers -> Tokens \cup {Null}] /\ link'[w] \in Tokens
        /\ \A u \in Workers : u # w => link'[u] = link[u]
    BY <1>4 DEF ResetCall, TypeInv, TypeOK
  <2>2. /\ Begin(w, "password", token[k].email) /\ UNCHANGED <<free, written>>
        /\ token[k].email \in Accounts \cup {Null}
    BY <1>4 DEF ResetCall, TypeInv, TypeOK
  <2> QED
    BY <1>0, <1>4, <2>1, <2>2, BegunTyped DEF Updating
<1>5. ASSUME NEW w \in Workers, InsertClient(w) \/ CheckLeaving(w)
      PROVE  TypeInv'
  <2>1. PICK next \in {"read", "release"} : Goto(w, next) /\ (next = "release" => CheckLeaving(w))
    BY <1>5 DEF InsertClient, CheckLeaving
  <2>2. UNCHANGED <<rows, locals, histories>> /\ pc[w] \in {"insert", "check"}
    BY <1>5 DEF InsertClient, CheckLeaving
  <2>3. AtHand(w)
    BY <1>0
  <2>4. email[w] \in Clients /\ written[w] = Untouched
    BY <2>2, <2>3 DEF AtHand, Updating
  <2>5. pc' \in [Workers -> Statements] /\ \A u \in Workers : AtHand(u)'
    BY <1>0, <2>1, <2>2, <2>4, GoesOn
  <2> QED
    BY <2>2, <2>5 DEF TypeInv, TypeOK, Statements
<1>6. ASSUME NEW w \in Workers, ReleaseVehicles(w) \/ AssignVehicles(w)
      PROVE  TypeInv'
  <2>1. AtHand(w) /\ pc[w] \in {"release", "assign"}
    BY <1>0, <1>6 DEF ReleaseVehicles, AssignVehicles
  <2>2. email[w] \in Clients
    BY <2>1 DEF AtHand, Updating
  <2>3. PICK vs \in SUBSET Vehicles, x \in Clients \cup {Null} :
            written' = [written EXCEPT ![w] = [v \in Vehicles |->
                            IF v \in vs THEN x ELSE written[w][v]]]
    <3>1. CASE ReleaseVehicles(w)
      <4>1. Leaving(w) \in SUBSET Vehicles
        BY DEF Leaving
      <4>2. written' = [written EXCEPT ![w] = [v \in Vehicles |->
                            IF v \in Leaving(w) THEN Null ELSE written[w][v]]]
        BY <3>1 DEF ReleaseVehicles
      <4> QED
        BY <4>1, <4>2
    <3>2. CASE AssignVehicles(w)
      <4>1. free[w] \in SUBSET Vehicles
        BY DEF TypeInv, TypeOK
      <4> QED
        BY <2>2, <3>2, <4>1 DEF AssignVehicles
    <3> QED
      BY <1>6, <3>1, <3>2
  <2>4. written' \in [Workers -> [Vehicles -> Clients \cup {Null, Kept}]]
        /\ \A u \in Workers : u # w => written'[u] = written[u]
    <3>1. [v \in Vehicles |-> IF v \in vs THEN x ELSE written[w][v]]
              \in [Vehicles -> Clients \cup {Null, Kept}]
      BY DEF TypeInv, TypeOK
    <3> QED
      BY <2>3, <3>1 DEF TypeInv, TypeOK
  <2>5. PICK next \in {"read", "commit"} : Goto(w, next)
    BY <1>6 DEF ReleaseVehicles, AssignVehicles
  <2>6. UNCHANGED <<email, link, account, owner, trip, token, wanted, calls, asked, shared, mixed, dead>>
    BY <1>6 DEF ReleaseVehicles, AssignVehicles
  <2>7. free' \in [Workers -> SUBSET Vehicles] /\ stale' \in [Workers -> SUBSET Trips]
        /\ broken' \in SUBSET [trip : Trips, of : Clients, by : Clients,
                               call : {"update", "delete"}]
    <3>1. CASE ReleaseVehicles(w)
      <4>1. Break(w, TripsWith(Leaving(w)), "update")
        BY <3>1 DEF ReleaseVehicles
      <4>2. TripsWith(Leaving(w)) \in SUBSET Trips /\ \A t \in TripsWith(Leaving(w)) : trip[t] # Null
        BY DEF TripsWith
      <4>3. broken' \in SUBSET [trip : Trips, of : Clients, by : Clients,
                               call : {"update", "delete"}]
        BY <2>2, <4>1, <4>2, BreakTyped
      <4> QED
        BY <3>1, <4>3 DEF ReleaseVehicles, TypeInv, TypeOK
    <3>2. CASE AssignVehicles(w)
      BY <3>2 DEF AssignVehicles, TypeInv, TypeOK
    <3> QED
      BY <1>6, <3>1, <3>2
  <2>8. pc' \in [Workers -> Statements] /\ \A u \in Workers : AtHand(u)'
    BY <1>0, <2>2, <2>4, <2>5, <2>6, GoesOn
  <2> QED
    BY <2>4, <2>6, <2>7, <2>8 DEF TypeInv, TypeOK, Statements
<1>7. ASSUME NEW w \in Workers, ReadVehicles(w)
      PROVE  TypeInv'
  <2>1. AtHand(w) /\ pc[w] = "read"
        /\ UNCHANGED <<rows, email, wanted, written, link, histories>>
    BY <1>0, <1>7 DEF ReadVehicles
  <2>2. email[w] \in Clients
    BY <2>1 DEF AtHand, Updating
  <2>3. free' \in [Workers -> SUBSET Vehicles]
    <3>1. {v \in wanted[w] : Sees(w, v) = Null} \in SUBSET Vehicles
      BY DEF TypeInv, TypeOK
    <3> QED
      BY <1>7, <3>1 DEF ReadVehicles, TypeInv, TypeOK
  <2>4. PICK next \in {"commit", "assign"} : Goto(w, next)
    BY <1>7 DEF ReadVehicles
  <2>5. pc' \in [Workers -> Statements] /\ \A u \in Workers : AtHand(u)'
    BY <1>0, <2>1, <2>2, <2>4, GoesOn
  <2> QED
    BY <2>1, <2>3, <2>5 DEF TypeInv, TypeOK, Statements
<1>8. ASSUME NEW w \in Workers, Commit(w)
      PROVE  TypeInv'
  <2>1. AtHand(w) /\ pc[w] = "commit" /\ End(w)
    BY <1>0, <1>8 DEF Commit
  <2>2. email[w] \in Clients /\ email[w] \in Accounts /\ wanted[w] \in SUBSET Vehicles
    BY <1>0, <2>1 DEF AtHand, Updating, TypeInv, TypeOK
  <2>3. account' \in [Accounts -> {"none", "exists", "deleted"}]
        /\ asked' \in [Clients -> SUBSET Vehicles]
    BY <1>8, <2>2 DEF Commit, TypeInv, TypeOK
  <2>4. owner' \in [Vehicles -> Clients \cup {Null}]
    BY <1>8, SeesTyped DEF Commit, TypeInv
  <2>5. mixed' \in [{"update", "link"} -> SUBSET Accounts]
    BY <1>8, <2>2 DEF Commit, Note, TypeInv, TypeOK
  <2>6. stale' \in [Workers -> SUBSET Trips]
    <3>1. Disturb(w, TripsWith({v \in Vehicles : owner'[v] # owner[v]}))
      BY <1>8 DEF Commit
    <3>2. TripsWith({v \in Vehicles : owner'[v] # owner[v]}) \subseteq Trips
      BY DEF TripsWith
    <3> QED
      BY <3>1, <3>2, DisturbTyped
  <2>7. UNCHANGED <<trip, token, calls, broken, dead>>
    BY <1>8 DEF Commit
  <2> QED
    BY <2>1, <2>3, <2>4, <2>5, <2>6, <2>7, EndTyped DEF TypeInv, TypeOK, Statements
<1>9. ASSUME NEW w \in Workers, DeleteClient(w)
      PROVE  TypeInv'
  <2>1. End(w) /\ UNCHANGED <<token, calls, asked, mixed, dead>>
    BY <1>9 DEF DeleteClient
  <2>2. account' \in [Accounts -> {"none", "exists", "deleted"}]
        /\ owner' \in [Vehicles -> Clients \cup {Null}]
    BY <1>9 DEF DeleteClient, TypeInv, TypeOK
  <2>3. trip' \in [Trips -> [client : Clients, vehicle : Vehicles \cup {Null}, active : BOOLEAN]
                            \cup {Null}]
    BY <1>9 DEF DeleteClient, TypeInv, TypeOK
  <2>4. stale' \in [Workers -> SUBSET Trips]
    BY <1>9, DisturbTyped DEF DeleteClient
  <2>5. broken' \in SUBSET [trip : Trips, of : Clients, by : Clients,
                           call : {"update", "delete"}]
    <3> DEFINE ts == TripsOf(email[w]) \cup TripsWith(VehiclesOf(email[w]))
    <3>1. email[w] \in Clients
      BY <1>0, <1>9 DEF DeleteClient, AtHand
    <3>2. ts \in SUBSET Trips /\ \A t \in ts : trip[t] # Null
      BY DEF TripsOf, TripsWith
    <3>3. Break(w, ts, "delete")
      BY <1>9 DEF DeleteClient
    <3> HIDE DEF ts
    <3> QED
      BY <3>1, <3>2, <3>3, BreakTyped
  <2> QED
    BY <2>1, <2>2, <2>3, <2>4, <2>5, EndTyped DEF TypeInv, TypeOK, Statements
<1>10. ASSUME NEW w \in Workers, ForgetLinks(w) \/ SetPassword(w) \/ ConsumeLink(w)
       PROVE  TypeInv'
  <2>1. AtHand(w) /\ pc[w] \in {"forget", "password", "consume"}
        /\ UNCHANGED <<account, owner, trip, locals, histories>>
    BY <1>0, <1>10 DEF ForgetLinks, SetPassword, ConsumeLink
  <2>2. PICK next \in {"issue", "consume", "siblings"} :
            Goto(w, next) /\ (next # "issue" => pc[w] \in {"password", "consume"})
    BY <1>10 DEF ForgetLinks, SetPassword, ConsumeLink
  <2>3. /\ next # "issue" => link[w] \in Tokens
        /\ next = "issue" => email[w] \in Accounts
        /\ written[w] = Untouched
    <3>1. next = "issue" => pc[w] = "forget"
      BY <1>10, <2>2 DEF ForgetLinks, SetPassword, ConsumeLink, Goto, TypeInv, TypeOK
    <3> QED
      BY <2>1, <2>2, <3>1 DEF AtHand
  <2>4. token' \in [Tokens -> [email : Accounts \cup {Null},
                               state : {"none", "live", "used", "expired", "gone"}]]
    <3> SUFFICES token' \in [Tokens -> LinkRow]
      BY DEF LinkRow
    <3>0. token \in [Tokens -> LinkRow]
      BY DEF TypeInv, TypeOK, LinkRow
    <3>1. CASE ForgetLinks(w)
      BY <3>0, <3>1, LinkTyped DEF ForgetLinks
    <3>2. CASE SetPassword(w)
      BY <3>0, <3>2 DEF SetPassword
    <3>3. CASE ConsumeLink(w)
      BY <3>0, <3>3, LinkTyped DEF ConsumeLink
    <3> QED
      BY <1>10, <3>1, <3>2, <3>3
  <2>5. pc' \in [Workers -> Statements] /\ \A u \in Workers : AtHand(u)'
    BY <1>0, <2>1, <2>2, <2>3, GoesOn DEF Updating
  <2> QED
    BY <2>1, <2>4, <2>5 DEF TypeInv, TypeOK, Statements
<1>11. ASSUME NEW w \in Workers, NEW k \in Tokens, IssueLink(w, k)
       PROVE  TypeInv'
  <2>1. AtHand(w) /\ pc[w] = "issue" /\ End(w)
        /\ UNCHANGED <<account, owner, trip, calls, asked, stale, broken, dead>>
    BY <1>0, <1>11 DEF IssueLink
  <2>2. email[w] \in Accounts
    BY <2>1 DEF AtHand
  <2>3. token' \in [Tokens -> [email : Accounts \cup {Null},
                               state : {"none", "live", "used", "expired", "gone"}]]
        /\ mixed' \in [{"update", "link"} -> SUBSET Accounts]
    BY <1>11, <2>2 DEF IssueLink, Note, TypeInv, TypeOK
  <2> QED
    BY <2>1, <2>3, EndTyped DEF TypeInv, TypeOK, Statements
<1>12. ASSUME NEW w \in Workers, DropSiblings(w)
       PROVE  TypeInv'
  <2>1. End(w) /\ UNCHANGED <<account, owner, trip, calls, asked, mixed, stale, broken>>
    BY <1>12 DEF DropSiblings
  <2>2. token' \in [Tokens -> [email : Accounts \cup {Null},
                               state : {"none", "live", "used", "expired", "gone"}]]
        /\ dead' \in SUBSET Tokens
    BY <1>12 DEF DropSiblings, Of, TypeInv, TypeOK
  <2> QED
    BY <2>1, <2>2, EndTyped DEF TypeInv, TypeOK, Statements
<1>13. ASSUME NEW w \in Workers, Abandon(w)
       PROVE  TypeInv'
  <2>1. End(w) /\ UNCHANGED <<rows, calls, asked, mixed, broken, dead>>
        /\ stale' \in [Workers -> SUBSET Trips]
    BY <1>13 DEF Abandon, TypeInv, TypeOK
  <2> QED
    BY <2>1, EndTyped DEF TypeInv, TypeOK, Statements
<1>14. ASSUME UNCHANGED <<pc, locals>>, TypeOK' PROVE TypeInv'
  BY <1>0, <1>14 DEF TypeInv, AtHand, Untouched
<1>15. ASSUME NEW u \in Users, CreateUser(u) \/ RemoveUser(u)
       PROVE  TypeInv'
  BY <1>14, <1>15 DEF CreateUser, RemoveUser, TypeInv, TypeOK
<1>16. ASSUME NEW t \in Trips, NEW c \in Clients, NEW v \in Vehicles, CreateTrip(t, c, v)
       PROVE  TypeInv'
  BY <1>14, <1>16 DEF CreateTrip, TypeInv, TypeOK
<1>17. ASSUME NEW t \in Trips, StartTrip(t) \/ EndTrip(t)
       PROVE  TypeInv'
  <2>1. PICK active \in BOOLEAN : trip[t] # Null /\ trip' = [trip EXCEPT ![t].active = active]
    BY <1>17 DEF StartTrip, EndTrip
  <2>2. trip[t] \in [client : Clients, vehicle : Vehicles \cup {Null}, active : BOOLEAN]
    BY <2>1 DEF TypeInv, TypeOK
  <2>3. [trip[t] EXCEPT !.active = active]
            \in [client : Clients, vehicle : Vehicles \cup {Null}, active : BOOLEAN]
    BY <2>2
  <2>4. trip' \in [Trips -> [client : Clients, vehicle : Vehicles \cup {Null}, active : BOOLEAN]
                            \cup {Null}]
    BY <2>1, <2>3 DEF TypeInv, TypeOK
  <2>5. stale' \in [Workers -> SUBSET Trips]
    <3>1. CASE StartTrip(t)
      BY <3>1, DisturbTyped DEF StartTrip
    <3>2. CASE EndTrip(t)
      BY <3>2 DEF EndTrip, TypeInv, TypeOK
    <3> QED
      BY <1>17, <3>1, <3>2
  <2>6. UNCHANGED <<account, owner, token, pc, locals, calls, asked, shared, mixed, broken, dead>>
    BY <1>17 DEF StartTrip, EndTrip
  <2> QED
    BY <1>14, <2>4, <2>5, <2>6 DEF TypeInv, TypeOK
<1>18. ASSUME NEW k \in Tokens, Expire(k)
       PROVE  TypeInv'
  BY <1>14, <1>18 DEF Expire, TypeInv, TypeOK
<1>19. CASE UNCHANGED vars
  BY <1>14, <1>19 DEF vars, TypeInv, TypeOK
<1> QED
  BY <1>1, <1>2, <1>3, <1>4, <1>5, <1>6, <1>7, <1>8, <1>9, <1>10, <1>11, <1>12, <1>13, <1>15,
     <1>16, <1>17, <1>18, <1>19 DEF Next

LEMMA InitTyped == Init => TypeInv
<1> SUFFICES ASSUME Init PROVE TypeInv
  OBVIOUS
<1>1. TypeOK
  BY ConstantAssumption, UntouchedTyped DEF Init, TypeOK
<1>2. \A w \in Workers : AtHand(w)
  BY DEF Init, AtHand, Updating
<1> QED
  BY <1>1, <1>2 DEF TypeInv

LEMMA TypeInvariance == Spec => []TypeInv
  BY InitTyped, StepTyped, PTL DEF Spec

\* Accounts, vehicles, links and the requests under way are well typed in every
\* reachable state.
THEOREM TypeCorrect == Spec => []TypeOK
<1>1. TypeInv => TypeOK
  BY DEF TypeInv
<1> QED
  BY <1>1, TypeInvariance, PTL

-----------------------------------------------------------------------------
(* No vehicle is taken from a client.  A vehicle is written by one         *)
(* transaction at a time, which gives it to its client when it was free    *)
(* and frees it when it was its client's.                                  *)

Own(w, v) ==
    /\ \A u \in Workers : written[u][v] # Kept /\ written[w][v] # Kept => u = w
    /\ written[w][v] = Null => owner[v] = email[w]
    /\ written[w][v] \notin {Kept, Null} =>
           written[w][v] = email[w] /\ owner[v] \in {Null, email[w]}

OwnInv == \A w \in Workers, v \in Vehicles : Own(w, v)

LEMMA OwnKept ==
    ASSUME OwnInv,
           \A w \in Workers, v \in Vehicles :
               \/ written'[w][v] = Kept
               \/ written'[w][v] = written[w][v] /\ email'[w] = email[w] /\ owner'[v] = owner[v]
    PROVE  OwnInv'
<1> SUFFICES ASSUME NEW w \in Workers, NEW v \in Vehicles PROVE Own(w, v)'
  BY DEF OwnInv
<1>1. Own(w, v)
  BY DEF OwnInv
<1>2. CASE written'[w][v] = Kept
  BY <1>2, KeptAssumption DEF Own
<1>3. CASE written'[w][v] = written[w][v] /\ email'[w] = email[w] /\ owner'[v] = owner[v]
  BY <1>1, <1>3 DEF Own
<1> QED
  BY <1>2, <1>3

\* Ending a request drops what it has written; the others keep theirs.
LEMMA OwnEnd ==
    ASSUME TypeInv, OwnInv, NEW w \in Workers, End(w),
           \A u \in Workers, v \in Vehicles :
               u # w /\ written[u][v] # Kept => owner'[v] = owner[v]
    PROVE  OwnInv'
<1>1. ASSUME NEW u \in Workers, NEW v \in Vehicles
      PROVE  \/ written'[u][v] = Kept
             \/ written'[u][v] = written[u][v] /\ email'[u] = email[u] /\ owner'[v] = owner[v]
  <2>1. CASE u = w
    <3>1. written'[w] = Untouched
      BY DEF End, TypeInv, TypeOK
    <3> QED
      BY <2>1, <3>1 DEF Untouched
  <2>2. CASE u # w
    BY <2>2 DEF End, TypeInv, TypeOK
  <2> QED
    BY <2>1, <2>2
<1> QED
  BY <1>1, OwnKept

\* Beginning one writes nothing.
LEMMA OwnBegin ==
    ASSUME TypeInv, OwnInv, NEW w \in Workers, NEW next \in Statements,
           NEW e \in Accounts \cup {Null}, Begin(w, next, e), UNCHANGED written
    PROVE  OwnInv'
<1>1. /\ email' = [email EXCEPT ![w] = e] /\ pc[w] = "idle" /\ UNCHANGED owner
  BY BeginTyped DEF rows
<1>2. AtHand(w)
  BY DEF TypeInv
<1>3. written[w] = Untouched
  BY <1>1, <1>2 DEF AtHand
<1>4. ASSUME NEW u \in Workers, NEW v \in Vehicles
      PROVE  \/ written'[u][v] = Kept
             \/ written'[u][v] = written[u][v] /\ email'[u] = email[u] /\ owner'[v] = owner[v]
  <2>1. CASE u = w
    BY <1>3, <2>1 DEF Untouched
  <2>2. CASE u # w
    BY <1>1, <2>2 DEF TypeInv, TypeOK
  <2> QED
    BY <2>1, <2>2
<1> QED
  BY <1>4, OwnKept

\* Who owned a vehicle that a commit gives away.
LEMMA CommitOwner ==
    ASSUME TypeInv, OwnInv, NEW w \in Workers, Commit(w), NEW v \in Vehicles
    PROVE  /\ owner'[v] = IF written[w][v] = Kept THEN owner[v] ELSE written[w][v]
           /\ owner'[v] # owner[v] => \/ owner[v] = Null /\ owner'[v] = email[w]
                                      \/ owner[v] = email[w] /\ owner'[v] = Null
<1>1. owner'[v] = Sees(w, v)
  BY DEF Commit
<1>2. Own(w, v)
  BY DEF OwnInv
<1> QED
  BY <1>1, <1>2 DEF Sees, Own

LEMMA OwnStep == TypeInv /\ OwnInv /\ [Next]_vars => OwnInv'
<1> SUFFICES ASSUME TypeInv, OwnInv, [Next]_vars PROVE OwnInv'
  OBVIOUS
<1> USE DEF rows, locals, histories
<1>0. /\ \A w \in Workers : AtHand(w)
      /\ \A c \in Clients : c \in Accounts
      /\ \A s \in {"insert", "check", "delete", "forget", "password"} : s \in Statements
      /\ \A k \in Tokens : token[k].email \in Accounts \cup {Null}
  BY AccountFacts DEF TypeInv, TypeOK, ClientsAreAccounts, Statements
<1>1. ASSUME NEW w \in Workers, NEW c \in Clients, NEW vs \in SUBSET Vehicles,
             CreateCall(w, c, vs) \/ UpdateCall(w, c, vs)
      PROVE  OwnInv'
  <2>1. CASE CreateCall(w, c, vs)
    BY <1>0, <2>1, OwnBegin DEF CreateCall
  <2>2. CASE UpdateCall(w, c, vs)
    BY <1>0, <2>2, OwnBegin DEF UpdateCall
  <2> QED
    BY <1>1, <2>1, <2>2
<1>2. ASSUME NEW w \in Workers, NEW c \in Clients, RemoveCall(w, c)
      PROVE  OwnInv'
  BY <1>0, <1>2, OwnBegin DEF RemoveCall
<1>3. ASSUME NEW w \in Workers, NEW e \in Accounts, ForgotCall(w, e)
      PROVE  OwnInv'
  BY <1>0, <1>3, OwnBegin DEF ForgotCall
<1>4. ASSUME NEW w \in Workers, NEW k \in Tokens, ResetCall(w, k)
      PROVE  OwnInv'
  BY <1>0, <1>4, OwnBegin DEF ResetCall
<1>5. ASSUME NEW w \in Workers, ReleaseVehicles(w)
      PROVE  OwnInv'
  <2>1. /\ \A v \in Leaving(w) : ~Locked(w, v)
        /\ written' = [written EXCEPT ![w] = [v \in Vehicles |->
               IF v \in Leaving(w) THEN Null ELSE written[w][v]]]
        /\ UNCHANGED <<email, owner>> /\ written[w] = Untouched
    BY <1>0, <1>5 DEF ReleaseVehicles, AtHand
  <2>2. \A v \in Vehicles : written'[w][v] = IF v \in Leaving(w) THEN Null ELSE Kept
    BY <2>1 DEF Untouched, TypeInv, TypeOK
  <2>3. \A u \in Workers : u # w => written'[u] = written[u]
    BY <2>1 DEF TypeInv, TypeOK
  <2>4. \A v \in Leaving(w) :
            owner[v] = email[w] /\ \A u \in Workers : u # w => written[u][v] = Kept
    BY <2>1 DEF Leaving, Sees, Locked, Untouched
  <2>5. ASSUME NEW u \in Workers, NEW v \in Vehicles PROVE Own(u, v)'
    <3>1. Own(u, v)
      BY DEF OwnInv
    <3>2. CASE u = w
      BY <2>1, <2>2, <2>3, <2>4, <3>2, AccountFacts DEF Own
    <3>3. CASE u # w
      BY <2>1, <2>2, <2>3, <2>4, <3>1, <3>3 DEF Own
    <3> QED
      BY <3>2, <3>3
  <2> QED
    BY <2>5 DEF OwnInv
<1>6. ASSUME NEW w \in Workers, AssignVehicles(w)
      PROVE  OwnInv'
  <2>1. /\ \A v \in free[w] : ~Locked(w, v) /\ Sees(w, v) = Null
        /\ written' = [written EXCEPT ![w] = [v \in Vehicles |->
               IF v \in free[w] THEN email[w] ELSE written[w][v]]]
        /\ UNCHANGED <<email, owner>> /\ email[w] \in Clients
    BY <1>0, <1>6 DEF AssignVehicles, AtHand, Updating
  <2>2. \A v \in Vehicles : written'[w][v] = IF v \in free[w] THEN email[w] ELSE written[w][v]
    BY <2>1 DEF TypeInv, TypeOK
  <2>3. \A u \in Workers : u # w => written'[u] = written[u]
    BY <2>1 DEF TypeInv, TypeOK
  <2>4. ASSUME NEW v \in Vehicles, v \in free[w]
        PROVE  /\ owner[v] \in {Null, email[w]}
               /\ \A u \in Workers : u # w => written[u][v] = Kept
    <3>1. Own(w, v) /\ ~Locked(w, v) /\ Sees(w, v) = Null
      BY <2>1, <2>4 DEF OwnInv
    <3> QED
      BY <3>1 DEF Own, Locked, Sees
  <2>5. ASSUME NEW u \in Workers, NEW v \in Vehicles PROVE Own(u, v)'
    <3>1. Own(u, v)
      BY DEF OwnInv
    <3>2. CASE u = w /\ v \in free[w]
      BY <2>1, <2>2, <2>3, <2>4, <3>2, AccountFacts, ConstantAssumption DEF Own, Accounts
    <3>3. CASE u = w /\ v \notin free[w]
      BY <2>1, <2>2, <2>3, <3>1, <3>3 DEF Own
    <3>4. CASE u # w
      BY <2>1, <2>2, <2>3, <2>4, <3>1, <3>4 DEF Own
    <3> QED
      BY <3>2, <3>3, <3>4
  <2> QED
    BY <2>5 DEF OwnInv
<1>7. ASSUME NEW w \in Workers, Commit(w)
      PROVE  OwnInv'
  <2>1. ASSUME NEW u \in Workers, NEW v \in Vehicles, u # w, written[u][v] # Kept
        PROVE  owner'[v] = owner[v]
    <3>1. written[w][v] = Kept
      BY <2>1 DEF OwnInv, Own
    <3> QED
      BY <1>7, <3>1, CommitOwner
  <2>2. End(w)
    BY <1>7 DEF Commit
  <2> QED
    BY <2>1, <2>2, OwnEnd
<1>8. ASSUME NEW w \in Workers, DeleteClient(w)
      PROVE  OwnInv'
  <2>1. ASSUME NEW u \in Workers, NEW v \in Vehicles, u # w, written[u][v] # Kept
        PROVE  owner'[v] = owner[v]
    BY <1>8, <2>1 DEF DeleteClient, Locked, VehiclesOf
  <2>2. End(w)
    BY <1>8 DEF DeleteClient
  <2> QED
    BY <2>1, <2>2, OwnEnd
<1>9. ASSUME NEW w \in Workers, End(w), UNCHANGED owner
      PROVE  OwnInv'
  BY <1>9, OwnEnd
<1>10. ASSUME NEW w \in Workers, DropSiblings(w) \/ Abandon(w) \/ \E k \in Tokens : IssueLink(w, k)
       PROVE  OwnInv'
  BY <1>9, <1>10 DEF DropSiblings, Abandon, IssueLink
<1>11. ASSUME UNCHANGED <<owner, written, email>> PROVE OwnInv'
  BY <1>11, OwnKept
<1>12. ASSUME NEW w \in Workers,
              InsertClient(w) \/ CheckLeaving(w) \/ ReadVehicles(w) \/ ForgetLinks(w)
              \/ SetPassword(w) \/ ConsumeLink(w)
       PROVE  OwnInv'
  BY <1>11, <1>12 DEF InsertClient, CheckLeaving, ReadVehicles, ForgetLinks, SetPassword, ConsumeLink
<1>13. CASE \/ \E u \in Users : CreateUser(u) \/ RemoveUser(u)
            \/ \E t \in Trips, c \in Clients, v \in Vehicles : CreateTrip(t, c, v)
            \/ \E t \in Trips : StartTrip(t) \/ EndTrip(t)
            \/ \E k \in Tokens : Expire(k)
            \/ UNCHANGED vars
  BY <1>11, <1>13 DEF CreateUser, RemoveUser, CreateTrip, StartTrip, EndTrip, Expire, vars
<1> QED
  BY <1>1, <1>2, <1>3, <1>4, <1>5, <1>6, <1>7, <1>8, <1>10, <1>12, <1>13 DEF Next

\* How a step may change the owner of a vehicle.
LEMMA OwnerStep ==
    ASSUME TypeInv, OwnInv, [Next]_vars, NEW v \in Vehicles
    PROVE  \/ owner'[v] = owner[v]
           \/ \E w \in Workers : Commit(w) /\ {owner[v], owner'[v]} = {Null, email[w]}
           \/ \E w \in Workers : DeleteClient(w) /\ owner[v] = email[w] /\ owner'[v] = Null
<1> USE DEF rows, locals, histories
<1>1. ASSUME NEW w \in Workers, Commit(w), owner'[v] # owner[v]
      PROVE  {owner[v], owner'[v]} = {Null, email[w]}
  BY <1>1, CommitOwner
<1>2. ASSUME NEW w \in Workers, DeleteClient(w), owner'[v] # owner[v]
      PROVE  owner[v] = email[w] /\ owner'[v] = Null
  BY <1>2 DEF DeleteClient, VehiclesOf
<1>3. CASE UNCHANGED owner
  BY <1>3
<1> QED
  BY <1>1, <1>2, <1>3
     DEF Next, vars, CreateCall, UpdateCall, RemoveCall, Begin, InsertClient, CheckLeaving,
         ReleaseVehicles, ReadVehicles, AssignVehicles, ForgetLinks, SetPassword, ConsumeLink,
         DropSiblings, Abandon, ForgotCall, IssueLink, ResetCall, CreateUser, RemoveUser,
         CreateTrip, StartTrip, EndTrip, Expire

LEMMA OwnInvariance == Spec => [](TypeInv /\ OwnInv)
<1>1. Init => OwnInv
  BY AccountFacts DEF Init, OwnInv, Own, Untouched
<1>2. TypeInv /\ OwnInv /\ [Next]_vars => TypeInv' /\ OwnInv'
  BY StepTyped, OwnStep
<1> QED
  BY <1>1, <1>2, InitTyped, PTL DEF Spec

\* Whatever overlaps, commits, rolls back or is deleted, no vehicle passes from one
\* client to another without being free in between (assignVehicles).
THEOREM NobodyIsRobbed == Spec => NoTheft
<1>1. TypeInv /\ OwnInv /\ [Next]_vars =>
          [\A v \in Vehicles : owner'[v] \in {owner[v], Null} \/ owner[v] = Null]_vars
  <2> SUFFICES ASSUME TypeInv, OwnInv, [Next]_vars, NEW v \in Vehicles
               PROVE  owner'[v] \in {owner[v], Null} \/ owner[v] = Null
    OBVIOUS
  <2> QED
    BY OwnerStep
<1> QED
  BY <1>1, OwnInvariance, PTL DEF Spec, NoTheft

-----------------------------------------------------------------------------
(* A check still speaks for every trip that is not stale for its worker.   *)

CheckHolds(w) ==
    /\ pc[w] = "release" => ActiveOn(Leaving(w)) \subseteq stale[w]
    /\ pc[w] = "delete" => \A t \in TripsOf(email[w]) : trip[t].active => t \in stale[w]

CheckInv == (\A w \in Workers : CheckHolds(w)) /\ BrokenByHandOverOnly

\* A trip that is under way after a step was so before it, and its vehicle has come
\* to nobody.
GoesOnAsIs(t) ==
    trip'[t] # Null /\ trip'[t].active =>
        /\ trip[t] # Null /\ trip[t].active /\ trip'[t] = trip[t]
        /\ \A v \in Vehicles : trip[t].vehicle = v => owner'[v] \in {owner[v], Null}

\* What a step of another actor leaves of a check.
LEMMA CheckKept ==
    ASSUME TypeInv, CheckInv, NEW w \in Workers,
           pc'[w] = pc[w], email'[w] = email[w], wanted'[w] = wanted[w], written'[w] = written[w],
           pc[w] \in {"release", "delete"} =>
               stale[w] \subseteq stale'[w] /\ \A t \in Trips \ stale'[w] : GoesOnAsIs(t)
    PROVE  CheckHolds(w)'
<1>1. CheckHolds(w) /\ AtHand(w)
  BY DEF CheckInv, TypeInv
<1>2. ASSUME pc'[w] = "release", NEW t \in Trips, trip'[t] # Null, trip'[t].active,
             trip'[t].vehicle \in Leaving(w)', t \notin stale'[w]
      PROVE  FALSE
  <2>1. GoesOnAsIs(t) /\ stale[w] \subseteq stale'[w] /\ email[w] \in Clients
    BY <1>1, <1>2 DEF AtHand, Updating
  <2>2. trip[t] # Null /\ trip[t].active /\ trip'[t] = trip[t]
    BY <1>2, <2>1 DEF GoesOnAsIs
  <2>3. PICK v \in Vehicles : v = trip[t].vehicle /\ v \in Leaving(w)'
    BY <1>2, <2>2 DEF Leaving
  <2>4. owner'[v] \in {owner[v], Null} /\ email[w] # Null
    BY <1>2, <2>1, <2>3, ConstantAssumption DEF GoesOnAsIs
  <2>5. v \in Leaving(w)
    BY <2>3, <2>4 DEF Leaving, Sees
  <2>6. t \in ActiveOn(Leaving(w))
    BY <2>2, <2>3, <2>5 DEF ActiveOn, TripsWith
  <2> QED
    BY <1>1, <1>2, <2>1, <2>6 DEF CheckHolds
<1>3. ASSUME pc'[w] = "delete", NEW t \in Trips, trip'[t] # Null, trip'[t].active,
             trip'[t].client = email[w], t \notin stale'[w]
      PROVE  FALSE
  <2>1. GoesOnAsIs(t) /\ stale[w] \subseteq stale'[w]
    BY <1>3
  <2>2. trip[t].active /\ t \in TripsOf(email[w])
    BY <1>3, <2>1 DEF GoesOnAsIs, TripsOf
  <2> QED
    BY <1>1, <1>3, <2>1, <2>2 DEF CheckHolds
<1> QED
  BY <1>2, <1>3 DEF CheckHolds, ActiveOn, TripsWith, TripsOf

LEMMA CheckStep == TypeInv /\ CheckInv /\ [Next]_vars => CheckInv'
<1> SUFFICES ASSUME TypeInv, CheckInv, [Next]_vars PROVE CheckInv'
  OBVIOUS
<1> USE DEF rows, locals, histories
<1>0. BrokenByHandOverOnly /\ \A w \in Workers : CheckHolds(w) /\ AtHand(w)
  BY DEF CheckInv, TypeInv
\* A worker that is alone in changing, and changes no trip and no owner.
<1>1. ASSUME NEW w \in Workers, UNCHANGED <<owner, trip>>, BrokenByHandOverOnly', CheckHolds(w)',
             \A u \in Workers \ {w} :
                 /\ pc'[u] = pc[u] /\ email'[u] = email[u] /\ wanted'[u] = wanted[u]
                 /\ written'[u] = written[u] /\ stale'[u] = stale[u]
      PROVE  CheckInv'
  <2>1. ASSUME NEW u \in Workers PROVE CheckHolds(u)'
    <3>1. CASE u = w
      BY <1>1, <3>1
    <3>2. CASE u # w
      BY <1>1, <3>2, CheckKept DEF GoesOnAsIs
    <3> QED
      BY <3>1, <3>2
  <2> QED
    BY <1>1, <2>1 DEF CheckInv
<1>2. ASSUME NEW w \in Workers, NEW c \in Clients, RemoveCall(w, c)
      PROVE  CheckInv'
  <2>1. /\ pc' = [pc EXCEPT ![w] = "delete"] /\ email' = [email EXCEPT ![w] = c]
        /\ UNCHANGED <<owner, trip, broken, wanted, written, stale>>
        /\ \A t \in TripsOf(c) : ~trip[t].active
    BY <1>2 DEF RemoveCall, Begin, Goto
  <2>2. CheckHolds(w)'
    <3>1. pc'[w] = "delete" /\ email'[w] = c
      BY <2>1 DEF TypeInv, TypeOK
    <3> QED
      BY <2>1, <3>1 DEF CheckHolds, TripsOf
  <2>3. BrokenByHandOverOnly'
    BY <1>0, <2>1 DEF BrokenByHandOverOnly
  <2> QED
    BY <1>1, <2>1, <2>2, <2>3 DEF TypeInv, TypeOK
<1>3. ASSUME NEW w \in Workers, CheckLeaving(w)
      PROVE  CheckInv'
  <2>1. /\ pc' = [pc EXCEPT ![w] = "release"] /\ ActiveOn(Leaving(w)) = {}
        /\ UNCHANGED <<owner, trip, broken, email, wanted, written, stale>>
    BY <1>3 DEF CheckLeaving, Goto
  <2>2. CheckHolds(w)'
    <3>1. pc'[w] = "release"
      BY <2>1 DEF TypeInv, TypeOK
    <3>2. Leaving(w)' = Leaving(w)
      BY <2>1 DEF Leaving, Sees
    <3> QED
      BY <2>1, <3>1, <3>2 DEF CheckHolds, ActiveOn, TripsWith
  <2>3. BrokenByHandOverOnly'
    BY <1>0, <2>1 DEF BrokenByHandOverOnly
  <2> QED
    BY <1>1, <2>1, <2>2, <2>3 DEF TypeInv, TypeOK
<1>4. ASSUME NEW w \in Workers, ReleaseVehicles(w)
      PROVE  CheckInv'
  <2>1. /\ pc' = [pc EXCEPT ![w] = "read"] /\ pc[w] = "release"
        /\ UNCHANGED <<owner, trip, email, wanted>>
        /\ stale' = [stale EXCEPT ![w] = {}]
        /\ written' = [written EXCEPT ![w] = [v \in Vehicles |->
               IF v \in Leaving(w) THEN Null ELSE written[w][v]]]
        /\ Break(w, TripsWith(Leaving(w)), "update")
    BY <1>4 DEF ReleaseVehicles, Goto
  <2>2. BrokenByHandOverOnly'
    <3>1. ActiveOn(Leaving(w)) \subseteq stale[w]
      BY <1>0, <2>1 DEF CheckHolds
    <3>2. {t \in TripsWith(Leaving(w)) \ stale[w] : trip[t].active} = {}
      BY <3>1 DEF ActiveOn
    <3>3. broken' = broken
      BY <2>1, <3>2 DEF Break
    <3> QED
      BY <1>0, <3>3 DEF BrokenByHandOverOnly
  <2>3. CheckHolds(w)'
    BY <2>1 DEF CheckHolds, TypeInv, TypeOK
  <2> QED
    BY <1>1, <2>1, <2>2, <2>3 DEF TypeInv, TypeOK
<1>5. ASSUME NEW w \in Workers,
             \/ InsertClient(w) \/ ReadVehicles(w) \/ AssignVehicles(w) \/ ForgetLinks(w)
             \/ SetPassword(w) \/ ConsumeLink(w)
             \/ \E c \in Clients, vs \in SUBSET Vehicles : CreateCall(w, c, vs) \/ UpdateCall(w, c, vs)
             \/ \E e \in Accounts : ForgotCall(w, e)
             \/ \E k \in Tokens : ResetCall(w, k)
      PROVE  CheckInv'
  <2>1. PICK next \in {"read", "commit", "assign", "issue", "consume", "siblings", "insert",
                       "check", "forget", "password"} : Goto(w, next)
    BY <1>5 DEF InsertClient, ReadVehicles, AssignVehicles, ForgetLinks, SetPassword, ConsumeLink,
                CreateCall, UpdateCall, ForgotCall, ResetCall, Begin
  <2>2. /\ UNCHANGED <<owner, trip, broken, stale>>
        /\ \A u \in Workers \ {w} : /\ email'[u] = email[u] /\ wanted'[u] = wanted[u]
                                    /\ written'[u] = written[u]
    BY <1>5 DEF InsertClient, ReadVehicles, AssignVehicles, ForgetLinks, SetPassword, ConsumeLink,
                CreateCall, UpdateCall, ForgotCall, ResetCall, Begin, TypeInv, TypeOK
  <2>3. /\ pc'[w] = next /\ \A u \in Workers \ {w} : pc'[u] = pc[u]
    BY <2>1 DEF Goto, TypeInv, TypeOK
  <2>4. CheckHolds(w)' /\ BrokenByHandOverOnly'
    BY <1>0, <2>2, <2>3 DEF CheckHolds, BrokenByHandOverOnly
  <2> QED
    BY <1>1, <2>2, <2>3, <2>4
<1>6. ASSUME NEW w \in Workers, DropSiblings(w) \/ Abandon(w) \/ \E k \in Tokens : IssueLink(w, k)
      PROVE  CheckInv'
  <2>1. End(w) /\ UNCHANGED <<owner, trip, broken>>
        /\ \A u \in Workers \ {w} : stale'[u] = stale[u]
    BY <1>6 DEF DropSiblings, Abandon, IssueLink, TypeInv, TypeOK
  <2>2. /\ pc'[w] = "idle"
        /\ \A u \in Workers \ {w} : /\ pc'[u] = pc[u] /\ email'[u] = email[u]
                                    /\ wanted'[u] = wanted[u] /\ written'[u] = written[u]
    BY <2>1 DEF End, Goto, TypeInv, TypeOK
  <2>3. CheckHolds(w)' /\ BrokenByHandOverOnly'
    BY <1>0, <2>1, <2>2 DEF CheckHolds, BrokenByHandOverOnly
  <2> QED
    BY <1>1, <2>1, <2>2, <2>3
\* What a step does to trips and owners, it tells the checks of the others.
<1>7. ASSUME NEW ts \in SUBSET Trips, NEW w \in Workers \cup {Null}, Disturb(w, ts),
             BrokenByHandOverOnly', w \in Workers => pc'[w] = "idle",
             \A u \in Workers \ {w} :
                 /\ pc'[u] = pc[u] /\ email'[u] = email[u] /\ wanted'[u] = wanted[u]
                 /\ written'[u] = written[u],
             \A t \in Trips \ ts : GoesOnAsIs(t)
      PROVE  CheckInv'
  <2>1. ASSUME NEW u \in Workers PROVE CheckHolds(u)'
    <3>1. CASE u = w
      BY <1>7, <3>1 DEF CheckHolds
    <3>2. CASE u # w
      <4>1. pc[u] \in {"release", "delete"} => stale'[u] = stale[u] \cup ts
        BY <1>7, <3>2 DEF Disturb
      <4> QED
        BY <1>7, <3>2, <4>1, CheckKept
    <3> QED
      BY <3>1, <3>2
  <2> QED
    BY <1>7, <2>1 DEF CheckInv
<1>8. ASSUME NEW w \in Workers, Commit(w) PROVE CheckInv'
  <2> DEFINE ts == TripsWith({v \in Vehicles : owner'[v] # owner[v]})
  <2>1. End(w) /\ Disturb(w, ts) /\ UNCHANGED <<trip, broken>>
    BY <1>8 DEF Commit
  <2>2. /\ pc'[w] = "idle"
        /\ \A u \in Workers \ {w} : /\ pc'[u] = pc[u] /\ email'[u] = email[u]
                                    /\ wanted'[u] = wanted[u] /\ written'[u] = written[u]
    BY <2>1 DEF End, Goto, TypeInv, TypeOK
  <2>3. ts \in SUBSET Trips /\ \A t \in Trips \ ts : GoesOnAsIs(t)
    BY <2>1 DEF TripsWith, GoesOnAsIs
  <2>4. BrokenByHandOverOnly'
    BY <1>0, <2>1 DEF BrokenByHandOverOnly
  <2> HIDE DEF ts
  <2> QED
    BY <1>7, <2>1, <2>2, <2>3, <2>4
\* The deletion takes a trip under way that is not stale only from another's client.
<1>9. ASSUME NEW w \in Workers, DeleteClient(w) PROVE CheckInv'
  <2> DEFINE ts == TripsOf(email[w]) \cup TripsWith(VehiclesOf(email[w]))
  <2>1. /\ End(w) /\ Disturb(w, {}) /\ pc[w] = "delete" /\ Break(w, ts, "delete")
        /\ owner' = [v \in Vehicles |-> IF v \in VehiclesOf(email[w]) THEN Null ELSE owner[v]]
        /\ trip' = [t \in Trips |-> IF t \in TripsOf(email[w]) THEN Null ELSE trip[t]]
    BY <1>9 DEF DeleteClient
  <2>2. /\ pc'[w] = "idle"
        /\ \A u \in Workers \ {w} : /\ pc'[u] = pc[u] /\ email'[u] = email[u]
                                    /\ wanted'[u] = wanted[u] /\ written'[u] = written[u]
    BY <2>1 DEF End, Goto, TypeInv, TypeOK
  <2>3. \A t \in Trips : GoesOnAsIs(t)
    BY <2>1 DEF GoesOnAsIs
  <2>4. \A t \in TripsOf(email[w]) : trip[t].active => t \in stale[w]
    BY <1>0, <2>1 DEF CheckHolds
  <2>5. ASSUME NEW t \in ts \ stale[w], trip[t].active PROVE trip[t].client # email[w]
    BY <2>4, <2>5 DEF TripsOf, TripsWith
  <2>6. ASSUME NEW b \in broken' PROVE b.call = "delete" /\ b.of # b.by
    <3>1. CASE b \in broken
      BY <1>0, <3>1 DEF BrokenByHandOverOnly
    <3>2. CASE b \notin broken
      <4>1. PICK t \in ts \ stale[w] : /\ trip[t].active
                                       /\ b = [trip |-> t, of |-> trip[t].client, by |-> email[w],
                                               call |-> "delete"]
        BY <2>1, <2>6, <3>2 DEF Break
      <4> QED
        BY <2>5, <4>1
    <3> QED
      BY <3>1, <3>2
  <2>7. BrokenByHandOverOnly'
    BY <2>6 DEF BrokenByHandOverOnly
  <2> HIDE DEF ts
  <2> QED
    BY <1>7, <2>1, <2>2, <2>3, <2>7
<1>10. ASSUME NEW t \in Trips, StartTrip(t) PROVE CheckInv'
  <2>1. Disturb(Null, {t}) /\ UNCHANGED <<owner, pc, email, wanted, written, broken>>
        /\ trip' = [trip EXCEPT ![t].active = TRUE]
    BY <1>10 DEF StartTrip
  <2>2. \A s \in Trips \ {t} : GoesOnAsIs(s)
    BY <2>1 DEF GoesOnAsIs, TypeInv, TypeOK
  <2>3. BrokenByHandOverOnly' /\ Null \notin Workers
    BY <1>0, <2>1, ConstantAssumption DEF BrokenByHandOverOnly
  <2> QED
    BY <1>7, <2>1, <2>2, <2>3
<1>11. ASSUME UNCHANGED <<owner, pc, email, wanted, written, stale, broken>>,
              \A t \in Trips : GoesOnAsIs(t)
       PROVE  CheckInv'
  <2>1. ASSUME NEW u \in Workers PROVE CheckHolds(u)'
    BY <1>11, CheckKept
  <2>2. BrokenByHandOverOnly'
    BY <1>0, <1>11 DEF BrokenByHandOverOnly
  <2> QED
    BY <2>1, <2>2 DEF CheckInv
<1>12. ASSUME NEW t \in Trips, NEW c \in Clients, NEW v \in Vehicles, CreateTrip(t, c, v)
       PROVE  CheckInv'
  <2>1. /\ trip' = [trip EXCEPT ![t] = [client |-> c, vehicle |-> v, active |-> FALSE]]
        /\ UNCHANGED <<owner, pc, email, wanted, written, stale, broken>>
    BY <1>12 DEF CreateTrip
  <2>2. \A s \in Trips : trip'[s] = IF s = t THEN [client |-> c, vehicle |-> v, active |-> FALSE]
                                    ELSE trip[s]
    BY <2>1 DEF TypeInv, TypeOK
  <2>3. \A s \in Trips : GoesOnAsIs(s)
    BY <2>1, <2>2 DEF GoesOnAsIs
  <2> QED
    BY <1>11, <2>1, <2>3
<1>13. ASSUME NEW t \in Trips, EndTrip(t) PROVE CheckInv'
  <2>1. /\ trip' = [trip EXCEPT ![t].active = FALSE] /\ trip[t] # Null
        /\ UNCHANGED <<owner, pc, email, wanted, written, stale, broken>>
    BY <1>13 DEF EndTrip
  <2>2. trip[t] \in [client : Clients, vehicle : Vehicles \cup {Null}, active : BOOLEAN]
    BY <2>1 DEF TypeInv, TypeOK
  <2>3. trip'[t] = [trip[t] EXCEPT !.active = FALSE] /\ \A s \in Trips : s # t => trip'[s] = trip[s]
    BY <2>1 DEF TypeInv, TypeOK
  <2>4. ~trip'[t].active
    BY <2>2, <2>3
  <2>5. \A s \in Trips : GoesOnAsIs(s)
    BY <2>1, <2>3, <2>4 DEF GoesOnAsIs
  <2> QED
    BY <1>11, <2>1, <2>5
<1>14. CASE \/ \E u \in Users : CreateUser(u) \/ RemoveUser(u)
            \/ \E k \in Tokens : Expire(k)
            \/ UNCHANGED vars
  <2>1. UNCHANGED <<owner, trip, pc, email, wanted, written, stale, broken>>
    BY <1>14 DEF CreateUser, RemoveUser, Expire, vars
  <2>2. \A t \in Trips : GoesOnAsIs(t)
    BY <2>1 DEF GoesOnAsIs
  <2> QED
    BY <1>11, <2>1, <2>2
<1> QED
  BY <1>2, <1>3, <1>4, <1>5, <1>6, <1>8, <1>9, <1>10, <1>12, <1>13, <1>14 DEF Next

\* A trip under way loses its vehicle, or its row, to a deletion of a client other than
\* its own and to nothing else, unless it was started, or its vehicle came to the
\* client, after the check of the update or deletion that takes it.
THEOREM OnlyHandOversBreak == Spec => []BrokenByHandOverOnly
<1>1. Init => CheckInv
  BY DEF Init, CheckInv, CheckHolds, BrokenByHandOverOnly
<1>2. CheckInv => BrokenByHandOverOnly
  BY DEF CheckInv
<1>3. TypeInv /\ CheckInv /\ [Next]_vars => TypeInv' /\ CheckInv'
  BY StepTyped, CheckStep
<1> QED
  BY <1>1, <1>2, <1>3, InitTyped, PTL DEF Spec

-----------------------------------------------------------------------------
(* What a request does, and what it leaves of the others.                  *)

Acts(w) ==
    \/ \E c \in Clients, vs \in SUBSET Vehicles : CreateCall(w, c, vs) \/ UpdateCall(w, c, vs)
    \/ \E c \in Clients : RemoveCall(w, c)
    \/ InsertClient(w) \/ CheckLeaving(w) \/ ReleaseVehicles(w)
    \/ ReadVehicles(w) \/ AssignVehicles(w) \/ Commit(w) \/ DeleteClient(w)
    \/ ForgetLinks(w) \/ SetPassword(w) \/ ConsumeLink(w) \/ DropSiblings(w) \/ Abandon(w)
    \/ \E e \in Accounts : ForgotCall(w, e)
    \/ \E k \in Tokens : IssueLink(w, k) \/ ResetCall(w, k)

Undisturbed(u) ==
    /\ pc'[u] = pc[u] /\ email'[u] = email[u] /\ wanted'[u] = wanted[u] /\ free'[u] = free[u]
    /\ written'[u] = written[u] /\ link'[u] = link[u]
    /\ shared[u] => shared'[u]

LEMMA ActsAlone ==
    ASSUME TypeInv, NEW w \in Workers, Acts(w), NEW u \in Workers, u # w
    PROVE  Undisturbed(u)
<1> USE DEF rows, locals, histories, Undisturbed
<1>1. ASSUME NEW next, NEW e, Begin(w, next, e), UNCHANGED <<free, written>>,
             wanted'[u] = wanted[u], link'[u] = link[u]
      PROVE  Undisturbed(u)
  BY <1>1 DEF Begin, Goto, TypeInv, TypeOK
<1>2. ASSUME End(w) PROVE Undisturbed(u)
  BY <1>2 DEF End, Goto, TypeInv, TypeOK
<1>3. CASE \/ \E c \in Clients, vs \in SUBSET Vehicles : CreateCall(w, c, vs) \/ UpdateCall(w, c, vs)
           \/ \E c \in Clients : RemoveCall(w, c)
           \/ \E e \in Accounts : ForgotCall(w, e)
           \/ \E k \in Tokens : ResetCall(w, k)
  BY <1>1, <1>3 DEF CreateCall, UpdateCall, RemoveCall, ForgotCall, ResetCall, TypeInv, TypeOK
<1>4. CASE \/ Commit(w) \/ DeleteClient(w) \/ DropSiblings(w) \/ Abandon(w)
           \/ \E k \in Tokens : IssueLink(w, k)
  BY <1>2, <1>4 DEF Commit, DeleteClient, DropSiblings, Abandon, IssueLink
<1>5. CASE \/ InsertClient(w) \/ CheckLeaving(w) \/ ReleaseVehicles(w) \/ ReadVehicles(w)
           \/ AssignVehicles(w) \/ ForgetLinks(w) \/ SetPassword(w) \/ ConsumeLink(w)
  BY <1>5 DEF InsertClient, CheckLeaving, ReleaseVehicles, ReadVehicles, AssignVehicles,
              ForgetLinks, SetPassword, ConsumeLink, Goto, TypeInv, TypeOK
<1> QED
  BY <1>3, <1>4, <1>5 DEF Acts

\* Either one request makes a step, or none is disturbed.
LEMMA WhoActs ==
    ASSUME TypeInv, [Next]_vars
    PROVE  (\E w \in Workers : Acts(w)) \/ UNCHANGED <<pc, locals, shared, mixed, asked>>
  BY DEF Next, Acts, vars, locals, histories, rows, CreateUser, RemoveUser, CreateTrip, StartTrip,
         EndTrip, Expire

-----------------------------------------------------------------------------
(* Links.  A link that is not new never becomes live, and none is new again. *)

Forward(k) ==
    /\ token'[k].email = token[k].email
    /\ token[k].state # "none" => token'[k].state # "none"
    /\ token[k].state # "live" => token'[k].state # "live"

LEMMA StateChanged ==
    ASSUME NEW row \in LinkRow, NEW s \in {"live", "used", "expired", "gone"}
    PROVE  [row EXCEPT !.state = s].email = row.email /\ [row EXCEPT !.state = s].state = s
  BY DEF LinkRow

LEMMA LinkForward ==
    ASSUME TypeInv, [Next]_vars, NEW k \in Tokens
    PROVE  Forward(k) \/ \E w \in Workers : IssueLink(w, k)
<1> USE DEF rows, locals, histories
<1>0. token \in [Tokens -> LinkRow]
  BY DEF TypeInv, TypeOK, LinkRow
<1>1. ASSUME token'[k] = token[k] PROVE Forward(k)
  BY <1>1 DEF Forward
<1>2. ASSUME NEW s \in {"used", "expired", "gone"}, token'[k] = [token[k] EXCEPT !.state = s]
      PROVE  Forward(k)
  BY <1>0, <1>2, StateChanged DEF Forward
<1>3. ASSUME NEW w \in Workers, ForgetLinks(w) \/ DropSiblings(w) PROVE Forward(k)
  BY <1>1, <1>2, <1>3 DEF ForgetLinks, DropSiblings
<1>4. ASSUME NEW w \in Workers, ConsumeLink(w) PROVE Forward(k)
  BY <1>0, <1>1, <1>2, <1>4 DEF ConsumeLink
<1>5. ASSUME NEW j \in Tokens, Expire(j) PROVE Forward(k)
  BY <1>0, <1>1, <1>2, <1>5 DEF Expire
<1>6. ASSUME NEW w \in Workers, NEW j \in Tokens, IssueLink(w, j) PROVE Forward(k) \/ IssueLink(w, k)
  BY <1>0, <1>1, <1>6 DEF IssueLink
<1>7. CASE UNCHANGED token
  BY <1>1, <1>7
<1> QED
  BY <1>3, <1>4, <1>5, <1>6, <1>7
     DEF Next, vars, CreateCall, UpdateCall, RemoveCall, Begin, InsertClient, CheckLeaving,
         ReleaseVehicles, ReadVehicles, AssignVehicles, Commit, DeleteClient, SetPassword,
         Abandon, ForgotCall, ResetCall, CreateUser, RemoveUser, CreateTrip, StartTrip, EndTrip

Resetting == {"password", "consume", "siblings"}

ResetHolds(w) ==
    /\ pc[w] \in Resetting =>
           token[link[w]].email = email[w] /\ token[link[w]].state # "none"
    /\ pc[w] = "siblings" => token[link[w]].state # "live"

LinkInv ==
    /\ \A k \in Tokens : token[k].state = "none" => token[k].email = Null
    /\ \A k \in dead : token[k].state \notin {"none", "live"}
    /\ \A w \in Workers : ResetHolds(w)

LEMMA ResetStep ==
    ASSUME TypeInv, NEW w \in Workers, Acts(w), pc'[w] \in Resetting
    PROVE  \/ \E k \in Tokens : ResetCall(w, k) /\ pc'[w] = "password"
                                /\ link'[w] = k /\ email'[w] = token[k].email
           \/ pc[w] \in Resetting /\ link'[w] = link[w] /\ email'[w] = email[w]
              /\ (pc'[w] = "siblings" => ConsumeLink(w))
<1> USE DEF rows, locals, histories
<1>1. ASSUME End(w) \/ \E next \in {"insert", "check", "delete", "forget", "read", "release",
                                    "assign", "commit", "issue"} : Goto(w, next)
      PROVE  FALSE
  BY <1>1 DEF End, Goto, Resetting, TypeInv, TypeOK
<1>2. CASE SetPassword(w)
  BY <1>2 DEF SetPassword, Goto, Resetting, TypeInv, TypeOK
<1>3. CASE ConsumeLink(w)
  BY <1>3 DEF ConsumeLink, Resetting
<1>4. CASE \E k \in Tokens : ResetCall(w, k)
  BY <1>4 DEF ResetCall, Begin, Goto, TypeInv, TypeOK
<1> QED
  BY <1>1, <1>2, <1>3, <1>4
     DEF Acts, CreateCall, UpdateCall, RemoveCall, ForgotCall, Begin, InsertClient, CheckLeaving,
         ReleaseVehicles, ReadVehicles, AssignVehicles, Commit, DeleteClient, ForgetLinks,
         DropSiblings, Abandon, IssueLink

LEMMA LinkStep == TypeInv /\ LinkInv /\ [Next]_vars => LinkInv'
<1> SUFFICES ASSUME TypeInv, LinkInv, [Next]_vars PROVE LinkInv'
  OBVIOUS
<1> USE DEF rows, locals, histories
<1>0. token \in [Tokens -> LinkRow] /\ \A w \in Workers : AtHand(w)
  BY DEF TypeInv, TypeOK, LinkRow
<1>1. ASSUME NEW w \in Workers, NEW k \in Tokens, IssueLink(w, k)
      PROVE  token[k].state = "none" /\ token'[k].state = "live"
  BY <1>0, <1>1 DEF IssueLink
<1>2. ASSUME NEW k \in Tokens, token'[k].state = "none" PROVE token'[k].email = Null
  BY <1>1, <1>2, LinkForward DEF LinkInv, Forward
<1>3. ASSUME NEW k \in Tokens, token[k].state # "none" PROVE Forward(k)
  BY <1>1, <1>3, LinkForward
<1>4. ASSUME NEW k \in dead' PROVE token'[k].state \notin {"none", "live"}
  <2>1. k \in Tokens
    BY <1>4, StepTyped DEF TypeInv, TypeOK
  <2>2. CASE k \in dead
    BY <1>3, <2>1, <2>2 DEF LinkInv, Forward
  <2>3. CASE k \notin dead
    <3>1. PICK w \in Workers : DropSiblings(w) /\ k \in Of(email[w])
      BY <1>4, <2>3
         DEF Next, vars, CreateCall, UpdateCall, RemoveCall, Begin, InsertClient, CheckLeaving,
             ReleaseVehicles, ReadVehicles, AssignVehicles, Commit, DeleteClient, SetPassword,
             Abandon, ForgotCall, ResetCall, CreateUser, RemoveUser, CreateTrip, StartTrip,
             EndTrip, ForgetLinks, ConsumeLink, DropSiblings, IssueLink, Expire
    <3>2. CASE k = link[w]
      <4>1. token'[k] = token[k] /\ pc[w] = "siblings"
        BY <2>1, <3>1, <3>2 DEF DropSiblings
      <4>2. ResetHolds(w)
        BY DEF LinkInv
      <4> QED
        BY <3>2, <4>1, <4>2 DEF ResetHolds, Resetting
    <3>3. CASE k # link[w]
      BY <1>0, <2>1, <3>1, <3>3, StateChanged DEF DropSiblings
    <3> QED
      BY <3>2, <3>3
  <2> QED
    BY <2>2, <2>3
<1>5. ASSUME NEW w \in Workers, pc'[w] = pc[w], link'[w] = link[w], email'[w] = email[w]
      PROVE  ResetHolds(w)'
  <2>1. ResetHolds(w) /\ (pc[w] \in Resetting => link[w] \in Tokens)
    BY <1>0 DEF LinkInv, AtHand, Resetting
  <2>2. pc[w] \in Resetting => Forward(link[w])
    BY <1>3, <2>1 DEF ResetHolds
  <2> QED
    BY <1>5, <2>1, <2>2 DEF ResetHolds, Forward, Resetting
<1>6. ASSUME NEW w \in Workers, Acts(w) PROVE ResetHolds(w)'
  <2>1. CASE pc'[w] \notin Resetting
    BY <2>1 DEF ResetHolds, Resetting
  <2>2. ASSUME NEW k \in Tokens, ResetCall(w, k), pc'[w] = "password", link'[w] = k,
               email'[w] = token[k].email
        PROVE  ResetHolds(w)'
    <3>1. token[k].state = "live" /\ token' = token
      BY <2>2 DEF ResetCall, Begin
    <3> QED
      BY <2>2, <3>1 DEF ResetHolds, Resetting
  <2>3. CASE pc[w] \in Resetting /\ link'[w] = link[w] /\ email'[w] = email[w]
             /\ (pc'[w] = "siblings" => ConsumeLink(w))
    <3>1. ResetHolds(w) /\ link[w] \in Tokens
      BY <1>0, <2>3 DEF LinkInv, AtHand, Resetting
    <3>2. Forward(link[w])
      BY <1>3, <2>3, <3>1 DEF ResetHolds
    <3>3. ConsumeLink(w) => token'[link[w]].state = "used"
      BY <1>0, <3>1 DEF ConsumeLink, LinkRow
    <3> QED
      BY <2>3, <3>1, <3>2, <3>3 DEF ResetHolds, Forward
  <2> QED
    BY <1>6, <2>1, <2>2, <2>3, ResetStep
<1>7. ASSUME NEW u \in Workers PROVE ResetHolds(u)'
  BY <1>5, <1>6, WhoActs, ActsAlone DEF Undisturbed
<1> QED
  BY <1>2, <1>4, <1>7 DEF LinkInv

\* A reset that has gone through leaves no link issued before it usable.
THEOREM DeadLinksAreDead == Spec => []DeadLinksStayDead
<1>1. Init => LinkInv
  BY DEF Init, LinkInv, ResetHolds, Resetting
<1>2. LinkInv => DeadLinksStayDead
  BY DEF LinkInv, DeadLinksStayDead
<1>3. TypeInv /\ LinkInv /\ [Next]_vars => TypeInv' /\ LinkInv'
  BY StepTyped, LinkStep
<1> QED
  BY <1>1, <1>2, <1>3, InitTyped, PTL DEF Spec

-----------------------------------------------------------------------------
(* Overlapping calls of one handler for one account know of each other.    *)

Linking == {"forget", "issue"}

Paired(H) ==
    \A u, w \in Workers :
        u # w /\ pc[u] \in H /\ pc[w] \in H /\ email[u] = email[w] => shared[u] /\ shared[w]

LEMMA Handlers ==
    /\ Handler("insert") = Updating /\ Handler("check") = Updating
    /\ Handler("forget") = Linking
<1> DEFINE S == {{"insert", "check", "release", "read", "assign", "commit"}, {"delete"},
                 {"forget", "issue"}, {"password", "consume", "siblings"}}
<1>1. \A h \in S : ("insert" \in h => h = Updating) /\ ("check" \in h => h = Updating)
                   /\ ("forget" \in h => h = Linking)
  BY DEF Updating, Linking
<1>2. Updating \in S /\ Linking \in S /\ "insert" \in Updating /\ "check" \in Updating
      /\ "forget" \in Linking
  BY DEF Updating, Linking
<1>3. \A next : Handler(next) = CHOOSE h \in S : next \in h
  BY DEF Handler
<1> HIDE DEF S
<1>4. /\ "insert" \in Handler("insert") /\ Handler("insert") \in S
      /\ "check" \in Handler("check") /\ Handler("check") \in S
      /\ "forget" \in Handler("forget") /\ Handler("forget") \in S
  BY <1>2, <1>3
<1> QED
  BY <1>1, <1>4

LEMMA BeginShares ==
    ASSUME TypeInv, NEW w \in Workers, NEW next, NEW e, Begin(w, next, e),
           NEW u \in Workers, u # w, pc[u] \in Handler(next), email[u] = e
    PROVE  shared'[u] /\ shared'[w]
<1> DEFINE others == {v \in Workers \ {w} : pc[v] \in Handler(next) /\ email[v] = e}
<1>1. u \in others
  OBVIOUS
<1>2. shared' = [v \in Workers |-> IF v = w THEN others # {} ELSE shared[v] \/ v \in others]
  BY DEF Begin
<1> HIDE DEF others
<1> QED
  BY <1>1, <1>2

LEMMA Enters ==
    ASSUME TypeInv, NEW w \in Workers, Acts(w), NEW H \in {Updating, Linking}, pc'[w] \in H
    PROVE  \/ \E next \in {"insert", "check", "forget"}, e \in Accounts :
                  Begin(w, next, e) /\ next \in H /\ email'[w] = e
           \/ pc[w] \in H /\ email'[w] = email[w] /\ shared'[w] = shared[w]
<1> USE DEF rows, locals, histories
<1>1. ASSUME End(w) \/ \E next \in {"delete", "password", "consume", "siblings"} : Goto(w, next)
      PROVE  FALSE
  BY <1>1 DEF End, Goto, Updating, Linking, TypeInv, TypeOK
<1>2. ASSUME NEW next \in {"insert", "check", "forget"}, NEW e \in Accounts, Begin(w, next, e)
      PROVE  next \in H /\ email'[w] = e
  BY <1>2 DEF Begin, Goto, Updating, Linking, TypeInv, TypeOK
<1>3. CASE \/ InsertClient(w) \/ CheckLeaving(w) \/ ReleaseVehicles(w) \/ ReadVehicles(w)
           \/ AssignVehicles(w) \/ ForgetLinks(w)
  BY <1>3 DEF InsertClient, CheckLeaving, ReleaseVehicles, ReadVehicles, AssignVehicles,
              ForgetLinks, Goto, Updating, Linking, TypeInv, TypeOK
<1>4. \A c \in Clients : c \in Accounts
  BY AccountFacts DEF ClientsAreAccounts
<1>5. CASE \/ \E c \in Clients, vs \in SUBSET Vehicles : CreateCall(w, c, vs) \/ UpdateCall(w, c, vs)
           \/ \E e \in Accounts : ForgotCall(w, e)
  BY <1>2, <1>4, <1>5 DEF CreateCall, UpdateCall, ForgotCall
<1> QED
  BY <1>1, <1>3, <1>5
     DEF Acts, RemoveCall, ResetCall, Begin, Commit, DeleteClient, SetPassword, ConsumeLink,
         DropSiblings, Abandon, IssueLink

LEMMA PairStep ==
    ASSUME TypeInv, [Next]_vars, NEW H \in {Updating, Linking}, Paired(H)
    PROVE  Paired(H)'
<1>1. CASE UNCHANGED <<pc, locals, shared, mixed, asked>>
  BY <1>1 DEF Paired, locals
<1>2. ASSUME NEW w \in Workers, Acts(w) PROVE Paired(H)'
  <2>1. ASSUME NEW u \in Workers, u # w, pc'[w] \in H, pc'[u] \in H, email'[u] = email'[w]
        PROVE  shared'[u] /\ shared'[w]
    <3>1. Undisturbed(u)
      BY <1>2, <2>1, ActsAlone
    <3>2. CASE \E next \in {"insert", "check", "forget"}, e \in Accounts :
                   Begin(w, next, e) /\ next \in H /\ email'[w] = e
      <4>1. PICK next \in {"insert", "check", "forget"}, e \in Accounts :
                   Begin(w, next, e) /\ next \in H /\ email'[w] = e
        BY <3>2
      <4>2. H = Handler(next)
        BY <4>1, Handlers DEF Updating, Linking
      <4> QED
        BY <2>1, <3>1, <4>1, <4>2, BeginShares DEF Undisturbed
    <3>3. CASE pc[w] \in H /\ email'[w] = email[w] /\ shared'[w] = shared[w]
      BY <2>1, <3>1, <3>3 DEF Undisturbed, Paired
    <3> QED
      BY <1>2, <2>1, <3>2, <3>3, Enters
  <2>2. ASSUME NEW u \in Workers, NEW v \in Workers, u # w, v # w, u # v,
               pc'[u] \in H, pc'[v] \in H, email'[u] = email'[v]
        PROVE  shared'[u] /\ shared'[v]
    BY <1>2, <2>2, ActsAlone DEF Undisturbed, Paired
  <2> QED
    BY <2>1, <2>2 DEF Paired
<1> QED
  BY <1>1, <1>2, WhoActs

-----------------------------------------------------------------------------
(* A new link withdraws the earlier ones, unless another request overlaps. *)

Withdrawn(w) ==
    pc[w] = "issue" /\ ~shared[w] => \A k \in Of(email[w]) : token[k].state # "live"

OneLinkInv == Paired(Linking) /\ (\A w \in Workers : Withdrawn(w)) /\ OneLiveLink

LEMMA MixedStep ==
    ASSUME TypeInv, [Next]_vars
    PROVE  \/ UNCHANGED mixed
           \/ \E w \in Workers, k \in Tokens : IssueLink(w, k)
           \/ \E w \in Workers : Commit(w)
  BY DEF Next, vars, rows, locals, histories, CreateCall, UpdateCall, RemoveCall, Begin,
         InsertClient, CheckLeaving, ReleaseVehicles, ReadVehicles, AssignVehicles, DeleteClient,
         SetPassword, Abandon, ForgotCall, ResetCall, CreateUser, RemoveUser, CreateTrip,
         StartTrip, EndTrip, ForgetLinks, ConsumeLink, DropSiblings, Expire

LEMMA OneLinkStep == TypeInv /\ OneLinkInv /\ [Next]_vars => OneLinkInv'
<1> SUFFICES ASSUME TypeInv, OneLinkInv, [Next]_vars PROVE OneLinkInv'
  OBVIOUS
<1> USE DEF rows, locals, histories
<1>0. /\ token \in [Tokens -> LinkRow] /\ \A w \in Workers : AtHand(w)
      /\ mixed \in [{"update", "link"} -> SUBSET Accounts]
  BY DEF TypeInv, TypeOK, LinkRow
<1>1. Paired(Linking)'
  BY PairStep DEF OneLinkInv
<1>2. ASSUME NEW w \in Workers, NEW k \in Tokens, IssueLink(w, k)
      PROVE  /\ pc[w] = "issue" /\ token[k].state = "none" /\ Acts(w)
             /\ token'[k].email = email[w] /\ token'[k].state = "live"
             /\ \A j \in Tokens : j # k => token'[j] = token[j]
             /\ mixed'["link"] = IF shared[w] THEN mixed["link"] \cup {email[w]}
                                 ELSE mixed["link"] \ {email[w]}
  <2>1. /\ pc[w] = "issue" /\ token[k].state = "none" /\ Acts(w)
        /\ token' = [token EXCEPT ![k] = [email |-> email[w], state |-> "live"]]
        /\ Note(w, "link")
    BY <1>2 DEF IssueLink, Acts
  <2>2. mixed'["link"] = IF shared[w] THEN mixed["link"] \cup {email[w]}
                         ELSE mixed["link"] \ {email[w]}
    BY <1>0, <2>1 DEF Note
  <2>3. token'[k] = [email |-> email[w], state |-> "live"]
        /\ \A j \in Tokens : j # k => token'[j] = token[j]
    BY <1>0, <2>1
  <2> QED
    BY <2>1, <2>2, <2>3
<1>3. ASSUME NEW u \in Workers PROVE Withdrawn(u)'
  <2> SUFFICES ASSUME pc'[u] = "issue", ~shared'[u], NEW k \in Tokens,
                      token'[k].email = email'[u], token'[k].state = "live"
               PROVE  FALSE
    BY DEF Withdrawn, Of
  <2>1. CASE pc[u] = "issue" /\ email'[u] = email[u] /\ ~shared[u]
    <3>1. CASE Forward(k)
      BY <2>1, <3>1 DEF Forward, OneLinkInv, Withdrawn, Of
    <3>2. ASSUME NEW w \in Workers, IssueLink(w, k) PROVE FALSE
      <4>1. token'[k].email = email[w] /\ pc[w] = "issue" /\ Acts(w)
        BY <1>2, <3>2
      <4>2. w # u
        BY <3>2 DEF IssueLink, End, Goto, TypeInv, TypeOK
      <4> QED
        BY <2>1, <4>1, <4>2 DEF OneLinkInv, Paired, Linking
    <3> QED
      BY <3>1, <3>2, LinkForward
  <2>2. CASE UNCHANGED <<pc, locals, shared, mixed, asked>>
    BY <2>1, <2>2
  <2>3. ASSUME NEW w \in Workers, Acts(w) PROVE FALSE
    <3>1. CASE w # u
      BY <2>1, <2>3, <3>1, ActsAlone DEF Undisturbed
    <3>2. CASE w = u
      <4>1. ForgetLinks(u)
        BY <2>3, <3>2
           DEF Acts, CreateCall, UpdateCall, RemoveCall, ForgotCall, Begin, InsertClient,
               CheckLeaving, ReleaseVehicles, ReadVehicles, AssignVehicles, Commit, DeleteClient,
               DropSiblings, Abandon, IssueLink, SetPassword, ConsumeLink, ResetCall, End, Goto,
               TypeInv, TypeOK
      <4>2. email'[u] = email[u]
        BY <4>1 DEF ForgetLinks
      <4>3. CASE k \in Of(email[u])
        BY <1>0, <4>1, <4>3, StateChanged DEF ForgetLinks
      <4>4. CASE k \notin Of(email[u])
        BY <4>1, <4>2, <4>4 DEF ForgetLinks, Of
      <4> QED
        BY <4>3, <4>4
    <3> QED
      BY <3>1, <3>2
  <2> QED
    BY <2>2, <2>3, WhoActs
<1>4. OneLiveLink'
  <2> SUFFICES ASSUME NEW j \in Tokens, NEW k \in Tokens, j # k, token'[j].state = "live",
                      token'[k].state = "live", token'[j].email = token'[k].email
               PROVE  token'[j].email \in mixed'["link"]
    BY DEF OneLiveLink
  <2>1. ASSUME NEW i \in Tokens, ~ \E w \in Workers : IssueLink(w, i), token'[i].state = "live"
        PROVE  token[i].state = "live" /\ token[i].email = token'[i].email
    BY <2>1, LinkForward DEF Forward
  <2>2. CASE \E w \in Workers, i \in Tokens : IssueLink(w, i)
    <3>1. PICK w \in Workers, i \in Tokens : IssueLink(w, i)
      BY <2>2
    <3>2. /\ pc[w] = "issue" /\ token'[i].email = email[w]
          /\ \A h \in Tokens : h # i => token'[h] = token[h]
          /\ mixed'["link"] = IF shared[w] THEN mixed["link"] \cup {email[w]}
                              ELSE mixed["link"] \ {email[w]}
      BY <1>2, <3>1
    <3>3. ASSUME NEW h \in Tokens, h # i, token'[h].email = email[w], token'[h].state = "live"
          PROVE  shared[w]
      <4>1. Withdrawn(w) /\ token'[h] = token[h]
        BY <3>2, <3>3 DEF OneLinkInv
      <4> QED
        BY <3>2, <3>3, <4>1 DEF Withdrawn, Of
    <3>4. CASE token'[j].email = email[w]
      <4>1. \E h \in Tokens : h # i /\ token'[h].email = email[w] /\ token'[h].state = "live"
        BY <3>4
      <4>2. shared[w]
        BY <3>3, <4>1
      <4> QED
        BY <3>2, <3>4, <4>2
    <3>5. CASE token'[j].email # email[w]
      <4>1. j # i /\ k # i
        BY <3>2, <3>5
      <4>2. token'[j] = token[j] /\ token'[k] = token[k]
        BY <3>2, <4>1
      <4>3. token'[j].email \in mixed["link"]
        BY <4>2 DEF OneLinkInv, OneLiveLink
      <4> QED
        BY <3>2, <3>5, <4>3
    <3> QED
      BY <3>4, <3>5
  <2>3. CASE ~ \E w \in Workers, i \in Tokens : IssueLink(w, i)
    <3>1. token[j].email \in mixed["link"] /\ token[j].email = token'[j].email
      BY <2>1, <2>3 DEF OneLinkInv, OneLiveLink
    <3>2. mixed'["link"] = mixed["link"]
      <4>1. ASSUME NEW w \in Workers, Commit(w) PROVE mixed'["link"] = mixed["link"]
        BY <1>0, <4>1 DEF Commit, Note
      <4> QED
        BY <2>3, <4>1, MixedStep
    <3> QED
      BY <3>1, <3>2
  <2> QED
    BY <2>2, <2>3
<1> QED
  BY <1>1, <1>3, <1>4 DEF OneLinkInv

\* Two links for one account work at the same time only if the requests for them
\* overlapped.
THEOREM LaterLinkWithdraws == Spec => []OneLiveLink
<1>1. Init => OneLinkInv
  BY DEF Init, OneLinkInv, Paired, Linking, Withdrawn, OneLiveLink
<1>2. OneLinkInv => OneLiveLink
  BY DEF OneLinkInv
<1>3. TypeInv /\ OneLinkInv /\ [Next]_vars => TypeInv' /\ OneLinkInv'
  BY StepTyped, OneLinkStep
<1> QED
  BY <1>1, <1>2, <1>3, InitTyped, PTL DEF Spec

-----------------------------------------------------------------------------
(* The full set.  What the transaction of a request that overlaps no other *)
(* for its client sees comes closer to what was asked, statement by        *)
(* statement, and nobody else changes it.                                  *)

Closer(w) ==
    ~shared[w] /\ account[email[w]] # "deleted" =>
        /\ pc[w] \in {"read", "assign"} =>
               \A v \in Vehicles \ wanted[w] : Sees(w, v) # email[w]
        /\ pc[w] = "assign" =>
               /\ free[w] \subseteq wanted[w]
               /\ \A v \in wanted[w] \ free[w] : Sees(w, v) = email[w]
        /\ pc[w] = "commit" =>
               \A v \in Vehicles : Sees(w, v) = email[w] <=> v \in wanted[w]

OwnersExist == \A v \in Vehicles : owner[v] # Null => account[owner[v]] # "none"

FullInv ==
    /\ OwnInv /\ Paired(Updating) /\ OwnersExist
    /\ \A w \in Workers : Closer(w)
    /\ FullSet

LEMMA AccountStep ==
    ASSUME TypeInv, [Next]_vars, NEW e \in Accounts
    PROVE  /\ account[e] = "deleted" => account'[e] = "deleted"
           /\ account[e] # "none" => account'[e] # "none"
           /\ account'[e] = "exists" /\ e \in Clients =>
                  account[e] = "exists" \/ \E w \in Workers : Commit(w) /\ email[w] = e
           /\ \A w \in Workers : Commit(w) /\ email[w] = e => account'[e] = "exists"
           /\ \A w \in Workers : DeleteClient(w) /\ email[w] = e => account'[e] = "deleted"
<1> USE DEF rows, locals, histories
<1>1. ASSUME NEW w \in Workers, Commit(w)
      PROVE  /\ account[e] = "deleted" => account'[e] = "deleted"
             /\ account'[e] = (IF e = email[w] THEN "exists" ELSE account[e])
  BY <1>1 DEF Commit, TypeInv, TypeOK
<1>2. ASSUME NEW w \in Workers, DeleteClient(w)
      PROVE  account'[e] = IF e = email[w] THEN "deleted" ELSE account[e]
  BY <1>2 DEF DeleteClient, TypeInv, TypeOK
<1>3. ASSUME NEW u \in Users, CreateUser(u) \/ RemoveUser(u)
      PROVE  /\ account[e] = "deleted" => account'[e] = "deleted"
             /\ account[e] # "none" => account'[e] # "none"
             /\ e \in Clients => account'[e] = account[e]
  BY <1>3, ConstantAssumption DEF CreateUser, RemoveUser, TypeInv, TypeOK
<1>4. \/ account' = account
      \/ \E w \in Workers : Commit(w) \/ DeleteClient(w)
      \/ \E u \in Users : CreateUser(u) \/ RemoveUser(u)
  BY DEF Next, vars, CreateCall, UpdateCall, RemoveCall, Begin, InsertClient, CheckLeaving,
         ReleaseVehicles, ReadVehicles, AssignVehicles, SetPassword, Abandon, ForgotCall,
         ResetCall, CreateTrip, StartTrip, EndTrip, ForgetLinks, ConsumeLink, DropSiblings,
         IssueLink, Expire
<1>5. /\ account[e] = "deleted" => account'[e] = "deleted"
      /\ account[e] # "none" => account'[e] # "none"
      /\ account'[e] = "exists" /\ e \in Clients =>
             account[e] = "exists" \/ \E w \in Workers : Commit(w) /\ email[w] = e
  BY <1>1, <1>2, <1>3, <1>4
<1> QED
  BY <1>1, <1>2, <1>5

\* No other request changes whether a vehicle is the client's.
LEMMA StaysMine ==
    ASSUME TypeInv, OwnInv, [Next]_vars, NEW c \in Clients, NEW v \in Vehicles,
           account'[c] # "deleted", \A u \in Workers : Commit(u) => email[u] # c
    PROVE  owner'[v] = c <=> owner[v] = c
<1>1. c # Null /\ c \in Accounts
  BY AccountFacts DEF ClientsAreAccounts
<1>2. ASSUME NEW w \in Workers, Commit(w), {owner[v], owner'[v]} = {Null, email[w]}
      PROVE  owner'[v] = c <=> owner[v] = c
  BY <1>1, <1>2
<1>3. ASSUME NEW w \in Workers, DeleteClient(w), owner[v] = email[w], owner'[v] = Null
      PROVE  owner'[v] = c <=> owner[v] = c
  BY <1>1, <1>3, AccountStep
<1> QED
  BY <1>2, <1>3, OwnerStep

LEMMA CloserKept ==
    ASSUME TypeInv, FullInv, [Next]_vars, NEW w \in Workers, Undisturbed(w), ~Commit(w)
    PROVE  Closer(w)'
<1> SUFFICES ASSUME ~shared'[w], account'[email'[w]] # "deleted",
                    pc'[w] \in {"read", "assign", "commit"}
             PROVE  Closer(w)'
  BY DEF Closer
<1>1. /\ pc'[w] = pc[w] /\ email'[w] = email[w] /\ wanted'[w] = wanted[w] /\ free'[w] = free[w]
      /\ written'[w] = written[w] /\ ~shared[w]
  BY DEF Undisturbed
<1>2. AtHand(w) /\ Closer(w)
  BY DEF TypeInv, FullInv
<1>3. email[w] \in Clients /\ email[w] \in Accounts
  BY <1>1, <1>2, AccountFacts DEF AtHand, Updating, ClientsAreAccounts
<1>4. account[email[w]] # "deleted"
  BY <1>1, <1>3, AccountStep
<1>5. ASSUME NEW u \in Workers, Commit(u) PROVE email[u] # email[w]
  <2>1. u # w /\ pc[u] = "commit"
    BY <1>5 DEF Commit
  <2> QED
    BY <1>1, <2>1 DEF FullInv, Paired, Updating
<1>6. \A v \in Vehicles : owner'[v] = email[w] <=> owner[v] = email[w]
  BY <1>1, <1>3, <1>5, StaysMine DEF FullInv
<1>7. \A v \in Vehicles : Sees(w, v)' = email[w] <=> Sees(w, v) = email[w]
  BY <1>1, <1>6 DEF Sees
<1>8. CASE pc[w] = "read"
  BY <1>1, <1>2, <1>4, <1>7, <1>8 DEF Closer
<1>9. CASE pc[w] = "assign"
  <2>1. wanted[w] \subseteq Vehicles
    BY DEF TypeInv, TypeOK
  <2> QED
    BY <1>1, <1>2, <1>4, <1>7, <1>9, <2>1 DEF Closer
<1>10. CASE pc[w] = "commit"
  BY <1>1, <1>2, <1>4, <1>7, <1>10 DEF Closer
<1> QED
  BY <1>1, <1>8, <1>9, <1>10

LEMMA CloserStep ==
    ASSUME TypeInv, FullInv, [Next]_vars, NEW w \in Workers, Acts(w)
    PROVE  Closer(w)'
<1> USE DEF rows, locals, histories
<1>0. AtHand(w) /\ Closer(w) /\ pc[w] \in Statements
  BY DEF TypeInv, TypeOK, FullInv, Statements
<1>1. CASE pc'[w] \notin {"read", "assign", "commit"}
  BY <1>1 DEF Closer
<1>2. CASE InsertClient(w)
  <2>1. /\ pc[w] = "insert" /\ account[email[w]] = "none"
        /\ UNCHANGED <<owner, written, email, wanted>> /\ pc' = [pc EXCEPT ![w] = "read"]
    BY <1>2 DEF InsertClient, Goto
  <2>2. email[w] \in Clients /\ email[w] # Null /\ written[w] = Untouched /\ pc'[w] = "read"
    BY <1>0, <2>1, ConstantAssumption DEF AtHand, Updating, TypeInv, TypeOK
  <2>3. \A v \in Vehicles : owner[v] # email[w]
    BY <2>1, <2>2 DEF FullInv, OwnersExist
  <2>4. \A v \in Vehicles : Sees(w, v)' # email'[w]
    BY <2>1, <2>2, <2>3 DEF Sees, Untouched
  <2> QED
    BY <2>2, <2>4 DEF Closer
<1>3. CASE ReleaseVehicles(w)
  <2>1. /\ pc[w] = "release" /\ UNCHANGED <<owner, email, wanted>>
        /\ pc' = [pc EXCEPT ![w] = "read"]
        /\ written' = [written EXCEPT ![w] = [v \in Vehicles |->
               IF v \in Leaving(w) THEN Null ELSE written[w][v]]]
    BY <1>3 DEF ReleaseVehicles, Goto
  <2>2. email[w] \in Clients /\ email[w] # Null /\ pc'[w] = "read"
        /\ \A v \in Vehicles : written'[w][v] = IF v \in Leaving(w) THEN Null ELSE written[w][v]
    BY <1>0, <2>1, ConstantAssumption DEF AtHand, Updating, TypeInv, TypeOK
  <2>3. ASSUME NEW v \in Vehicles, v \notin wanted[w] PROVE Sees(w, v)' # email[w]
    <3>1. CASE v \in Leaving(w)
      BY <2>1, <2>2, <3>1, AccountFacts DEF Sees
    <3>2. CASE v \notin Leaving(w)
      BY <2>1, <2>2, <2>3, <3>2 DEF Sees, Leaving
    <3> QED
      BY <3>1, <3>2
  <2> QED
    BY <2>1, <2>2, <2>3 DEF Closer
<1>4. CASE ReadVehicles(w)
  <2>1. /\ pc[w] = "read" /\ UNCHANGED <<account, owner, email, wanted, written, shared>>
        /\ \A v \in wanted[w] : Sees(w, v) \in {Null, email[w]}
        /\ free' = [free EXCEPT ![w] = {v \in wanted[w] : Sees(w, v) = Null}]
        /\ pc' = [pc EXCEPT ![w] = IF free'[w] = {} THEN "commit" ELSE "assign"]
    BY <1>4 DEF ReadVehicles, Goto
  <2>2. email[w] \in Clients /\ email[w] # Null
    BY <1>0, <2>1, ConstantAssumption DEF AtHand, Updating
  <2>3. /\ free'[w] = {v \in wanted[w] : Sees(w, v) = Null}
        /\ pc'[w] = IF free'[w] = {} THEN "commit" ELSE "assign"
        /\ wanted[w] \subseteq Vehicles
    BY <2>1 DEF TypeInv, TypeOK
  <2>4. \A v \in Vehicles : Sees(w, v)' = Sees(w, v)
    BY <2>1 DEF Sees
  <2>5. \A v \in wanted[w] \ free'[w] : Sees(w, v) = email[w]
    BY <2>1, <2>3
  <2> QED
    BY <1>0, <2>1, <2>3, <2>4, <2>5 DEF Closer
<1>5. CASE AssignVehicles(w)
  <2>1. /\ pc[w] = "assign" /\ UNCHANGED <<account, owner, email, wanted, shared>>
        /\ written' = [written EXCEPT ![w] = [v \in Vehicles |->
               IF v \in free[w] THEN email[w] ELSE written[w][v]]]
        /\ pc' = [pc EXCEPT ![w] = "commit"]
    BY <1>5 DEF AssignVehicles, Goto
  <2>2. email[w] \in Clients /\ email[w] # Kept /\ pc'[w] = "commit" /\ wanted[w] \subseteq Vehicles
        /\ \A v \in Vehicles : written'[w][v] = IF v \in free[w] THEN email[w] ELSE written[w][v]
    BY <1>0, <2>1, AccountFacts DEF AtHand, Updating, TypeInv, TypeOK
  <2>3. \A v \in Vehicles : Sees(w, v)' = IF v \in free[w] THEN email[w] ELSE Sees(w, v)
    BY <2>1, <2>2 DEF Sees
  <2> QED
    BY <1>0, <2>1, <2>2, <2>3 DEF Closer
<1>6. ASSUME End(w) \/ \E next \in {"insert", "check", "release", "delete", "forget", "issue",
                                    "password", "consume", "siblings"} : Goto(w, next)
      PROVE  pc'[w] \notin {"read", "assign", "commit"}
  BY <1>6 DEF End, Goto, TypeInv, TypeOK
<1> QED
  BY <1>1, <1>2, <1>3, <1>4, <1>5, <1>6
     DEF Acts, CreateCall, UpdateCall, RemoveCall, ForgotCall, ResetCall, Begin, CheckLeaving,
         Commit, DeleteClient, ForgetLinks, SetPassword, ConsumeLink, DropSiblings, Abandon,
         IssueLink

LEMMA FullStep == TypeInv /\ FullInv /\ [Next]_vars => FullInv'
<1> SUFFICES ASSUME TypeInv, FullInv, [Next]_vars PROVE FullInv'
  OBVIOUS
<1> USE DEF rows, locals, histories
<1>0. OwnInv' /\ Paired(Updating)' /\ \A w \in Workers : AtHand(w)
  BY OwnStep, PairStep DEF FullInv, TypeInv
<1>1. OwnersExist'
  <2> SUFFICES ASSUME NEW v \in Vehicles, owner'[v] # Null
               PROVE  account'[owner'[v]] # "none"
    BY DEF OwnersExist
  <2>1. owner'[v] \in Accounts /\ owner[v] \in Accounts \cup {Null}
    BY StepTyped, AccountFacts DEF TypeInv, TypeOK, ClientsAreAccounts
  <2>2. CASE owner'[v] = owner[v]
    BY <2>1, <2>2, AccountStep DEF FullInv, OwnersExist
  <2>3. ASSUME NEW w \in Workers, Commit(w), {owner[v], owner'[v]} = {Null, email[w]}
        PROVE  account'[owner'[v]] # "none"
    <3>1. owner'[v] = email[w]
      BY <2>3
    <3> QED
      BY <2>1, <2>3, <3>1, AccountStep
  <2> QED
    BY <2>2, <2>3, OwnerStep DEF FullInv
<1>2. ASSUME NEW w \in Workers PROVE Closer(w)'
  <2>1. ASSUME UNCHANGED <<pc, locals, shared, mixed, asked>> PROVE Closer(w)'
    <3>1. Undisturbed(w)
      BY <2>1 DEF Undisturbed
    <3>2. ~Commit(w)
      BY <2>1 DEF Commit, End, Goto, TypeInv, TypeOK
    <3> QED
      BY <3>1, <3>2, CloserKept
  <2>2. ASSUME NEW u \in Workers, Acts(u) PROVE Closer(w)'
    <3>1. CASE u = w
      BY <2>2, <3>1, CloserStep
    <3>2. CASE u # w
      <4>1. Undisturbed(w)
        BY <2>2, <3>2, ActsAlone
      <4>2. ~Commit(w)
        BY <4>1 DEF Undisturbed, Commit, End, Goto, TypeInv, TypeOK
      <4> QED
        BY <4>1, <4>2, CloserKept
    <3> QED
      BY <3>1, <3>2
  <2> QED
    BY <2>1, <2>2, WhoActs
<1>3. FullSet'
  <2> SUFFICES ASSUME NEW c \in Clients, account'[c] = "exists", c \notin mixed'["update"]
               PROVE  {v \in Vehicles : owner'[v] = c} = asked'[c]
    BY DEF FullSet, VehiclesOf
  <2>0. c \in Accounts /\ c # Null
    BY AccountFacts DEF ClientsAreAccounts
  <2>1. ASSUME NEW w \in Workers, Commit(w), email[w] = c
        PROVE  {v \in Vehicles : owner'[v] = c} = asked'[c]
    <3>1. /\ pc[w] = "commit" /\ account[c] # "deleted" /\ Closer(w)
          /\ asked'[c] = wanted[w] /\ wanted[w] \subseteq Vehicles
          /\ \A v \in Vehicles : owner'[v] = Sees(w, v)
      BY <2>1 DEF Commit, FullInv, TypeInv, TypeOK
    <3>2. ~shared[w]
      BY <2>0, <2>1 DEF Commit, Note, TypeInv, TypeOK
    <3>3. \A v \in Vehicles : owner'[v] = c <=> v \in wanted[w]
      BY <2>1, <3>1, <3>2 DEF Closer
    <3> QED
      BY <3>1, <3>3
  <2>2. CASE \A w \in Workers : Commit(w) => email[w] # c
    <3>1. account[c] = "exists"
      BY <2>0, <2>2, AccountStep
    <3>2. \A v \in Vehicles : owner'[v] = c <=> owner[v] = c
      BY <2>2, StaysMine DEF FullInv
    <3>3. asked'[c] = asked[c] /\ (c \in mixed["update"] => c \in mixed'["update"])
      <4>1. ASSUME NEW w \in Workers, Commit(w)
            PROVE  asked'[c] = asked[c] /\ (c \in mixed["update"] => c \in mixed'["update"])
        BY <2>2, <4>1 DEF Commit, Note, TypeInv, TypeOK
      <4>2. ASSUME NEW w \in Workers, NEW k \in Tokens, IssueLink(w, k)
            PROVE  mixed'["update"] = mixed["update"]
        BY <4>2 DEF IssueLink, Note, TypeInv, TypeOK
      <4>3. asked' = asked \/ \E w \in Workers : Commit(w)
        BY DEF Next, vars, CreateCall, UpdateCall, RemoveCall, Begin, InsertClient, CheckLeaving,
               ReleaseVehicles, ReadVehicles, AssignVehicles, DeleteClient, SetPassword, Abandon,
               ForgotCall, ResetCall, CreateUser, RemoveUser, CreateTrip, StartTrip, EndTrip,
               ForgetLinks, ConsumeLink, DropSiblings, IssueLink, Expire
      <4> QED
        BY <4>1, <4>2, <4>3, MixedStep
    <3> QED
      BY <3>1, <3>2, <3>3 DEF FullInv, FullSet, VehiclesOf
  <2> QED
    BY <2>1, <2>2
<1> QED
  BY <1>0, <1>1, <1>2, <1>3 DEF FullInv

\* After a request that succeeds, and overlapped no other for its client, the client
\* has the vehicles it asked for, all of them and no others; nothing any other
\* client's request does, finished or rolled back, changes that.
THEOREM FullSetIsKept == Spec => []FullSet
<1>1. Init => FullInv
  <2> SUFFICES ASSUME Init PROVE FullInv
    OBVIOUS
  <2>1. OwnInv /\ Paired(Updating) /\ OwnersExist
    BY AccountFacts DEF Init, OwnInv, Own, Untouched, Paired, Updating, OwnersExist
  <2>2. \A w \in Workers : Closer(w)
    BY DEF Init, Closer
  <2>3. FullSet
    BY AccountFacts DEF Init, FullSet, VehiclesOf, ClientsAreAccounts
  <2> QED
    BY <2>1, <2>2, <2>3 DEF FullInv
<1>2. FullInv => FullSet
  BY DEF FullInv
<1>3. TypeInv /\ FullInv /\ [Next]_vars => TypeInv' /\ FullInv'
  BY StepTyped, FullStep
<1> QED
  BY <1>1, <1>2, <1>3, InitTyped, PTL DEF Spec
=============================================================================
