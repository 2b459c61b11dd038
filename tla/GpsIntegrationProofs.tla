------------------------ MODULE GpsIntegrationProofs ------------------------
(* Proofs about GpsIntegration for any providers, intervals, edits and      *)
(* times.                                                                   *)
EXTENDS GpsIntegration, TLAPS

(***************************************************************************)
(* What a tick holds: rows are never deleted, so what a tick or the cache   *)
(* has read still exists; a call is made for one provider at a time.        *)
(***************************************************************************)
Calls == {"inventory", "positions", "mark", "patch"}

Held ==
    /\ \A p \in Providers : tick.rows[p] # Null => row[p] # Null
    /\ cache # Null => \A p \in Providers : cache.rows[p] # Null => row[p] # Null
    /\ \A p \in tick.todo : tick.rows[p] # Null
    /\ pc \in Calls => tick.cur \in Providers /\ tick.rows[tick.cur] # Null
    /\ pc \notin Calls => tick.cur = Null
    /\ tick.cur \notin tick.todo
    /\ pc \in {"read", "store", "mark", "patch"} => tick.at \in Nat /\ tick.at <= now
    /\ editing # Null => row[editing] # Null

TypeInv == TypeOK /\ Held

\* The seeds keep the rows that are there and write well-typed ones.
LEMMA SeedsKeep ==
    ASSUME NEW rows \in Rows, NEW new \in AfterSeeds(rows)
    PROVE  /\ new \in Rows
           /\ \A p \in Providers : rows[p] # Null => new[p] = rows[p]
           /\ \A p \in Providers : new[p] = Null \/ new[p] \in Config
           /\ \A p \in Providers : rows[p] = Null => Version(new[p]) = 0
<1>1. \A i \in Intervals : Seeded(i) \in Config /\ Seeded(i).ver = 0
  BY DEF Seeded, Config, Time
<1>2. new \in [Providers -> {rows[p] : p \in Providers} \cup {Seeded(i) : i \in Intervals}]
  BY DEF AfterSeeds
<1>3. \A p \in Providers :
          \/ new[p] = rows[p]
          \/ rows[p] = Null /\ p \in Seeds /\ \E i \in Intervals : new[p] = Seeded(i)
  BY DEF AfterSeeds
<1>4. \A p \in Providers : new[p] \in Config \cup {Null}
  BY <1>1, <1>3 DEF Rows
<1>5. new \in Rows
  BY <1>2, <1>4 DEF Rows
<1>6. \A p \in Providers : rows[p] = Null => Version(new[p]) = 0
  BY <1>1, <1>3 DEF Version
<1> QED
  BY <1>3, <1>4, <1>5, <1>6

LEMMA InitTyped == Init => TypeInv
<1> SUFFICES ASSUME Init PROVE TypeInv
  OBVIOUS
<1>1. NoRows \in Rows
  BY DEF NoRows, Rows
<1>2. row \in Rows
  BY <1>1, SeedsKeep DEF Init
<1>3. Asleep \in [rows : Rows, todo : SUBSET Providers, cur : Providers \cup {Null}, at : Time]
  BY <1>1 DEF Asleep, Time
<1>4. /\ tick.rows = NoRows /\ tick.todo = {} /\ tick.cur = Null
  BY DEF Init, Asleep
<1>5. TypeOK
  BY <1>2, <1>3 DEF Init, TypeOK, ColdAdapters, NoEdits, Time, Never
<1>6. Held
  BY <1>4 DEF Init, Held, NoRows, Calls
<1> QED
  BY <1>5, <1>6 DEF TypeInv

\* What a sleeping tick is.
LEMMA AsleepFacts ==
    /\ Asleep \in [rows : Rows, todo : SUBSET Providers, cur : Providers \cup {Null}, at : Time]
    /\ Asleep.todo = {} /\ Asleep.cur = Null /\ \A p \in Providers : Asleep.rows[p] = Null
<1>1. NoRows \in Rows /\ \A p \in Providers : NoRows[p] = Null
  BY DEF NoRows, Rows
<1> QED
  BY <1>1 DEF Asleep, Time

Call == [at : Time, floor : Nat, lost : BOOLEAN, early : BOOLEAN]

\* Two updates of the history of a call.
LEMMA CallUpdated ==
    ASSUME NEW c \in Call, NEW b \in BOOLEAN, NEW n \in Nat
    PROVE  /\ [c EXCEPT !.lost = b] \in Call
           /\ [c EXCEPT !.floor = n] \in Call
  BY DEF Call

TickType == [rows : Rows, todo : SUBSET Providers, cur : Providers \cup {Null}, at : Time]

\* A provider that is called has a row, before and after the call.
LEMMA CallingTyped ==
    ASSUME TypeInv, NEW p \in Providers, tick.rows[p] # Null, Calling(p)
    PROVE  called' \in [Providers -> Call]
<1>1. row[p] \in Config /\ tick.rows[p] \in Config
  BY DEF TypeInv, TypeOK, Held, Rows
<1>2. row[p].poll \in Nat /\ tick.rows[p].poll \in Nat
  BY <1>1, TimeAssumption DEF Config
<1>3. now \in Time /\ called[p].early \in BOOLEAN
  BY DEF TypeInv, TypeOK, Time
<1> DEFINE inForce == IF row[p].poll < tick.rows[p].poll THEN row[p].poll ELSE tick.rows[p].poll
<1> DEFINE last == called[p]
<1> DEFINE early == \/ last.early
                    \/ /\ last.at # Never /\ ~last.lost
                       /\ now - last.at < last.floor /\ now - last.at < inForce
<1>4. called' = [called EXCEPT ![p] =
                   [at |-> now, floor |-> inForce, lost |-> FALSE, early |-> early]]
  BY DEF Calling
<1>5. inForce \in Nat /\ early \in BOOLEAN
  BY <1>2, <1>3
<1> HIDE DEF inForce, early
<1>6. [at |-> now, floor |-> inForce, lost |-> FALSE, early |-> early]
        \in Call
  BY <1>3, <1>5 DEF Call
<1> QED
  BY <1>4, <1>6 DEF TypeInv, TypeOK, Call

LEMMA StepTyped == TypeInv /\ [Next]_vars => TypeInv'
<1> SUFFICES ASSUME TypeInv, [Next]_vars PROVE TypeInv'
  OBVIOUS
<1> USE AsleepFacts
<1>0. TypeOK /\ Held /\ tick \in TickType /\ called \in [Providers -> Call]
  BY DEF TypeInv, TypeOK, TickType, Call
<1>1. CASE Advance
  <2>0. /\ now' = now + 1 /\ ticked' = FALSE
        /\ UNCHANGED <<row, cache, inventory, pc, tick, editing, called, listed, edited>>
    BY <1>1 DEF Advance
  <2>1. TypeOK'
    <3>0. now \in Nat
      BY <1>0 DEF TypeOK
    <3>1. now' \in Nat
      BY <2>0, <3>0
    <3>2. ticked' \in BOOLEAN
      BY <2>0
    <3>3. UNCHANGED <<row, cache, inventory, pc, tick, editing, called, listed, edited>>
      BY <2>0
    <3> QED
      BY <1>0, <3>1, <3>2, <3>3 DEF TypeOK
  <2>2. Held'
    BY <1>0, <2>0 DEF Held, TypeOK
  <2> QED
    BY <2>1, <2>2 DEF TypeInv
<1>2. CASE SkipTick
  BY <1>0, <1>2 DEF SkipTick, Fire, TypeInv, TypeOK, Held
<1>3. CASE TickFromCache
  <2>1. Usable(cache.rows) \in SUBSET Providers /\ \A p \in Usable(cache.rows) : cache.rows[p] # Null
    BY DEF Usable
  <2>2. cache # Null /\ cache.rows \in Rows
    BY <1>0, <1>3 DEF TickFromCache, CacheValid, TypeOK
  <2>3. /\ tick' \in TickType
        /\ tick'.rows = cache.rows /\ tick'.todo = Usable(cache.rows) /\ tick'.cur = Null
    BY <1>3, <2>1, <2>2 DEF TickFromCache, TickType
  <2>4. TypeOK'
    BY <1>0, <1>3, <2>3 DEF TickFromCache, Fire, TypeOK, TickType
  <2>5. Null \notin Usable(cache.rows)
    BY ProviderAssumption DEF Usable
  <2>6. Held'
    BY <1>0, <1>3, <2>1, <2>2, <2>3, <2>5 DEF TickFromCache, Held, Calls
  <2> QED
    BY <2>4, <2>6 DEF TypeInv
<1>4. CASE TickFromDatabase
  <2>1. /\ tick' \in TickType
        /\ tick'.rows = Asleep.rows /\ tick'.todo = {} /\ tick'.cur = Null /\ tick'.at = now
    BY <1>0, <1>4 DEF TickFromDatabase, TickType, Asleep, Time, TypeOK
  <2>2. TypeOK'
    BY <1>0, <1>4, <2>1 DEF TickFromDatabase, Fire, TypeOK, TickType
  <2>3. Held'
    BY <1>0, <1>4, <2>1 DEF TickFromDatabase, Held, Calls, TypeOK
  <2> QED
    BY <2>2, <2>3 DEF TypeInv
<1>5. CASE ReadRows
  <2>1. /\ tick' \in TickType /\ tick'.rows = row /\ tick'.todo = tick.todo
        /\ tick'.cur = tick.cur /\ tick'.at = tick.at
    BY <1>0, <1>5 DEF ReadRows, TickType, TypeOK
  <2>2. TypeOK'
    BY <1>0, <1>5, <2>1 DEF ReadRows, TypeOK, TickType
  <2>3. Held'
    BY <1>0, <1>5, <2>1 DEF ReadRows, Held, Calls, TypeOK
  <2> QED
    BY <2>2, <2>3 DEF TypeInv
<1>6. CASE StoreRows
  <2>1. Usable(tick.rows) \in SUBSET Providers /\ \A p \in Usable(tick.rows) : tick.rows[p] # Null
    BY DEF Usable
  <2>2. /\ tick' \in TickType /\ tick'.rows = tick.rows /\ tick'.todo = Usable(tick.rows)
        /\ tick'.cur = tick.cur
    BY <1>0, <1>6, <2>1 DEF StoreRows, TickType, Time
  <2>3. tick.at \in Nat /\ tick.rows \in Rows /\ tick.cur = Null
    BY <1>0, <1>6 DEF StoreRows, Held, TypeOK, Calls
  <2>4. /\ cache' \in [rows : Rows, at : Nat, raced : BOOLEAN] /\ cache'.rows = tick.rows
    BY <1>6, <2>3 DEF StoreRows
  <2>5. TypeOK'
    BY <1>0, <1>6, <2>2, <2>4 DEF StoreRows, TypeOK, TickType
  <2>6. Null \notin Usable(tick.rows)
    BY ProviderAssumption DEF Usable
  <2>7. Held'
    BY <1>0, <1>6, <2>1, <2>2, <2>3, <2>4, <2>6 DEF StoreRows, Held, Calls
  <2> QED
    BY <2>5, <2>7 DEF TypeInv
<1>7. CASE ReadFails
  <2>1. TypeOK'
    BY <1>0, <1>7 DEF ReadFails, TypeOK
  <2>2. Held'
    BY <1>0, <1>7 DEF ReadFails, Held, Calls
  <2> QED
    BY <2>1, <2>2 DEF TypeInv
<1>8. ASSUME NEW p \in Providers, NotDue(p) PROVE TypeInv'
  <2>1. /\ tick' \in TickType /\ tick'.rows = tick.rows /\ tick'.todo = tick.todo \ {p}
        /\ tick'.cur = tick.cur /\ tick'.at = tick.at
    BY <1>0, <1>8 DEF NotDue, TickType
  <2>2. TypeOK'
    BY <1>0, <1>8, <2>1 DEF NotDue, TypeOK, TickType
  <2>3. Held'
    BY <1>0, <1>8, <2>1 DEF NotDue, Held, Calls
  <2> QED
    BY <2>2, <2>3 DEF TypeInv
<1>9. ASSUME NEW p \in Providers, PollDirectly(p) PROVE TypeInv'
  <2>1. /\ tick' \in TickType /\ tick'.rows = tick.rows /\ tick'.todo = tick.todo \ {p}
        /\ tick'.cur = p /\ tick'.at = tick.at
    BY <1>0, <1>9 DEF PollDirectly, TickType
  <2>2. tick.rows[p] # Null
    BY <1>0, <1>9 DEF PollDirectly, Held
  <2>3. called' \in [Providers -> Call]
    BY <1>9, <2>2, CallingTyped DEF PollDirectly
  <2>4. TypeOK'
    BY <1>0, <1>9, <2>1, <2>3 DEF PollDirectly, TypeOK, TickType, Call
  <2>5. Held'
    BY <1>0, <1>9, <2>1, <2>2 DEF PollDirectly, Held, Calls
  <2> QED
    BY <2>4, <2>5 DEF TypeInv
<1>10. ASSUME NEW p \in Providers, PollWithInventory(p) PROVE TypeInv'
  <2>1. /\ tick' \in TickType /\ tick'.rows = tick.rows /\ tick'.todo = tick.todo \ {p}
        /\ tick'.cur = p /\ tick'.at = tick.at
    BY <1>0, <1>10 DEF PollWithInventory, TickType
  <2>2. tick.rows[p] # Null
    BY <1>0, <1>10 DEF PollWithInventory, Held
  <2>3. inventory' \in [Providers -> [fetched : Time, attempted : Time]]
    <3>1. inventory[p] \in [fetched : Time, attempted : Time] /\ now \in Time
      BY <1>0 DEF TypeOK, Time
    <3>2. [inventory[p] EXCEPT !.attempted = now] \in [fetched : Time, attempted : Time]
      BY <3>1
    <3>3. inventory' = [inventory EXCEPT ![p] = [inventory[p] EXCEPT !.attempted = now]]
      BY <1>10 DEF PollWithInventory
    <3> QED
      BY <1>0, <3>2, <3>3 DEF TypeOK
  <2>4. listed' \in [since : Nat, calls : [Providers -> Nat]]
    <3>1. listed \in [since : Nat, calls : [Providers -> Nat]] /\ listed.calls[p] + 1 \in Nat
      BY <1>0 DEF TypeOK
    <3>2. listed' = [listed EXCEPT !.calls = [listed.calls EXCEPT ![p] = listed.calls[p] + 1]]
      BY <1>10 DEF PollWithInventory
    <3> QED
      BY <3>1, <3>2
  <2>5. TypeOK'
    BY <1>0, <1>10, <2>1, <2>3, <2>4 DEF PollWithInventory, TypeOK, TickType
  <2>6. Held'
    BY <1>0, <1>10, <2>1, <2>2 DEF PollWithInventory, Held, Calls
  <2> QED
    BY <2>5, <2>6 DEF TypeInv
<1>11. ASSUME NEW ok \in BOOLEAN, InventoryAnswer(ok) PROVE TypeInv'
  <2>1. tick.cur \in Providers /\ tick.rows[tick.cur] # Null
    BY <1>0, <1>11 DEF InventoryAnswer, Held, Calls
  <2>2. inventory' \in [Providers -> [fetched : Time, attempted : Time]]
    BY <1>0, <1>11, <2>1 DEF InventoryAnswer, TypeOK, Time
  <2>3. called' \in [Providers -> Call]
    BY <1>11, <2>1, CallingTyped DEF InventoryAnswer
  <2>4. TypeOK'
    BY <1>0, <1>11, <2>2, <2>3 DEF InventoryAnswer, TypeOK, Call
  <2>5. Held'
    BY <1>0, <1>11, <2>1 DEF InventoryAnswer, Held, Calls
  <2> QED
    BY <2>4, <2>5 DEF TypeInv
<1>12. CASE PositionsDone
  <2>1. /\ tick' \in TickType /\ tick'.rows = tick.rows /\ tick'.todo = tick.todo
        /\ tick'.cur = tick.cur /\ tick'.at = now
    BY <1>0, <1>12 DEF PositionsDone, TickType, TypeOK, Time
  <2>2. TypeOK'
    BY <1>0, <1>12, <2>1 DEF PositionsDone, TypeOK, TickType
  <2>3. Held'
    BY <1>0, <1>12, <2>1 DEF PositionsDone, Held, Calls, TypeOK
  <2> QED
    BY <2>2, <2>3 DEF TypeInv
<1>13. ASSUME NEW lost \in BOOLEAN, pc \in Calls, NextProvider(lost)
       PROVE  /\ tick' \in TickType /\ tick'.rows = tick.rows /\ tick'.todo = tick.todo
              /\ tick'.cur = Null
              /\ called' \in [Providers -> Call]
              /\ Null \notin tick.todo
  <2>1. tick.cur \in Providers
    BY <1>0, <1>13 DEF Held
  <2>2. called' \in [Providers -> Call]
    <3> DEFINE gone == called[tick.cur].lost \/ lost
    <3>1. called[tick.cur] \in Call /\ gone \in BOOLEAN
      BY <1>0, <2>1 DEF Call
    <3>2. called' = [called EXCEPT ![tick.cur] = [called[tick.cur] EXCEPT !.lost = gone]]
      BY <1>13 DEF NextProvider
    <3> HIDE DEF gone
    <3>3. [called[tick.cur] EXCEPT !.lost = gone] \in Call
      BY <3>1, CallUpdated
    <3> QED
      BY <1>0, <3>2, <3>3
  <2>3. Null \notin tick.todo
    BY <1>0, ProviderAssumption DEF TypeOK
  <2> QED
    BY <1>0, <1>13, <2>2, <2>3 DEF NextProvider, TickType, Time
<1>14. CASE TransientError
  <2>1. pc \in Calls /\ NextProvider(TRUE) /\ pc' = "next"
    BY <1>14 DEF TransientError, Calls, NextProvider
  <2>2. TypeOK'
    BY <1>0, <1>14, <1>13, <2>1 DEF TransientError, TypeOK, TickType, Call
  <2>3. Held'
    BY <1>0, <1>14, <1>13, <2>1 DEF TransientError, Held, Calls
  <2> QED
    BY <2>2, <2>3 DEF TypeInv
<1>15. CASE MarkWrite
  <2>1. tick.cur \in Providers /\ tick.rows[tick.cur] # Null /\ row[tick.cur] \in Config
    BY <1>0, <1>15 DEF MarkWrite, Held, Calls, TypeOK, Rows
  <2>2. [row[tick.cur] EXCEPT !.synced = tick.at] \in Config
    BY <1>0, <2>1 DEF Config, TypeOK
  <2>3. row' = [row EXCEPT ![tick.cur] = [row[tick.cur] EXCEPT !.synced = tick.at]]
    BY <1>15 DEF MarkWrite
  <2>4. row' \in Rows /\ \A p \in Providers : row[p] # Null => row'[p] # Null
    <3> DEFINE new == [row[tick.cur] EXCEPT !.synced = tick.at]
    <3>1. new # Null
      BY <2>2, ConfigAssumption
    <3> HIDE DEF new
    <3>2. row' = [row EXCEPT ![tick.cur] = new] /\ new \in Config
      BY <2>2, <2>3 DEF new
    <3>3. row \in [Providers -> Config \cup {Null}]
      BY <1>0 DEF TypeOK, Rows
    <3>4. row' \in Rows
      BY <3>2, <3>3 DEF Rows
    <3>5. \A p \in Providers : row'[p] = IF p = tick.cur THEN new ELSE row[p]
      BY <3>2, <3>3
    <3> QED
      BY <3>1, <3>4, <3>5
  <2>5. TypeOK'
    BY <1>0, <1>15, <2>4 DEF MarkWrite, TypeOK
  <2>6. Held'
    BY <1>0, <1>15, <2>1, <2>4 DEF MarkWrite, Held, Calls, TypeOK
  <2> QED
    BY <2>5, <2>6 DEF TypeInv
<1>16. CASE MarkFails
  <2>1. pc \in Calls /\ NextProvider(TRUE) /\ pc' = "next"
    BY <1>16 DEF MarkFails, Calls, NextProvider
  <2>2. TypeOK'
    BY <1>0, <1>16, <1>13, <2>1 DEF MarkFails, TypeOK, TickType, Call
  <2>3. Held'
    BY <1>0, <1>16, <1>13, <2>1 DEF MarkFails, Held, Calls
  <2> QED
    BY <2>2, <2>3 DEF TypeInv
<1>17. CASE MarkPatch
  <2>1. pc \in Calls /\ NextProvider(FALSE) /\ pc' = "next" /\ tick.cur \in Providers
    BY <1>0, <1>17 DEF MarkPatch, Calls, NextProvider, Held
  <2>2. CASE cache = Null
    <3>1. cache' = Null
      BY <1>17, <2>2 DEF MarkPatch
    <3>2. TypeOK'
      BY <1>0, <1>17, <1>13, <2>1, <3>1 DEF MarkPatch, TypeOK, TickType, Call
    <3>3. Held'
      BY <1>0, <1>17, <1>13, <2>1, <3>1 DEF MarkPatch, Held, Calls
    <3> QED
      BY <3>2, <3>3 DEF TypeInv
  <2>3. CASE cache # Null
    <3>1. cache \in [rows : Rows, at : Nat, raced : BOOLEAN]
      BY <1>0, <2>3 DEF TypeOK
    <3> DEFINE old == cache.rows[tick.cur]
    <3> DEFINE new == IF old = Null THEN Null ELSE [old EXCEPT !.synced = tick.at]
    <3>2. new \in Config \cup {Null} /\ (old = Null => new = Null)
      <4>1. old \in Config \cup {Null} /\ tick.at \in Time
        BY <1>0, <2>1, <3>1 DEF Rows, TypeOK
      <4>2. old \in Config => [old EXCEPT !.synced = tick.at] \in Config
        BY <4>1 DEF Config
      <4> QED
        BY <4>1, <4>2
    <3>3. cache' = [cache EXCEPT !.rows = [cache.rows EXCEPT ![tick.cur] = new]]
      BY <1>17, <2>3 DEF MarkPatch
    <3> HIDE DEF new
    <3>4. /\ cache' \in [rows : Rows, at : Nat, raced : BOOLEAN]
          /\ cache'.rows = [cache.rows EXCEPT ![tick.cur] = new]
      BY <3>1, <3>2, <3>3 DEF Rows
    <3>5. \A p \in Providers : cache.rows[p] = Null => cache'.rows[p] = Null
      BY <3>1, <3>2, <3>4 DEF Rows
    <3>6. TypeOK'
      BY <1>0, <1>17, <1>13, <2>1, <3>4 DEF MarkPatch, TypeOK, TickType, Call
    <3>7. Held'
      BY <1>0, <1>17, <1>13, <2>1, <2>3, <3>5 DEF MarkPatch, Held, Calls
    <3> QED
      BY <3>6, <3>7 DEF TypeInv
  <2> QED
    BY <2>2, <2>3
<1>18. CASE EndTick
  <2>1. TypeOK'
    BY <1>0, <1>18 DEF EndTick, TypeOK
  <2>2. Held'
    BY <1>0, <1>18 DEF EndTick, Held, Calls
  <2> QED
    BY <2>1, <2>2 DEF TypeInv
<1>19. ASSUME NEW p \in Providers, NEW dto \in Edits, EditWrite(p, dto) PROVE TypeInv'
  <2>1. /\ dto.active \in BOOLEAN /\ dto.credential \in BOOLEAN /\ dto.poll \in Intervals
        /\ dto.poll \in Nat
    BY EditAssumption, TimeAssumption
  <2>2. Upserted(p, dto) \in Config
    <3>1. CASE row[p] = Null
      BY <2>1, <3>1 DEF Upserted, Config, Time
    <3>2. CASE row[p] # Null
      <4> DEFINE kept == row[p].credential \/ dto.credential
      <4> DEFINE old == row[p]
      <4>1. old \in Config
        BY <1>0, <3>2 DEF TypeOK, Rows
      <4>2. kept \in BOOLEAN /\ old.ver + 1 \in Nat
        BY <2>1, <4>1 DEF Config
      <4>3. Upserted(p, dto) = [old EXCEPT !.active = dto.active, !.credential = kept,
                                           !.poll = dto.poll, !.ver = @ + 1]
        BY <3>2 DEF Upserted
      <4> HIDE DEF kept, old
      <4> QED
        BY <2>1, <4>1, <4>2, <4>3 DEF Config
    <3> QED
      BY <3>1, <3>2
  <2>3. Upserted(p, dto) # Null
    BY <2>2, ConfigAssumption
  <2>4. row' = [row EXCEPT ![p] = Upserted(p, dto)] /\ row' \in Rows
    BY <1>0, <1>19, <2>2 DEF EditWrite, TypeOK, Rows
  <2>5. \A q \in Providers : row[q] # Null => row'[q] # Null
    BY <1>0, <2>3, <2>4 DEF TypeOK, Rows
  <2>6. row'[p] # Null
    BY <1>0, <2>3, <2>4 DEF TypeOK, Rows
  <2>7. called' \in [Providers -> Call]
    <3> DEFINE floor == IF dto.poll < called[p].floor THEN dto.poll ELSE called[p].floor
    <3>1. floor \in Nat
      BY <1>0, <2>1 DEF TypeOK
    <3>2. called' = [called EXCEPT ![p] = [called[p] EXCEPT !.floor = floor]]
      BY <1>19 DEF EditWrite
    <3> HIDE DEF floor
    <3>3. called[p] \in Call
      BY <1>0
    <3>4. [called[p] EXCEPT !.floor = floor] \in Call
      BY <3>1, <3>3, CallUpdated
    <3> QED
      BY <1>0, <3>2, <3>4
  <2>8. TypeOK'
    BY <1>0, <1>19, <2>4, <2>7 DEF EditWrite, TypeOK, Call
  <2>9. Held'
    BY <1>0, <1>19, <2>5, <2>6 DEF EditWrite, Held, Calls
  <2> QED
    BY <2>8, <2>9 DEF TypeInv
<1>20. CASE EditDone
  <2>1. editing \in Providers /\ row[editing] \in Config
    BY <1>0, <1>20 DEF EditDone, Held, TypeOK, Rows
  <2>2. edited' \in [Providers -> [ver : Nat, at : Time]]
    BY <1>0, <1>20, <2>1 DEF EditDone, TypeOK, Config, Time
  <2>3. TypeOK'
    BY <1>0, <1>20, <2>2 DEF EditDone, TypeOK
  <2>4. Held'
    BY <1>0, <1>20 DEF EditDone, Held
  <2> QED
    BY <2>3, <2>4 DEF TypeInv
<1>21. CASE Restart
  <2>1. row' \in Rows /\ \A p \in Providers : row[p] # Null => row'[p] # Null
    BY <1>0, <1>21, SeedsKeep DEF Restart, TypeOK
  <2>2. called' \in [Providers -> Call]
    <3> DEFINE lost(p) == called[p].lost \/ (tick.cur = p /\ pc \in {"positions", "mark"})
    <3>1. \A p \in Providers : lost(p) \in BOOLEAN
      BY <1>0 DEF TypeOK
    <3>2. called' = [p \in Providers |-> [called[p] EXCEPT !.lost = lost(p)]]
      BY <1>21 DEF Restart
    <3> HIDE DEF lost
    <3>3. \A p \in Providers : [called[p] EXCEPT !.lost = lost(p)] \in Call
      BY <1>0, <3>1, CallUpdated
    <3> QED
      BY <3>2, <3>3
  <2>3. TypeOK'
    BY <1>0, <1>21, <2>1, <2>2 DEF Restart, TypeOK, ColdAdapters, Time, Call
  <2>4. Held'
    BY <1>0, <1>21, <2>1 DEF Restart, Held, Calls
  <2> QED
    BY <2>3, <2>4 DEF TypeInv
<1>22. CASE UNCHANGED vars
  BY <1>0, <1>22 DEF vars, TypeInv, TypeOK, Held
<1> QED
  BY <1>1, <1>2, <1>3, <1>4, <1>5, <1>6, <1>7, <1>8, <1>9, <1>10, <1>11, <1>12, <1>14, <1>15,
     <1>16, <1>17, <1>18, <1>19, <1>20, <1>21, <1>22 DEF Next

\* Rows, cache, locals and histories keep their types, and a tick never holds a
\* provider whose row does not exist.
THEOREM TypeCorrect == Spec => []TypeOK
<1>1. Init => TypeInv
  BY InitTyped
<1>2. TypeInv /\ [Next]_vars => TypeInv'
  BY StepTyped
<1>3. TypeInv => TypeOK
  BY DEF TypeInv
<1> QED
  BY <1>1, <1>2, <1>3, PTL DEF Spec

(***************************************************************************)
(* The budget: since the process started, the attempts are RetryFloor       *)
(* apart, and the last of them is stamped.                                  *)
(***************************************************************************)
Spaced(p) ==
    /\ inventory[p].attempted = Never => listed.calls[p] = 0
    /\ inventory[p].attempted # Never =>
           /\ listed.since <= inventory[p].attempted
           /\ inventory[p].attempted <= now
           /\ listed.calls[p] * RetryFloor
                  <= (inventory[p].attempted - listed.since) + RetryFloor

Budget == listed.since <= now /\ \A p \in Providers : Spaced(p)

\* One more attempt, RetryFloor after the last, fits.
LEMMA OneMore ==
    ASSUME NEW n \in Nat, NEW floor \in Nat, NEW since \in Nat, NEW last \in Nat, NEW t \in Nat,
           n * floor <= (last - since) + floor, t - last >= floor
    PROVE  (n + 1) * floor <= (t - since) + floor
<1>1. (n + 1) * floor = n * floor + floor
  OBVIOUS
<1>2. n * floor \in Nat
  OBVIOUS
<1> QED
  BY <1>1, <1>2

LEMMA BudgetStep == TypeInv /\ Budget /\ [Next]_vars => Budget'
<1> SUFFICES ASSUME TypeInv, Budget, [Next]_vars PROVE Budget'
  OBVIOUS
<1>0. /\ TypeOK /\ RetryFloor \in Nat /\ now \in Nat /\ listed.since \in Nat
      /\ \A p \in Providers : inventory[p].attempted \in Time /\ listed.calls[p] \in Nat
  BY TimeAssumption DEF TypeInv, TypeOK
<1>1. CASE Advance
  <2>1. now' = now + 1 /\ UNCHANGED <<inventory, listed>>
    BY <1>1 DEF Advance
  <2> QED
    BY <1>0, <2>1 DEF Budget, Spaced, Time, Never
<1>2. ASSUME NEW p \in Providers, PollWithInventory(p) PROVE Budget'
  <2>1. /\ inventory' = [inventory EXCEPT ![p].attempted = now] /\ now' = now
        /\ listed' = [listed EXCEPT !.calls[p] = @ + 1]
    BY <1>2 DEF PollWithInventory
  <2>2. /\ listed'.since = listed.since /\ listed'.calls[p] = listed.calls[p] + 1
        /\ \A q \in Providers : q # p => listed'.calls[q] = listed.calls[q]
    BY <1>0, <2>1 DEF TypeOK
  <2>3. /\ inventory'[p].attempted = now
        /\ \A q \in Providers : q # p => inventory'[q] = inventory[q]
    BY <1>0, <2>1 DEF TypeOK
  <2>4. ASSUME NEW q \in Providers, q # p PROVE Spaced(q)'
    BY <2>1, <2>2, <2>3, <2>4 DEF Budget, Spaced
  <2>5. Spaced(p)'
    <3>1. CASE inventory[p].attempted = Never
      <4>1. listed'.calls[p] = 1
        BY <1>0, <2>2, <3>1 DEF Budget, Spaced
      <4>2. 1 * RetryFloor = RetryFloor
        BY <1>0
      <4> QED
        <5>1. listed.since <= now /\ now # Never
          BY <1>0 DEF Budget, Never
        <5>2. listed'.calls[p] * RetryFloor <= (now - listed.since) + RetryFloor
          BY <1>0, <4>1, <4>2, <5>1
        <5> QED
          BY <1>0, <2>1, <2>2, <2>3, <5>1, <5>2 DEF Spaced
    <3>2. CASE inventory[p].attempted # Never
      <4>1. inventory[p].attempted \in Nat
        BY <1>0, <3>2 DEF Time
      <4>2. now - inventory[p].attempted >= RetryFloor
        BY <1>2, <3>2 DEF PollWithInventory, WantsInventory
      <4>3. listed.calls[p] * RetryFloor <= (inventory[p].attempted - listed.since) + RetryFloor
        BY <3>2 DEF Budget, Spaced
      <4>4. (listed.calls[p] + 1) * RetryFloor <= (now - listed.since) + RetryFloor
        BY <1>0, <4>1, <4>2, <4>3, OneMore
      <4> QED
        <5>1. listed.since <= now /\ now # Never
          BY <1>0 DEF Budget, Never
        <5>2. listed'.calls[p] * RetryFloor <= (now - listed.since) + RetryFloor
          BY <2>2, <4>4
        <5> QED
          BY <1>0, <2>1, <2>2, <2>3, <5>1, <5>2 DEF Spaced
    <3> QED
      BY <3>1, <3>2
  <2> QED
    BY <1>0, <2>1, <2>2, <2>4, <2>5 DEF Budget
<1>3. ASSUME NEW ok \in BOOLEAN, InventoryAnswer(ok) PROVE Budget'
  <2>1. \A p \in Providers : inventory'[p].attempted = inventory[p].attempted
    BY <1>0, <1>3 DEF InventoryAnswer, TypeOK
  <2> QED
    BY <1>3, <2>1 DEF InventoryAnswer, Budget, Spaced
<1>4. CASE Restart
  <2>1. \A p \in Providers : inventory'[p].attempted = Never /\ listed'.calls[p] = 0
    BY <1>4 DEF Restart, ColdAdapters
  <2>2. listed'.since = now /\ now' = now
    BY <1>4 DEF Restart
  <2> QED
    BY <1>0, <2>1, <2>2 DEF Budget, Spaced
<1>5. ASSUME UNCHANGED <<now, inventory, listed>> PROVE Budget'
  BY <1>5 DEF Budget, Spaced
<1>6. ASSUME NEW p \in Providers, NotDue(p) \/ PollDirectly(p) PROVE Budget'
  BY <1>5, <1>6 DEF NotDue, PollDirectly
<1>7. ASSUME NEW p \in Providers, NEW dto \in Edits, EditWrite(p, dto) PROVE Budget'
  BY <1>5, <1>7 DEF EditWrite
<1> QED
  BY <1>1, <1>2, <1>3, <1>4, <1>5, <1>6, <1>7
  DEF Next, vars, SkipTick, TickFromCache, TickFromDatabase, ReadRows, StoreRows, ReadFails,
      PositionsDone, TransientError, MarkWrite, MarkFails, MarkPatch, EndTick, EditDone

\* However the inventory calls end and however often the configuration is edited,
\* one process makes at most one call per RetryFloor.
THEOREM BudgetIsKept == Spec => []InventoryBudget
<1>1. Init => TypeInv /\ Budget
  <2>1. Init => Budget
    BY DEF Init, Budget, Spaced, ColdAdapters
  <2> QED
    BY <2>1, InitTyped
<1>2. TypeInv /\ Budget /\ [Next]_vars => TypeInv' /\ Budget'
  BY StepTyped, BudgetStep
<1>3. TypeInv /\ Budget => InventoryBudget
  <2> SUFFICES ASSUME TypeInv, Budget, NEW p \in Providers
               PROVE  listed.calls[p] * RetryFloor <= (now - listed.since) + RetryFloor
    BY DEF InventoryBudget
  <2>1. /\ RetryFloor \in Nat /\ now \in Nat /\ listed.since \in Nat /\ listed.calls[p] \in Nat
        /\ inventory[p].attempted \in Time /\ Spaced(p) /\ listed.since <= now
    BY TimeAssumption DEF TypeInv, TypeOK, Budget
  <2>2. CASE inventory[p].attempted = Never
    <3>1. listed.calls[p] * RetryFloor = 0
      BY <2>1, <2>2 DEF Spaced
    <3> QED
      BY <2>1, <3>1
  <2>3. CASE inventory[p].attempted # Never
    <3>1. inventory[p].attempted \in Nat /\ listed.calls[p] * RetryFloor \in Nat
      BY <2>1, <2>3 DEF Time
    <3> QED
      BY <2>1, <2>3, <3>1 DEF Spaced
  <2> QED
    BY <2>2, <2>3
<1> QED
  BY <1>1, <1>2, <1>3, PTL DEF Spec

(***************************************************************************)
(* Edits.  What the cache, or a read of the rows that has just been made,   *)
(* does not hold of an edit that has returned, returned after the time the  *)
(* read is stamped with.                                                    *)
(***************************************************************************)
Seen(p) ==
    /\ edited[p].ver <= Version(row[p])
    /\ pc = "store" => Version(tick.rows[p]) >= edited[p].ver \/ edited[p].at >= tick.at
    /\ cache # Null =>
           \/ Version(cache.rows[p]) >= edited[p].ver
           \/ cache.raced /\ edited[p].at >= cache.at

EditsSeen == \A p \in Providers : Seen(p)

\* The versions of well-typed rows are numbers.
LEMMA VersionType ==
    ASSUME TypeOK, NEW p \in Providers
    PROVE  /\ Version(row[p]) \in Nat /\ Version(tick.rows[p]) \in Nat
           /\ cache # Null => Version(cache.rows[p]) \in Nat
           /\ edited[p].ver \in Nat
<1>1. row[p] \in Config \cup {Null} /\ tick.rows[p] \in Config \cup {Null}
  BY DEF TypeOK, Rows
<1>2. cache # Null => cache.rows[p] \in Config \cup {Null}
  BY DEF TypeOK, Rows
<1>3. \A c \in Config \cup {Null} : Version(c) \in Nat
  BY DEF Version, Config
<1>4. edited[p].ver \in Nat
  BY DEF TypeOK
<1> QED
  BY <1>1, <1>2, <1>3, <1>4

LEMMA EditsStep == TypeInv /\ EditsSeen /\ [Next]_vars => EditsSeen'
<1> SUFFICES ASSUME TypeInv, EditsSeen, [Next]_vars, NEW p \in Providers PROVE Seen(p)'
  BY DEF EditsSeen
<1>0. TypeOK /\ Held /\ Seen(p)
  BY DEF TypeInv, EditsSeen
<1>n. /\ Version(row[p]) \in Nat /\ Version(tick.rows[p]) \in Nat /\ edited[p].ver \in Nat
      /\ cache # Null => Version(cache.rows[p]) \in Nat
  BY <1>0, VersionType
<1>1. CASE TickFromCache
  BY <1>0, <1>1 DEF TickFromCache, Seen
<1>2. CASE TickFromDatabase
  BY <1>0, <1>2 DEF TickFromDatabase, Seen
<1>3. CASE ReadRows
  <2>1. tick'.rows[p] = row[p]
    BY <1>0, <1>3 DEF ReadRows, TypeOK
  <2> QED
    BY <1>0, <1>n, <1>3, <2>1 DEF ReadRows, Seen
<1>4. CASE StoreRows
  <2>1. /\ cache'.rows = tick.rows /\ cache'.at = tick.at
        /\ cache'.raced = \E q \in Providers : Version(tick.rows[q]) < edited[q].ver
    BY <1>4 DEF StoreRows
  <2>2. Version(tick.rows[p]) >= edited[p].ver \/ edited[p].at >= tick.at
    BY <1>0, <1>4 DEF StoreRows, Seen
  <2>3. Version(tick.rows[p]) >= edited[p].ver \/ Version(tick.rows[p]) < edited[p].ver
    BY <1>n
  <2>4. Version(cache'.rows[p]) >= edited[p].ver \/ (cache'.raced /\ edited[p].at >= cache'.at)
    BY <2>1, <2>2, <2>3
  <2>5. pc' = "next" /\ row' = row /\ edited' = edited
    BY <1>4 DEF StoreRows
  <2> QED
    BY <1>0, <2>4, <2>5 DEF Seen, Version
<1>5. CASE MarkWrite
  <2>1. tick.cur \in Providers /\ row[tick.cur] \in Config
    BY <1>0, <1>5 DEF MarkWrite, Held, Calls, TypeOK, Rows
  <2>2. row' = [row EXCEPT ![tick.cur] = [row[tick.cur] EXCEPT !.synced = tick.at]]
    BY <1>5 DEF MarkWrite
  <2>3. [row[tick.cur] EXCEPT !.synced = tick.at] \in Config
    BY <1>0, <2>1 DEF Config, TypeOK
  <2>4. Version([row[tick.cur] EXCEPT !.synced = tick.at]) = Version(row[tick.cur])
    BY <2>1, <2>3, ConfigAssumption DEF Version, Config
  <2>5. row \in [Providers -> Config \cup {Null}]
    BY <1>0 DEF TypeOK, Rows
  <2>6. Version(row'[p]) = Version(row[p])
    BY <2>1, <2>2, <2>4, <2>5
  <2>7. pc' = "patch" /\ UNCHANGED <<tick, cache, edited>>
    BY <1>5 DEF MarkWrite
  <2> QED
    BY <1>0, <2>6, <2>7 DEF Seen, Version
<1>6. CASE MarkPatch
  <2>0. pc' = "next" /\ UNCHANGED <<row, edited>> /\ tick.cur \in Providers
    BY <1>0, <1>6 DEF MarkPatch, NextProvider, Held, Calls
  <2>1. CASE cache = Null
    <3>1. cache' = Null
      BY <1>6, <2>1 DEF MarkPatch
    <3> QED
      BY <1>0, <2>0, <3>1 DEF Seen, Version
  <2>2. CASE cache # Null
    <3>1. cache \in [rows : Rows, at : Nat, raced : BOOLEAN]
      BY <1>0, <2>2 DEF TypeOK
    <3> DEFINE old == cache.rows[tick.cur]
    <3> DEFINE new == IF old = Null THEN Null ELSE [old EXCEPT !.synced = tick.at]
    <3>2. cache' = [cache EXCEPT !.rows = [cache.rows EXCEPT ![tick.cur] = new]]
      BY <1>6, <2>2 DEF MarkPatch
    <3>3. Version(new) = Version(old)
      <4>1. CASE old = Null
        BY <4>1
      <4>2. CASE old # Null
        <5>1. old \in Config /\ tick.at \in Time
          BY <1>0, <2>0, <3>1, <4>2 DEF Rows, TypeOK
        <5>2. [old EXCEPT !.synced = tick.at] \in Config
          BY <5>1 DEF Config
        <5>3. [old EXCEPT !.synced = tick.at].ver = old.ver
          BY <5>1 DEF Config
        <5> QED
          BY <4>2, <5>2, <5>3, ConfigAssumption DEF Version
      <4> QED
        BY <4>1, <4>2
    <3> HIDE DEF new
    <3>4. /\ cache'.rows = [cache.rows EXCEPT ![tick.cur] = new]
          /\ cache'.at = cache.at /\ cache'.raced = cache.raced
      BY <3>1, <3>2
    <3>5. Version(cache'.rows[p]) = Version(cache.rows[p])
      BY <2>0, <3>1, <3>3, <3>4 DEF Rows
    <3> QED
      BY <1>0, <2>0, <2>2, <3>4, <3>5 DEF Seen, Version
  <2> QED
    BY <2>1, <2>2
<1>7. ASSUME NEW q \in Providers, NEW dto \in Edits, EditWrite(q, dto) PROVE Seen(p)'
  <2>1. UNCHANGED <<pc, tick, cache, edited>>
    BY <1>7 DEF EditWrite
  <2>2. Version(row'[p]) >= Version(row[p])
    <3>1. CASE p # q
      BY <1>0, <1>n, <1>7, <3>1 DEF EditWrite, TypeOK, Rows
    <3>2. CASE p = q
      <4>1. row'[p] = Upserted(p, dto)
        BY <1>0, <1>7, <3>2 DEF EditWrite, TypeOK, Rows
      <4>2. CASE row[p] = Null
        <5>1. Version(row[p]) = 0 /\ Upserted(p, dto).ver = 1
          BY <4>2 DEF Version, Upserted
        <5> QED
          BY <4>1, <5>1 DEF Version
      <4>3. CASE row[p] # Null
        <5>1. row[p] \in Config
          BY <1>0, <4>3 DEF TypeOK, Rows
        <5>2. Upserted(p, dto).ver = row[p].ver + 1
          BY <4>3, <5>1 DEF Upserted, Config
        <5>3. Version(row[p]) = row[p].ver
          BY <4>3 DEF Version
        <5>4. Upserted(p, dto) # Null
          <6>1. row' \in Rows
            BY <1>0, StepTyped DEF TypeInv, TypeOK
          <6>2. Held'
            BY StepTyped DEF TypeInv
          <6>3. row'[p] # Null
            BY <1>7, <3>2, <6>2, ProviderAssumption DEF EditWrite, Held
          <6> QED
            BY <4>1, <6>3
        <5> QED
          BY <1>n, <4>1, <5>2, <5>3, <5>4 DEF Version
      <4> QED
        BY <4>2, <4>3
    <3> QED
      BY <3>1, <3>2
  <2>3. Version(row'[p]) \in Nat
    <3>1. TypeOK'
      BY StepTyped DEF TypeInv
    <3>2. row'[p] \in Config \cup {Null}
      BY <3>1 DEF TypeOK, Rows
    <3> QED
      BY <3>2 DEF Version, Config
  <2> QED
    BY <1>0, <1>n, <2>1, <2>2, <2>3 DEF Seen, Version
<1>8. CASE EditDone
  <2>1. editing \in Providers /\ row[editing] # Null
    BY <1>0, <1>8 DEF EditDone, Held, TypeOK
  <2>2. /\ edited' = [edited EXCEPT ![editing] = [ver |-> row[editing].ver, at |-> now]]
        /\ cache' = Null /\ UNCHANGED <<pc, tick, row>>
    BY <1>8 DEF EditDone
  <2>3. CASE p # editing
    <3>1. edited'[p] = edited[p]
      BY <1>0, <2>1, <2>2, <2>3 DEF TypeOK
    <3> QED
      BY <1>0, <2>2, <3>1 DEF Seen, Version
  <2>4. CASE p = editing
    <3>1. edited'[p].ver = row[p].ver /\ edited'[p].at = now
      BY <1>0, <2>1, <2>2, <2>4 DEF TypeOK
    <3>2. Version(row[p]) = row[p].ver
      BY <2>1, <2>4 DEF Version
    <3>3. pc = "store" => now >= tick.at
      BY <1>0 DEF Held, TypeOK
    <3> QED
      BY <1>n, <2>2, <3>1, <3>2, <3>3 DEF Seen, Version
  <2> QED
    BY <2>3, <2>4
<1>9. CASE Restart
  <2>1. pc' = "idle" /\ cache' = Null /\ edited' = edited
    BY <1>9 DEF Restart
  <2>2. Version(row'[p]) >= Version(row[p])
    <3>1. /\ row[p] # Null => row'[p] = row[p]
          /\ row[p] = Null => Version(row'[p]) = 0
      BY <1>0, <1>9, SeedsKeep DEF Restart, TypeOK
    <3>2. row[p] = Null => Version(row[p]) = 0
      BY DEF Version
    <3> QED
      BY <1>n, <3>1, <3>2
  <2>3. Version(row'[p]) \in Nat
    <3>1. TypeOK'
      BY StepTyped DEF TypeInv
    <3>2. row'[p] \in Config \cup {Null}
      BY <3>1 DEF TypeOK, Rows
    <3> QED
      BY <3>2 DEF Version, Config
  <2> QED
    BY <1>0, <1>n, <2>1, <2>2, <2>3 DEF Seen, Version
<1>10. ASSUME UNCHANGED <<row, cache, edited>>, pc' # "store" PROVE Seen(p)'
  BY <1>0, <1>10 DEF Seen, Version
<1>11. ASSUME UNCHANGED <<row, cache, edited, pc, tick>> PROVE Seen(p)'
  BY <1>0, <1>11 DEF Seen, Version
<1>12. ASSUME NEW q \in Providers, NotDue(q) \/ PollDirectly(q) \/ PollWithInventory(q)
       PROVE  Seen(p)'
  BY <1>10, <1>12 DEF NotDue, PollDirectly, PollWithInventory
<1>13. ASSUME NEW ok \in BOOLEAN, InventoryAnswer(ok) PROVE Seen(p)'
  BY <1>10, <1>13 DEF InventoryAnswer
<1>14. CASE ReadFails \/ PositionsDone \/ TransientError \/ MarkFails \/ EndTick
  BY <1>10, <1>14
  DEF ReadFails, PositionsDone, TransientError, MarkFails, EndTick, NextProvider
<1>15. CASE Advance \/ SkipTick \/ UNCHANGED vars
  BY <1>11, <1>15 DEF Advance, SkipTick, vars
<1> QED
  BY <1>1, <1>2, <1>3, <1>4, <1>5, <1>6, <1>7, <1>8, <1>9, <1>12, <1>13, <1>14, <1>15 DEF Next

\* An edit that has returned is missed by a valid cache only if it fell into a read
\* of the rows, and for no longer than the time to live of the cache.
THEOREM EditsTakeEffect == Spec => []EditTakesEffect
<1>1. Init => TypeInv /\ EditsSeen
  <2>1. ASSUME Init, NEW p \in Providers PROVE Seen(p)
    <3>1. row \in Rows /\ TypeOK
      BY <2>1, InitTyped DEF TypeInv, TypeOK
    <3>2. Version(row[p]) \in Nat
      BY <3>1, VersionType
    <3> QED
      BY <2>1, <3>2 DEF Init, Seen, NoEdits
  <2> QED
    BY <2>1, InitTyped DEF EditsSeen
<1>2. TypeInv /\ EditsSeen /\ [Next]_vars => TypeInv' /\ EditsSeen'
  BY StepTyped, EditsStep
<1>3. TypeInv /\ EditsSeen => EditTakesEffect
  <2> SUFFICES ASSUME TypeInv, EditsSeen, CacheValid, NEW p \in Providers
               PROVE  \/ Version(cache.rows[p]) >= edited[p].ver
                      \/ cache.raced /\ now - edited[p].at <= CacheTtl
    BY DEF EditTakesEffect
  <2>1. /\ cache # Null /\ now - cache.at <= CacheTtl
        /\ cache.at \in Nat /\ now \in Nat /\ edited[p].at \in Int /\ CacheTtl \in Nat
    BY TimeAssumption DEF CacheValid, TypeInv, TypeOK, Time, Never
  <2>2. \/ Version(cache.rows[p]) >= edited[p].ver
        \/ cache.raced /\ edited[p].at >= cache.at
    BY <2>1 DEF EditsSeen, Seen
  <2> QED
    BY <2>1, <2>2
<1> QED
  BY <1>1, <1>2, <1>3, PTL DEF Spec

(***************************************************************************)
(* Cadence.  A recorded call is no later than the stamp in the row, in the  *)
(* cached row and in the row a provider that is still to do is judged by,   *)
(* unless its stamp is under way.                                           *)
(***************************************************************************)
Recorded(p) == called[p].at # Never /\ ~called[p].lost

Stamped(p, content) == content # Null => content.synced >= called[p].at

Cadence(p) ==
    /\ ~called[p].early
    /\ called[p].at <= now
    /\ tick.cur = p /\ pc = "inventory" => Due(tick.rows[p])
    /\ tick.cur = p /\ pc \in {"mark", "patch"} => tick.at >= called[p].at
    /\ Recorded(p) =>
           /\ \/ tick.cur = p /\ pc \in {"positions", "mark"}
              \/ row[p] # Null /\ Stamped(p, row[p])
           /\ \/ tick.cur = p /\ pc \in {"positions", "mark", "patch"}
              \/ cache # Null => Stamped(p, cache.rows[p])
           /\ pc = "store" \/ p \in tick.todo \/ (tick.cur = p /\ pc = "inventory")
                  => Stamped(p, tick.rows[p])

CadenceInv == \A p \in Providers : Cadence(p)

LEMMA TimesAreIntegers == \A t \in Time : t \in Int
  BY DEF Time, Never

\* A call of a provider that is due is not early.
LEMMA DueIsNotEarly ==
    ASSUME TypeInv, NEW p \in Providers, tick.rows[p] # Null, Due(tick.rows[p]), Calling(p),
           ~called[p].early, Recorded(p) => Stamped(p, tick.rows[p])
    PROVE  called'[p].at = now /\ ~called'[p].early /\ ~called'[p].lost
           /\ \A q \in Providers : q # p => called'[q] = called[q]
<1>1. row[p] \in Config /\ tick.rows[p] \in Config
  BY DEF TypeInv, TypeOK, Held, Rows
<1>2. /\ row[p].poll \in Nat /\ tick.rows[p].poll \in Nat
      /\ tick.rows[p].synced \in Int /\ called[p].at \in Time /\ now \in Nat
  <2>1. row[p].poll \in Intervals /\ tick.rows[p].poll \in Intervals
    BY <1>1 DEF Config
  <2>2. tick.rows[p].synced \in Time
    BY <1>1 DEF Config
  <2>3. called[p].at \in Time /\ now \in Nat
    BY DEF TypeInv, TypeOK
  <2>4. tick.rows[p].synced \in Int
    BY <2>2, TimesAreIntegers
  <2>5. row[p].poll \in Nat /\ tick.rows[p].poll \in Nat
    BY <2>1, TimeAssumption
  <2> QED
    BY <2>3, <2>4, <2>5
<1> DEFINE inForce == IF row[p].poll < tick.rows[p].poll THEN row[p].poll ELSE tick.rows[p].poll
<1> DEFINE early == \/ called[p].early
                    \/ /\ called[p].at # Never /\ ~called[p].lost
                       /\ now - called[p].at < called[p].floor /\ now - called[p].at < inForce
<1>3. called' = [called EXCEPT ![p] =
                   [at |-> now, floor |-> inForce, lost |-> FALSE, early |-> early]]
  BY DEF Calling
<1>4. ~early
  <2>1. inForce <= tick.rows[p].poll /\ inForce \in Nat
    BY <1>2
  <2>2. ASSUME Recorded(p) PROVE now - called[p].at >= inForce
    <3>1. tick.rows[p].synced >= called[p].at /\ called[p].at \in Nat
      BY <1>2, <2>2 DEF Recorded, Stamped, Time
    <3>2. tick.rows[p].synced # Never
      BY <1>2, <3>1 DEF Never
    <3>3. now - tick.rows[p].synced >= tick.rows[p].poll
      BY <3>2 DEF Due
    <3> HIDE DEF inForce
    <3> QED
      BY <1>2, <2>1, <3>1, <3>3
  <2> HIDE DEF inForce
  <2>3. Recorded(p) => ~(now - called[p].at < inForce)
    <3>1. Recorded(p) => called[p].at \in Nat
      BY <1>2 DEF Recorded, Time
    <3> QED
      BY <1>2, <2>1, <2>2, <3>1
  <2> QED
    BY <2>3 DEF Recorded
<1> HIDE DEF inForce, early
<1>5. called \in [Providers -> Call]
  BY DEF TypeInv, TypeOK, Call
<1> QED
  BY <1>3, <1>4, <1>5

LEMMA CadenceStep == TypeInv /\ CadenceInv /\ [Next]_vars => CadenceInv'
<1> SUFFICES ASSUME TypeInv, CadenceInv, [Next]_vars, NEW p \in Providers PROVE Cadence(p)'
  BY DEF CadenceInv
<1>0. TypeOK /\ Held /\ Cadence(p) /\ p # Null /\ now \in Nat /\ called[p].at \in Int
  BY ProviderAssumption DEF TypeInv, CadenceInv, TypeOK, Time, Never
<1>1. CASE Advance
  <2>1. /\ now' = now + 1
        /\ UNCHANGED <<row, cache, pc, tick, called>>
    BY <1>1 DEF Advance
  <2>2. pc = "inventory" /\ tick.cur = p => Due(tick.rows[p])'
    <3>1. ASSUME pc = "inventory", tick.cur = p PROVE Due(tick.rows[p])'
      <4>1. tick.rows[p] \in Config
        BY <1>0, <3>1 DEF Held, Calls, TypeOK, Rows
      <4>2. tick.rows[p].synced \in Int /\ tick.rows[p].poll \in Nat
        <5>1. tick.rows[p].synced \in Time /\ tick.rows[p].poll \in Intervals
          BY <4>1 DEF Config
        <5>2. tick.rows[p].synced \in Int
          BY <5>1, TimesAreIntegers
        <5>3. tick.rows[p].poll \in Nat
          BY <5>1, TimeAssumption
        <5> QED
          BY <5>2, <5>3
      <4>3. tick.rows[p].synced = Never \/ now - tick.rows[p].synced >= tick.rows[p].poll
        BY <1>0, <3>1 DEF Cadence, Due
      <4> QED
        BY <1>0, <2>1, <4>2, <4>3 DEF Due
    <3> QED
      BY <3>1
  <2> QED
    BY <1>0, <2>1, <2>2 DEF Cadence, Recorded, Stamped
<1>2. CASE TickFromCache
  <2>1. /\ cache # Null /\ tick'.rows = cache.rows /\ tick'.cur = Null /\ pc' = "next"
        /\ UNCHANGED <<now, row, cache, called>> /\ pc = "idle"
    BY <1>2 DEF TickFromCache, Asleep, CacheValid
  <2> QED
    BY <1>0, <2>1 DEF Cadence, Recorded, Stamped
<1>3. CASE TickFromDatabase
  <2>1. /\ tick'.todo = {} /\ tick'.cur = Null /\ pc' = "read" /\ pc = "idle"
        /\ UNCHANGED <<now, row, cache, called>>
    BY <1>3 DEF TickFromDatabase, Asleep
  <2> QED
    BY <1>0, <2>1 DEF Cadence, Recorded, Stamped
<1>4. CASE ReadRows
  <2>1. /\ tick'.rows = row /\ tick'.cur = Null /\ pc' = "store" /\ pc = "read"
        /\ UNCHANGED <<now, row, cache, called>>
    BY <1>0, <1>4 DEF ReadRows, Held, Calls, TypeOK
  <2> QED
    BY <1>0, <2>1 DEF Cadence, Recorded, Stamped
<1>5. CASE StoreRows
  <2>1. /\ tick'.rows = tick.rows /\ tick'.cur = Null /\ pc' = "next" /\ pc = "store"
        /\ cache'.rows = tick.rows /\ UNCHANGED <<now, row, called>>
    BY <1>0, <1>5 DEF StoreRows, Held, Calls, TypeOK
  <2> QED
    BY <1>0, <2>1 DEF Cadence, Recorded, Stamped
<1>6. CASE ReadFails
  <2>1. /\ tick'.todo = {} /\ tick'.cur = Null /\ pc' = "idle" /\ tick.cur = Null
        /\ UNCHANGED <<now, row, cache, called>>
    BY <1>0, <1>6 DEF ReadFails, Asleep, Held, Calls
  <2> QED
    BY <1>0, <2>1 DEF Cadence, Recorded, Stamped
<1>7. ASSUME NEW q \in Providers, NotDue(q) PROVE Cadence(p)'
  <2>1. /\ tick'.rows = tick.rows /\ tick'.todo \subseteq tick.todo /\ tick'.cur = tick.cur
        /\ tick'.at = tick.at /\ UNCHANGED <<now, row, cache, pc, called>>
    BY <1>0, <1>7 DEF NotDue, TypeOK
  <2> QED
    BY <1>0, <2>1 DEF Cadence, Recorded, Stamped, Due
<1>8. ASSUME NEW q \in Providers, PollDirectly(q) PROVE Cadence(p)'
  <2>1. /\ tick'.rows = tick.rows /\ tick'.todo = tick.todo \ {q} /\ tick'.cur = q
        /\ pc = "next" /\ pc' = "positions" /\ q \in tick.todo /\ tick.cur = Null
        /\ Due(tick.rows[q]) /\ Calling(q) /\ UNCHANGED <<now, row, cache>>
    BY <1>0, <1>8 DEF PollDirectly, Held, Calls, TypeOK
  <2>2. tick.rows[q] # Null /\ ~called[q].early /\ (Recorded(q) => Stamped(q, tick.rows[q]))
    BY <1>0, <2>1 DEF Held, CadenceInv, Cadence
  <2>3. /\ called'[q].at = now /\ ~called'[q].early /\ ~called'[q].lost
        /\ \A r \in Providers : r # q => called'[r] = called[r]
    BY <2>1, <2>2, DueIsNotEarly
  <2>4. CASE p = q
    BY <1>0, <2>1, <2>3, <2>4 DEF Cadence, Recorded, Stamped
  <2>5. CASE p # q
    BY <1>0, <2>1, <2>3, <2>5 DEF Cadence, Recorded, Stamped
  <2> QED
    BY <2>4, <2>5
<1>9. ASSUME NEW q \in Providers, PollWithInventory(q) PROVE Cadence(p)'
  <2>1. /\ tick'.rows = tick.rows /\ tick'.todo = tick.todo \ {q} /\ tick'.cur = q
        /\ pc = "next" /\ pc' = "inventory" /\ q \in tick.todo /\ tick.cur = Null
        /\ Due(tick.rows[q]) /\ UNCHANGED <<now, row, cache, called>>
    BY <1>0, <1>9 DEF PollWithInventory, Held, Calls, TypeOK
  <2> QED
    BY <1>0, <2>1 DEF Cadence, Recorded, Stamped, Due
<1>10. ASSUME NEW ok \in BOOLEAN, InventoryAnswer(ok) PROVE Cadence(p)'
  <2>1. /\ pc = "inventory" /\ pc' = "positions" /\ tick.cur \in Providers
        /\ tick.rows[tick.cur] # Null /\ Calling(tick.cur) /\ UNCHANGED <<now, row, cache, tick>>
    BY <1>0, <1>10 DEF InventoryAnswer, Held, Calls
  <2>2. /\ Due(tick.rows[tick.cur]) /\ ~called[tick.cur].early
        /\ Recorded(tick.cur) => Stamped(tick.cur, tick.rows[tick.cur])
    BY <2>1 DEF CadenceInv, Cadence
  <2>3. /\ called'[tick.cur].at = now /\ ~called'[tick.cur].early /\ ~called'[tick.cur].lost
        /\ \A r \in Providers : r # tick.cur => called'[r] = called[r]
    BY <2>1, <2>2, DueIsNotEarly
  <2>4. CASE p = tick.cur
    BY <1>0, <2>1, <2>3, <2>4 DEF Cadence, Recorded, Stamped, Held
  <2>5. CASE p # tick.cur
    BY <1>0, <2>1, <2>3, <2>5 DEF Cadence, Recorded, Stamped
  <2> QED
    BY <2>4, <2>5
<1>11. CASE PositionsDone
  <2>1. /\ tick'.rows = tick.rows /\ tick'.todo = tick.todo /\ tick'.cur = tick.cur
        /\ tick'.at = now /\ pc = "positions" /\ pc' = "mark"
        /\ UNCHANGED <<now, row, cache, called>>
    BY <1>0, <1>11 DEF PositionsDone, TypeOK
  <2> QED
    BY <1>0, <2>1 DEF Cadence, Recorded, Stamped
<1>12. ASSUME NEW lost \in BOOLEAN, NextProvider(lost), tick.cur \in Providers
       PROVE  /\ tick'.rows = tick.rows /\ tick'.todo = tick.todo /\ tick'.cur = Null /\ pc' = "next"
              /\ called'[p].at = called[p].at /\ called'[p].early = called[p].early
              /\ p # tick.cur => called'[p] = called[p]
              /\ called[p].lost \/ (lost /\ p = tick.cur) => called'[p].lost
  BY <1>0, <1>12 DEF NextProvider, TypeOK
<1>13. CASE TransientError \/ MarkFails
  <2>1. NextProvider(TRUE) /\ tick.cur \in Providers /\ UNCHANGED <<now, row, cache>>
    BY <1>0, <1>13 DEF TransientError, MarkFails, Held, Calls
  <2>2. CASE p = tick.cur
    BY <1>0, <1>12, <2>1, <2>2 DEF Cadence, Recorded
  <2>3. CASE p # tick.cur
    <3>1. pc \notin {"store", "inventory"}
      BY <1>13 DEF TransientError, MarkFails
    <3> QED
      BY <1>0, <1>12, <2>1, <2>3, <3>1 DEF Cadence, Recorded, Stamped
  <2> QED
    BY <2>2, <2>3
<1>14. CASE MarkWrite
  <2>1. tick.cur \in Providers /\ row[tick.cur] \in Config /\ tick.at \in Time
    BY <1>0, <1>14 DEF MarkWrite, Held, Calls, TypeOK, Rows
  <2>2. /\ row' = [row EXCEPT ![tick.cur] = [row[tick.cur] EXCEPT !.synced = tick.at]]
        /\ pc = "mark" /\ pc' = "patch" /\ UNCHANGED <<now, cache, tick, called>>
    BY <1>14 DEF MarkWrite
  <2>3. [row[tick.cur] EXCEPT !.synced = tick.at] \in Config
    BY <2>1 DEF Config
  <2>4. [row[tick.cur] EXCEPT !.synced = tick.at].synced = tick.at
    BY <2>1 DEF Config
  <2>5. row \in [Providers -> Config \cup {Null}]
    BY <1>0 DEF TypeOK, Rows
  <2>6. CASE p = tick.cur
    <3>1. row'[p] # Null /\ row'[p].synced = tick.at
      BY <2>1, <2>2, <2>3, <2>4, <2>5, <2>6, ConfigAssumption
    <3>2. p \notin tick.todo
      BY <1>0, <2>6 DEF Held
    <3> QED
      BY <1>0, <2>2, <2>6, <3>1, <3>2 DEF Cadence, Recorded, Stamped
  <2>7. CASE p # tick.cur
    <3>1. row'[p] = row[p]
      BY <2>2, <2>5, <2>7
    <3> QED
      BY <1>0, <2>2, <2>7, <3>1 DEF Cadence, Recorded, Stamped
  <2> QED
    BY <2>6, <2>7
<1>15. CASE MarkPatch
  <2>1. /\ NextProvider(FALSE) /\ tick.cur \in Providers /\ pc = "patch"
        /\ UNCHANGED <<now, row>> /\ tick.at \in Time
    BY <1>0, <1>15 DEF MarkPatch, Held, Calls, TypeOK
  <2>2. p = tick.cur => p \notin tick.todo
    BY <1>0 DEF Held
  <2>3. CASE cache = Null
    <3>1. cache' = Null
      BY <1>15, <2>3 DEF MarkPatch
    <3> QED
      BY <1>0, <1>12, <2>1, <2>2, <3>1 DEF Cadence, Recorded, Stamped
  <2>4. CASE cache # Null
    <3>1. cache \in [rows : Rows, at : Nat, raced : BOOLEAN]
      BY <1>0, <2>4 DEF TypeOK
    <3> DEFINE old == cache.rows[tick.cur]
    <3> DEFINE new == IF old = Null THEN Null ELSE [old EXCEPT !.synced = tick.at]
    <3>2. cache' = [cache EXCEPT !.rows = [cache.rows EXCEPT ![tick.cur] = new]]
      BY <1>15, <2>4 DEF MarkPatch
    <3>3. new # Null => new.synced = tick.at
      <4>1. old \in Config \cup {Null}
        BY <2>1, <3>1 DEF Rows
      <4>2. old \in Config => [old EXCEPT !.synced = tick.at].synced = tick.at
        BY DEF Config
      <4> QED
        BY <4>1, <4>2
    <3> HIDE DEF new
    <3>4. cache'.rows = [cache.rows EXCEPT ![tick.cur] = new]
      BY <3>1, <3>2
    <3>5. p # tick.cur => cache'.rows[p] = cache.rows[p]
      BY <3>1, <3>4 DEF Rows
    <3>6. p = tick.cur => cache'.rows[p] = new
      BY <3>1, <3>4 DEF Rows
    <3>7. CASE p = tick.cur
      BY <1>0, <1>12, <2>1, <2>2, <3>3, <3>6, <3>7 DEF Cadence, Recorded, Stamped
    <3>8. CASE p # tick.cur
      BY <1>0, <1>12, <2>1, <2>4, <3>5, <3>8 DEF Cadence, Recorded, Stamped
    <3> QED
      BY <3>7, <3>8
  <2> QED
    BY <2>3, <2>4
<1>16. CASE EndTick
  <2>1. /\ tick'.todo = {} /\ tick'.cur = Null /\ pc' = "idle" /\ tick.cur = Null
        /\ UNCHANGED <<now, row, cache, called>>
    BY <1>0, <1>16 DEF EndTick, Asleep, Held, Calls
  <2> QED
    BY <1>0, <2>1 DEF Cadence, Recorded, Stamped
<1>17. ASSUME NEW q \in Providers, NEW dto \in Edits, EditWrite(q, dto) PROVE Cadence(p)'
  <2>1. /\ called'[p].at = called[p].at /\ called'[p].early = called[p].early
        /\ called'[p].lost = called[p].lost /\ UNCHANGED <<now, cache, pc, tick>>
    BY <1>0, <1>17 DEF EditWrite, TypeOK
  <2>2. row' = [row EXCEPT ![q] = Upserted(q, dto)]
    BY <1>17 DEF EditWrite
  <2>3. row[p] # Null => row'[p] # Null /\ row'[p].synced = row[p].synced
    <3>1. CASE p # q
      BY <1>0, <2>2, <3>1 DEF TypeOK, Rows
    <3>2. ASSUME p = q, row[p] # Null PROVE row'[p] # Null /\ row'[p].synced = row[p].synced
      <4>1. row'[p] = Upserted(p, dto)
        BY <1>0, <2>2, <3>2 DEF TypeOK, Rows
      <4>2. row[p] \in Config
        BY <1>0, <3>2 DEF TypeOK, Rows
      <4>3. Upserted(p, dto).synced = row[p].synced
        BY <3>2, <4>2 DEF Upserted, Config
      <4>4. Held'
        BY StepTyped DEF TypeInv
      <4>5. row'[p] # Null
        BY <1>17, <3>2, <4>4, ProviderAssumption DEF EditWrite, Held
      <4> QED
        BY <4>1, <4>3, <4>5
    <3> QED
      BY <3>1, <3>2
  <2> QED
    BY <1>0, <2>1, <2>3 DEF Cadence, Recorded, Stamped, Due
<1>18. CASE EditDone
  BY <1>0, <1>18 DEF EditDone, Cadence, Recorded, Stamped, Due
<1>19. CASE Restart
  <2>1. pc' = "idle" /\ tick'.todo = {} /\ tick'.cur = Null /\ cache' = Null /\ now' = now
    BY <1>19 DEF Restart, Asleep
  <2>2. row[p] # Null => row'[p] = row[p]
    BY <1>0, <1>19, SeedsKeep DEF Restart, TypeOK
  <2> DEFINE gone == called[p].lost \/ (tick.cur = p /\ pc \in {"positions", "mark"})
  <2>3. called'[p] = [called[p] EXCEPT !.lost = gone]
    BY <1>19 DEF Restart
  <2>4. called[p] \in Call
    BY <1>0 DEF TypeOK, Call
  <2>5. called'[p].at = called[p].at /\ called'[p].early = called[p].early /\ called'[p].lost = gone
    BY <2>3, <2>4 DEF Call
  <2> QED
    BY <1>0, <2>1, <2>2, <2>5 DEF Cadence, Recorded, Stamped
<1>20. CASE SkipTick \/ UNCHANGED vars
  BY <1>0, <1>20 DEF SkipTick, vars, Cadence, Recorded, Stamped, Due
<1> QED
  BY <1>1, <1>2, <1>3, <1>4, <1>5, <1>6, <1>7, <1>8, <1>9, <1>10, <1>11, <1>13, <1>14, <1>15,
     <1>16, <1>17, <1>18, <1>19, <1>20 DEF Next

\* A provider is called no earlier than an interval in force since its last recorded
\* call allows, whatever is edited, lost or restarted.
THEOREM CadenceIsKept == Spec => []CadenceKept
<1>1. Init => TypeInv /\ CadenceInv
  <2>1. Init => CadenceInv
    <3> SUFFICES ASSUME Init, NEW p \in Providers PROVE Cadence(p)
      BY DEF CadenceInv
    <3>1. /\ called[p].at = Never /\ ~called[p].early /\ now = 0
          /\ pc = "idle" /\ tick.cur = Null
      BY DEF Init, Asleep
    <3> QED
      BY <3>1, ProviderAssumption DEF Cadence, Recorded, Never
  <2> QED
    BY <2>1, InitTyped
<1>2. TypeInv /\ CadenceInv /\ [Next]_vars => TypeInv' /\ CadenceInv'
  BY StepTyped, CadenceStep
<1>3. CadenceInv => CadenceKept
  BY DEF CadenceInv, Cadence, CadenceKept
<1> QED
  BY <1>1, <1>2, <1>3, PTL DEF Spec
=============================================================================
