--------------------------- MODULE GpsIntegration ---------------------------
(***************************************************************************)
(* When a GPS provider is called: the cron of TrackingService.syncVehicles *)
(* asks GpsIntegrationService for the providers to poll, polls those that  *)
(* are due one after the other and stamps each of them, while an admin     *)
(* edits the configuration.  The rows are read through a cache; the        *)
(* adapter of Transight also lists the provider's vehicles through an      *)
(* endpoint with a daily cap.                                              *)
(*                                                                         *)
(* One action per statement between two awaits; pc is where the tick       *)
(* stands ("idle": isSyncing is false).  Time passes at any await.         *)
(*                                                                         *)
(* Abstracted: what the answers hold (module FleetSync stores it), the     *)
(* credential itself, lastError, and the wording of errors.                *)
(***************************************************************************)
EXTENDS Integers

CONSTANTS
    Providers,      \* GpsProviderName
    Listing,        \* the providers with an inventory endpoint (Transight)
    Seeds,          \* the providers the environment configures
    Intervals,      \* values of pollIntervalSec
    Edits,          \* UpsertIntegrationDto: what an admin may send
    Period,         \* time between two ticks of the cron
    CacheTtl,       \* PROVIDER_CACHE_TTL_MS
    InventoryTtl,   \* INVENTORY_TTL_MS
    RetryFloor,     \* INVENTORY_RETRY_MS
    MaxTime,        \* bound: the clock stops here
    MaxEdits,       \* bound: edits of one provider
    Null            \* null

ASSUME ProviderAssumption == Listing \subseteq Providers /\ Null \notin Providers
ASSUME EditAssumption ==
    Edits \subseteq [active : BOOLEAN, credential : BOOLEAN, poll : Intervals]
ASSUME TimeAssumption ==
    /\ Intervals \subseteq Nat
    /\ Period \in Nat \ {0}
    /\ CacheTtl \in Nat /\ InventoryTtl \in Nat /\ RetryFloor \in Nat
    /\ MaxTime \in Nat /\ MaxEdits \in Nat

VARIABLES
    now,        \* the clock
    ticked,     \* the cron has fired at this instant
    row,        \* per provider: its GpsIntegration row, or Null
    cache,      \* providerCache
    inventory,  \* per listing provider: inventoryFetchedAt, inventoryAttemptedAt
    pc,         \* the next statement of the tick
    tick,       \* the tick's locals: rows, providers left, provider at hand, times
    editing,    \* the provider whose upsert has committed and not returned, or Null
    called,     \* history, per provider: last positions call and what it may be measured by
    listed,     \* history: start of the process, inventory calls since, per provider
    edited      \* history: the edits that have returned

vars == <<now, ticked, row, cache, inventory, pc, tick, editing, called, listed, edited>>

\* A time that was never stamped (null, or 0 in the adapter).
Never == -1
Time == Nat \cup {Never}

\* ver counts the edits of a row; it is no column.
Config == [active : BOOLEAN, credential : BOOLEAN, poll : Intervals, synced : Time, ver : Nat]
ASSUME ConfigAssumption == Null \notin Config

Rows == [Providers -> Config \cup {Null}]

NoRows == [p \in Providers |-> Null]
NoEdits == [p \in Providers |-> [ver |-> 0, at |-> Never]]
Asleep == [rows |-> NoRows, todo |-> {}, cur |-> Null, at |-> Never]

TypeOK ==
    /\ now \in Nat
    /\ ticked \in BOOLEAN
    /\ row \in Rows
    /\ cache \in [rows : Rows, at : Nat, raced : BOOLEAN] \cup {Null}
    /\ inventory \in [Providers -> [fetched : Time, attempted : Time]]
    /\ pc \in {"idle", "read", "store", "next", "inventory", "positions", "mark", "patch"}
    /\ tick \in [rows : Rows, todo : SUBSET Providers, cur : Providers \cup {Null}, at : Time]
    /\ editing \in Providers \cup {Null}
    /\ called \in [Providers -> [at : Time, floor : Nat, lost : BOOLEAN, early : BOOLEAN]]
    /\ listed \in [since : Nat, calls : [Providers -> Nat]]
    /\ edited \in [Providers -> [ver : Nat, at : Time]]

-----------------------------------------------------------------------------
(* Start of the process                                                    *)

Seeded(poll) == [active |-> TRUE, credential |-> TRUE, poll |-> poll, synced |-> Never, ver |-> 0]

\* seedAiroTrackFromEnv, seedTransightFromEnv: never overwrite a row.  The seed
\* of a provider may fail and is then skipped.
AfterSeeds(rows) ==
    {new \in [Providers -> {rows[p] : p \in Providers} \cup {Seeded(i) : i \in Intervals}] :
        \A p \in Providers :
            \/ new[p] = rows[p]
            \/ rows[p] = Null /\ p \in Seeds /\ \E i \in Intervals : new[p] = Seeded(i)}

ColdAdapters == [p \in Providers |-> [fetched |-> Never, attempted |-> Never]]

Init ==
    /\ now = 0
    /\ ticked = FALSE
    /\ row \in AfterSeeds(NoRows)
    /\ cache = Null
    /\ inventory = ColdAdapters
    /\ pc = "idle"
    /\ tick = Asleep
    /\ editing = Null
    /\ called = [p \in Providers |-> [at |-> Never, floor |-> 0, lost |-> FALSE, early |-> FALSE]]
    /\ listed = [since |-> 0, calls |-> [p \in Providers |-> 0]]
    /\ edited = NoEdits

\* Time passes; the cron has fired at its instants.
Advance ==
    /\ now < MaxTime
    /\ ticked \/ now % Period # 0
    /\ now' = now + 1
    /\ ticked' = FALSE
    /\ UNCHANGED <<row, cache, inventory, pc, tick, editing, called, listed, edited>>

-----------------------------------------------------------------------------
(* getActiveProviders                                                      *)

\* The active providers with a credential.
Usable(rows) ==
    {p \in Providers : rows[p] # Null /\ rows[p].active /\ rows[p].credential}

CacheValid == cache # Null /\ now - cache.at <= CacheTtl

Fire == now % Period = 0 /\ ~ticked /\ ticked' = TRUE

\* The previous sync is still running.
SkipTick ==
    /\ Fire
    /\ pc # "idle"
    /\ UNCHANGED <<now, row, cache, inventory, pc, tick, editing, called, listed, edited>>

\* The edits of a row that its content holds.
Version(content) == IF content = Null THEN 0 ELSE content.ver

TickFromCache ==
    /\ Fire
    /\ pc = "idle"
    /\ CacheValid
    /\ tick' = [Asleep EXCEPT !.rows = cache.rows, !.todo = Usable(cache.rows)]
    /\ pc' = "next"
    /\ UNCHANGED <<now, row, cache, inventory, editing, called, listed, edited>>

TickFromDatabase ==
    /\ Fire
    /\ pc = "idle"
    /\ ~CacheValid
    /\ tick' = [Asleep EXCEPT !.at = now]
    /\ pc' = "read"
    /\ UNCHANGED <<now, row, cache, inventory, editing, called, listed, edited>>

\* findMany executes.  The inactive rows it leaves out are carried along and unused.
ReadRows ==
    /\ pc = "read"
    /\ tick' = [tick EXCEPT !.rows = row]
    /\ pc' = "store"
    /\ UNCHANGED <<now, ticked, row, cache, inventory, editing, called, listed, edited>>

\* Its answer arrives.  fetchedAt is the time taken before the read.  raced is a
\* history: an edit has dropped the cache while the read was in flight.
StoreRows ==
    /\ pc = "store"
    /\ cache' = [rows |-> tick.rows, at |-> tick.at,
                 raced |-> \E p \in Providers : Version(tick.rows[p]) < edited[p].ver]
    /\ tick' = [tick EXCEPT !.todo = Usable(tick.rows), !.at = Never]
    /\ pc' = "next"
    /\ UNCHANGED <<now, ticked, row, inventory, editing, called, listed, edited>>

\* The database does not answer: the tick is given up.
ReadFails ==
    /\ pc \in {"read", "store"}
    /\ pc' = "idle"
    /\ tick' = Asleep
    /\ UNCHANGED <<now, ticked, row, cache, inventory, editing, called, listed, edited>>

-----------------------------------------------------------------------------
(* The loop over the providers                                             *)

\* now - lastSyncedAt against the interval; a null counts as the epoch.
Due(config) == config.synced = Never \/ now - config.synced >= config.poll

NotDue(p) ==
    /\ pc = "next"
    /\ p \in tick.todo
    /\ ~Due(tick.rows[p])
    /\ tick' = [tick EXCEPT !.todo = @ \ {p}]
    /\ UNCHANGED <<now, ticked, row, cache, inventory, pc, editing, called, listed, edited>>

\* ensureInventory: cold or past its TTL, and the last attempt is old enough.
WantsInventory(p) ==
    /\ p \in Listing
    /\ \/ inventory[p].fetched = Never
       \/ now - inventory[p].fetched > InventoryTtl
    /\ \/ inventory[p].attempted = Never
       \/ now - inventory[p].attempted >= RetryFloor

\* History: positions are asked for.  The call is early when it follows the last
\* one sooner than any interval that was configured since, though that one was
\* stamped.
Calling(p) ==
    LET config == tick.rows[p]
        inForce == IF row[p].poll < config.poll THEN row[p].poll ELSE config.poll
        last == called[p]
    IN called' = [called EXCEPT ![p] =
           [at |-> now, floor |-> inForce, lost |-> FALSE,
            early |-> \/ last.early
                      \/ /\ last.at # Never /\ ~last.lost
                         /\ now - last.at < last.floor /\ now - last.at < inForce]]

PollDirectly(p) ==
    /\ pc = "next"
    /\ p \in tick.todo
    /\ Due(tick.rows[p])
    /\ ~WantsInventory(p)
    /\ tick' = [tick EXCEPT !.todo = @ \ {p}, !.cur = p]
    /\ pc' = "positions"
    /\ Calling(p)
    /\ UNCHANGED <<now, ticked, row, cache, inventory, editing, listed, edited>>

\* Mutant: only a successful call counts as an attempt.
ListAndStampNothing(p) ==
    /\ pc = "next"
    /\ p \in tick.todo
    /\ Due(tick.rows[p])
    /\ WantsInventory(p)
    /\ tick' = [tick EXCEPT !.todo = @ \ {p}, !.cur = p]
    /\ pc' = "inventory"
    /\ listed' = [listed EXCEPT !.calls[p] = @ + 1]
    /\ UNCHANGED <<now, ticked, row, cache, inventory, editing, called, edited>>

\* The attempt is stamped before the call.
PollWithInventory(p) ==
    /\ pc = "next"
    /\ p \in tick.todo
    /\ Due(tick.rows[p])
    /\ WantsInventory(p)
    /\ inventory' = [inventory EXCEPT ![p].attempted = now]
    /\ tick' = [tick EXCEPT !.todo = @ \ {p}, !.cur = p]
    /\ pc' = "inventory"
    /\ listed' = [listed EXCEPT !.calls[p] = @ + 1]
    /\ UNCHANGED <<now, ticked, row, cache, editing, called, edited>>

\* getVehicles: any successful answer, an empty one too, counts as fetched.
\* A failure is logged; the positions are asked for in either case.
InventoryAnswer(ok) ==
    /\ pc = "inventory"
    /\ inventory' = IF ok THEN [inventory EXCEPT ![tick.cur].fetched = now] ELSE inventory
    /\ pc' = "positions"
    /\ Calling(tick.cur)
    /\ UNCHANGED <<now, ticked, row, cache, tick, editing, listed, edited>>

\* The positions are stored, or the call failed or timed out: either is stamped,
\* and until MarkPatch at holds lastSyncedAt.
PositionsDone ==
    /\ pc = "positions"
    /\ tick' = [tick EXCEPT !.at = now]
    /\ pc' = "mark"
    /\ UNCHANGED <<now, ticked, row, cache, inventory, editing, called, listed, edited>>

\* The next provider; lost: the sync that ends is not recorded as one.
NextProvider(lost) ==
    /\ pc' = "next"
    /\ tick' = [tick EXCEPT !.cur = Null, !.at = Never]
    /\ called' = [called EXCEPT ![tick.cur].lost = @ \/ lost]

\* The database cannot be reached while the positions are stored: no stamp.
TransientError ==
    /\ pc = "positions"
    /\ NextProvider(TRUE)
    /\ UNCHANGED <<now, ticked, row, cache, inventory, editing, listed, edited>>

\* markSynced: the update commits.
MarkWrite ==
    /\ pc = "mark"
    /\ row' = [row EXCEPT ![tick.cur].synced = tick.at]
    /\ pc' = "patch"
    /\ UNCHANGED <<now, ticked, cache, inventory, tick, editing, called, listed, edited>>

\* markSynced: the update fails, or its answer does not arrive.
MarkFails ==
    /\ pc \in {"mark", "patch"}
    /\ NextProvider(TRUE)
    /\ UNCHANGED <<now, ticked, row, cache, inventory, editing, listed, edited>>

\* Mutant: the cached row keeps the previous sync time.
LeaveCache ==
    /\ pc = "patch"
    /\ NextProvider(FALSE)
    /\ UNCHANGED <<now, ticked, row, cache, inventory, editing, listed, edited>>

\* The answer arrives: the cached row is kept in step.
MarkPatch ==
    /\ pc = "patch"
    /\ cache' = IF cache = Null THEN Null
                ELSE [cache EXCEPT !.rows[tick.cur] =
                         IF @ = Null THEN Null ELSE [@ EXCEPT !.synced = tick.at]]
    /\ NextProvider(FALSE)
    /\ UNCHANGED <<now, ticked, row, inventory, editing, listed, edited>>

EndTick ==
    /\ pc = "next"
    /\ tick.todo = {}
    /\ pc' = "idle"
    /\ tick' = Asleep
    /\ UNCHANGED <<now, ticked, row, cache, inventory, editing, called, listed, edited>>

-----------------------------------------------------------------------------
(* upsert, and the end of a process                                        *)

\* update when the row exists, create otherwise; a credential that is not
\* supplied is kept.
Upserted(p, dto) ==
    IF row[p] = Null
    THEN [active |-> dto.active, credential |-> dto.credential, poll |-> dto.poll,
          synced |-> Never, ver |-> 1]
    ELSE [row[p] EXCEPT !.active = dto.active, !.credential = @ \/ dto.credential,
                        !.poll = dto.poll, !.ver = @ + 1]

EditWrite(p, dto) ==
    /\ editing = Null
    /\ Version(row[p]) < MaxEdits
    /\ row' = [row EXCEPT ![p] = Upserted(p, dto)]
    /\ called' = [called EXCEPT ![p].floor = IF dto.poll < @ THEN dto.poll ELSE @]
    /\ editing' = p
    /\ UNCHANGED <<now, ticked, cache, inventory, pc, tick, listed, edited>>

\* Mutant: the edit leaves the cache alone.
EditDoneCached ==
    /\ editing # Null
    /\ editing' = Null
    /\ edited' = [edited EXCEPT ![editing] = [ver |-> row[editing].ver, at |-> now]]
    /\ UNCHANGED <<now, ticked, row, cache, inventory, pc, tick, called, listed>>

\* The write is answered: the cache is dropped.
EditDone ==
    /\ editing # Null
    /\ cache' = Null
    /\ editing' = Null
    /\ edited' = [edited EXCEPT ![editing] = [ver |-> row[editing].ver, at |-> now]]
    /\ UNCHANGED <<now, ticked, row, inventory, pc, tick, called, listed>>

\* The process dies and another one starts: only the rows survive.
Restart ==
    /\ row' \in AfterSeeds(row)
    /\ cache' = Null
    /\ inventory' = ColdAdapters
    /\ pc' = "idle"
    /\ tick' = Asleep
    /\ editing' = Null
    /\ called' = [p \in Providers |->
           [called[p] EXCEPT !.lost = @ \/ (tick.cur = p /\ pc \in {"positions", "mark"})]]
    /\ listed' = [since |-> now, calls |-> [p \in Providers |-> 0]]
    /\ UNCHANGED <<now, ticked, edited>>

Next ==
    \/ Advance
    \/ SkipTick \/ TickFromCache \/ TickFromDatabase
    \/ ReadRows \/ StoreRows \/ ReadFails
    \/ \E p \in Providers : NotDue(p) \/ PollDirectly(p) \/ PollWithInventory(p)
    \/ \E ok \in BOOLEAN : InventoryAnswer(ok)
    \/ PositionsDone \/ TransientError
    \/ MarkWrite \/ MarkFails \/ MarkPatch
    \/ EndTick
    \/ \E p \in Providers, dto \in Edits : EditWrite(p, dto)
    \/ EditDone
    \/ Restart

Spec == Init /\ [][Next]_vars

-----------------------------------------------------------------------------
(* Properties                                                              *)

\* No provider is asked for positions again before an interval that was in force
\* since the last time has passed, unless that sync was not recorded: the cached
\* lastSyncedAt never lags behind the row (markSynced patches both).
CadenceKept == \A p \in Providers : ~called[p].early

\* However the inventory calls end, one process makes at most one per RetryFloor:
\* the cap of get_all_vehicles holds all day (ensureInventory).
InventoryBudget ==
    \A p \in Providers :
        listed.calls[p] * RetryFloor <= (now - listed.since) + RetryFloor

\* A tick that need not read the rows polls by every edit that has returned.  Only
\* when an edit fell into a read of the rows that was in flight may it miss that
\* edit, and then for no longer than the time to live of the cache
\* (getActiveProviders, upsert).
EditTakesEffect ==
    CacheValid =>
        \A p \in Providers :
            \/ Version(cache.rows[p]) >= edited[p].ver
            \/ cache.raced /\ now - edited[p].at <= CacheTtl
=============================================================================
