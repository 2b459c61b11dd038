# FleetTrack backend: TLA+ models and proofs

The repository is a NestJS service over PostgreSQL (through Prisma). Clients submit trip
requests, admins approve them into trips, trips run through a life cycle while two GPS
providers are polled for vehicle positions, and a monitor tells clients about delays. The
service is one Node process: a handler runs without interruption up to its next `await`,
and any other handler, cron tick or socket callback may run there. PostgreSQL executes
each statement atomically; only three places open a transaction.

So almost every correctness question is the same one: *what was read before an await is
used after it*. The models split each handler at its awaits on the database, one action
per statement, and keep the local variables that survive an await as per-worker state.
The figures (reports, arrival times, the order of stops) are pure functions of rows and are
modelled as operators, held against counts made another way.

How to run: `tlc -config <cfg> <MC module>` for the runs below, `tlapm <Module>Proofs.tla`
for the proofs. `PROJECT.json` maps every definition to the lines it models and lists, per
property, a plausible bug (an operator under the comment `Mutant:`) that breaks it.

## Inventory

| Component | State | Operations | What is hard | What makes it correct | Model |
|---|---|---|---|---|---|
| Trip requests (`trip-requests/`) | `TripRequest` rows: status, `tripId` | create, approve, reject, remove | reviewers race; the Trip fails, dies or is not acknowledged between claim and link | exclusive claims, one Trip per request, final verdicts | `TripRequests`, `ApprovalLedger` |
| Trip life cycle (`trips/`) | `Trip.status`, `startedAt`, `completedAt`, `TripStop` rows | updateStatus, completeStop, update, optimizeStops, remove | check on a snapshot, write by id | legal transitions, stops in sequence, served before completed | `TripLifecycle` |
| Double-booking guard (`trips/`) | vehicle, driver and window of the active trips | create, update, status changes, checkOverlap | check and write are separate statements | no resource booked twice at one instant | `Booking` |
| ETA monitor (`trips/`) | `etaDelayAlertedAt`, `etaBaseline` | minute cron: claim, notify, roll back | overlapping ticks, refused notices, crashes | one notice per episode, no lost episode, no drift that adds up | `EtaMonitor` |
| Vehicle sync, offline sweep (`tracking/`) | `Vehicle` rows, breadcrumbs, `isSyncing` | two crons | the sweep decides on stale candidates; late and doubled fixes; two identities of one device | one row per device, fixes never go back, offline means aged out | `FleetSync` |
| GPS providers (`gps/`) | provider rows, their cache, the inventory and its two stamps | poll, list, stamp, edit, restart | a cached row outlives an edit; a stamp reaches the row and not its copy; daily call cap | cadence and budget kept, an edit takes effect | `GpsIntegration`, `FleetSync` |
| Clients, vehicles (`clients/`) | `Client`, `Vehicle.clientId` | create, update, remove | two admins assign one vehicle; a trip starts between check and write | one owner at a time, the full set or nothing | `Accounts` |
| Users, password reset (`users/`, `auth/`) | `User`, `PasswordResetToken` rows | create, remove; forgot, verify, reset | one link used twice, two live links | a link dies with the reset that follows it, the newest link only | `Accounts` |
| Proof of delivery (`pod/`) | `ProofOfDelivery` row, timeline, notices | upsert | two first confirmations; the process dies before the event | a delivery is announced once | `Records` |
| Uploads (`upload/`) | files on disk, `FileAsset` rows | store, remove | file and row are two steps | every row has its file and the reverse | `Records` |
| Delays (`delays/`) | `TripDelay` rows, notices | create, getStats | notice without row; groups that do not add up | totals agree along every axis | `Records`, `Reports` |
| Reports, dashboard (`trips/`, `customers/`, `trip-cost/`, `dashboard/`) | none | counts, sums and rates over trips | the same figure computed in two places; day edges; two queries divided by each other | each trip counted once; reports and dashboard agree | `Reports`, `Figures`, `Records` |
| Progress, arrival times, stop order (`trips/*.util.ts`) | none | project, predict, optimise | two point lists measured against each other; routes that double back | times in the order of the stops; each stop visited once | `Progress`, `Figures` |
| Notifications | `Notification` rows | stored by the producers above; list, mark read | stored but reported as failed | truthful, at most one per event | in the producers' modules |
| Tracking gateway, geocoding, mail | none of their own | emit, external calls | - | - | not modelled |

Interactions: `approve()` calls `TripsService.create()`, which runs the double-booking
guard; `updateStatus()`, `PodService.upsert`, `DelaysService.create` and the ETA monitor call
`NotificationsService.create()`, which never throws and returns null when it failed; the ETA
monitor reads the vehicle row the sync writes; the sync asks `GpsIntegrationService` whom to
poll and tells it when it has; deleting a client cascades to its trips, which cascade to
stops, events, proof, assets, delays and breadcrumbs, but not to notices (no foreign key), nor
to `TripRequest.tripId` (a plain column), nor to the files on disk.

## Modules and runs

A model of a component is `<Component>.tla`; `MC<Component>.tla` gives it a small instance,
`<Component>Proofs.tla` its theorems. `Records` EXTENDS `Reports`, and `Figures` EXTENDS
`Records` and `Progress`, so that `MCRecords` is the instance of all four.

### `TripRequests` and `ApprovalLedger`

A worker is one running invocation; `pc`, `target` and `held` are its statement, request
and Trip id. `approve` is `ApproveRead`, `ApproveClaim`/`LoseRace`, `CreateTrip`/
`CreateFails`/`CreateUnacknowledged`, `Rollback` or `Link`/`LinkMissesRow`, `Announce`;
`reject` and `remove` are split the same way. `TripsService.create()` is one step that
inserts or fails: the checks inside it only decide which. `Interrupt` is a crash or a failed
statement anywhere. `madeFor` is a history variable that remembers which request produced
a Trip.

`ApprovalLedger` states the promise without handlers: a request is open, held, refused,
accepted or gone, and a Trip appears in the very step that accepts. `RefinesLedger` maps
the handlers onto it; a request whose row was deleted while an approver still creates its
Trip is *abandoned*, and may still be accepted.

- `requests_crash` (2 requests, 2 Trip ids, 3 handlers, crashes): claims are exclusive, no
  request produces two Trips, no Trip hangs on an open or rejected request, the two
  verdicts are never both announced, a verdict is final, the ledger is implemented. Three
  handlers are what it takes for one approval to lose a race, another to win it and a third
  to delete; with two Trip ids a duplicate is visible.
- `requests_fair` (2 handlers, no crashes, lost acknowledgements, weak fairness of each
  handler's steps): every claim is resolved and an approved request at rest has its own
  Trip. The fairness is that of the event loop: a statement that was answered resumes its
  handler. Nobody is obliged to submit, review or delete.
- `requests_delete_race` finds that `remove()` can leave the Trip behind (below).

With lost acknowledgements `AtMostOneTrip` does not hold: the rollback opens a request whose
Trip exists. `requests_crash`, and the theorems that speak of produced Trips, therefore assume
`AckLost = FALSE`; the code's comment ("Trip creation failed -> no Trip exists") makes the same
assumption.

### `TripLifecycle`

One trip, its stops in order, and handlers on it. Every handler reads the row first
(`StatusCall`, `CompleteStopCall`, `UpdateCall`, `OptimizeCall` carry the guards of the
code), awaits other reads, and writes by id. `Abandon` stands for every refusal or failure
in between, `RowMissed` for an update of a deleted row. The order `optimizeStops` computes
is any permutation, so nothing depends on the geometry. `overlapped` is a history variable:
some handler was called while another one ran.

- `lifecycle_handlers` (2 handlers, up to 2 stops at 2 places, 4 stop ids). Whatever
  overlaps: completed stops are a prefix, a start is recorded, notices are truthful. As long
  as nothing overlapped: transitions are legal, a completed trip was served, the stops are
  frozen after the start, no arrival is lost. Two stops are enough for an order to be wrong,
  and ids for two generations of a list make a stale id observable.

### `Booking`

The trips of one client with their vehicle, driver and half-open window. `CreateCall` and
`UpdateCall` compute what is checked (`??` treats a null in a patch as "keep", while the write
stores it), `CheckVehicle` and `CheckDriver` are the two queries, `Insert` and `UpdateWrite` the
later writes. The two histories say what a race is: a worker is `outdated` once another trip
became active or was edited since the worker began, and a trip is `raced` if it was written by
an outdated worker.

- `booking_race` (2 trips, 2 requests, one vehicle, one driver, windows that nest, touch and
  are apart): a double booking involves a raced trip. So a request that meets no other never
  double-books, whatever it patches. A third trip adds no pair of a new kind.
- `booking_double` finds the double booking itself (below).

### `EtaMonitor`

One trip under way, a clock of cron ticks, and scans that may overlap because the cron has no
re-entrancy guard. A scan takes a snapshot, judges the delay (claim by compare-and-set, notice,
rollback of a refused one) and then the drift from the baseline (the same again). The arrival
is any of a few travel times or unknown. Histories: `onTime` (ticks that found the trip on
time), `killed` (scans that died), `overlapped`, `last` (what the last scan saw).

- `eta_overlap` (2 scans, 4 ticks, deadline 4, threshold 2). Whatever overlaps: a flag is
  backed by a notice, a dead scan or a scan still at work; a delivered flag is cleared by an
  on-time scan only. Without overlap: one notice per episode, every scan settles flag and
  baseline. Four ticks are a delay, a recovery and a second delay with one tick to spare; the
  travel times fall before, at and behind the deadline and drift below, at and above the
  threshold in both directions.
- `eta_stale_clear` finds the recovery write that is no compare-and-set (below).

### `GpsIntegration`

When a provider is called. The tick of the sync reads the provider rows through their cache
(`ReadRows`, `StoreCache`), polls those that are due (`PollDirectly`, `PollWithInventory`), and
stamps the row and then the cached copy of it (`MarkWrite`, `MarkPatch`); `EditWrite` and
`EditDone` are the two halves of an admin's upsert, `Restart` empties the process at any
statement and seeds missing rows. The answers themselves are left to `FleetSync`. Histories:
`called` (when a provider was last called and the least interval it may be measured by),
`listed` (calls of the capped endpoint since the process started), `edited`.

- `gps_cadence` (Transight, two intervals, one edit, clock up to 5, cache 2, inventory 3, retry
  floor 2; 3.9 million states). Five instants hold an expired cache, an expired inventory, a
  failed and a repeated listing call and an edit between any two. `CadenceKept`: no provider is
  called sooner after its last recorded call than an interval that was in force allows.
  `InventoryBudget`: at most one listing call per retry floor, per process; restarts begin a
  new budget, and so does the code. `EditTakesEffect`: a valid cache misses an edit only when a
  read of the rows was in flight over it, and for no longer than its time to live.

### `FleetSync`

The sync and the offline sweep on one `Vehicle` table. The sync is `StartSync`, then for each
position `Position` (identity, lookup, replay check), `Create`, `WriteReplay` or `Write`,
`LoadTrips` and `Append` for the breadcrumbs, then `Listed` for the gap-fill. The provider may
serve any fix: none, old, twice, ahead of the clock. A device that the inventory does not name
arrives under its IMEI and is flagged `fallback`. `SweepRead` and `SweepWrite` are the two
statements of the sweep; several sweeps may be under way, as the cron has no guard. `Crash`
drops the sync's locals and the inventory.

- `fleet_crons` (1 device, 2 rows, 1 trip, 1 sweep, window 1, clock up to 2, 1 fault).
  `OneRowPerDevice`, `FixNeverGoesBack`, `OfflineJustified`, `CrumbsInTime`. Two rows are enough
  for a duplicate, an instant beyond the window for an aged fix. AiroTrack devices, whose
  positions carry no IMEI, are in the theorem and not in this run.

### `Accounts`

Clients, admins, vehicles, trips, reset links, and requests on them. `create` and `update` of a
client run in a READ COMMITTED transaction: `written[w]` holds its writes, locks their rows and
becomes visible at `Commit` or disappears at a rollback. The assignment asks again in the
UPDATE whether a vehicle is free, and rolls back when the count falls short. The reset flow is
`Forget`, `IssueLink`; `SetPassword`, `ConsumeLink`, `DropSiblings`. Histories: `asked` (the set of
the last request that succeeded), `mixed` (accounts whose last update or link overlapped
another), `stale` (trips that started, or whose vehicle changed hands, after this worker's check),
`broken` (trips under way that lost vehicle or row though not stale: whose, by which call for
which client; the deletion counts the trips of the client and those on its vehicles), `dead`.

- `accounts_admin` (2 clients, 1 admin, 2 vehicles, 1 trip, 2 links, 2 requests at a time, 4 in
  all): `NoTheft`, `FullSet`, `BrokenByHandOverOnly`, `DeadLinksStayDead`, `OneLiveLink`. Two
  clients and two vehicles make a swap possible; four requests are two updates with the creation
  of both clients, or two links and two resets.

### `Records`

What is kept beside a trip while trips are completed and deleted: `PodCall`, `ReadPod`,
`UpsertPod`, `RecordEvent`, `NotifyPod`; `DelayCall`, `InsertDelay`, `NotifyDelay`; `StoreCall`,
`WriteFile`, `InsertAsset`; `RemoveCall`, `Unlink`, `DeleteAsset`; and the two queries of
`getDeliveryMetrics` in either order. `Abandon` is a refusal, a foreign key that no longer
holds, a failed statement or a crash. Histories: `overlapped`, `unheard` (a confirmation that
stopped before its event), `torn` (files whose store or removal stopped half way, or whose trip
was deleted), `stale`.

### `Reports`, `Progress`, `Figures`

`Reports` is an operator per report over a table of trips: summary, drivers, vehicles, customers,
dashboard cards, weekly activity, delay statistics, costs, with their scopes (role, client, day
range), the key of a driver who was picked or typed in, and rounding to tenths of a percent.
`Progress` is `trip-progress`, `trip-eta`, `trip-delay`, `trip-eta-alert` on a map that is a line,
where distances and projections are exact, and `route-optimize` on a table of distances, which may
be those of any points on the globe. `Figures` states what they promise:

- `ReportsAgree`: every trip in scope is in exactly one row of each report or lacks its key;
  ranges split at any day; delay groups and cost groups add up; the dashboard shows what the
  reports show.
- `EtasOrdered`: the covered distance is the first place on the route nearest to the vehicle; no
  stop is reached after a later one or after the destination; the alert at exactly the threshold.
- `OrderServes`: on any map the greedy order visits each stop once, and optimising the order it
  stored moves nothing and finds the length that was reported. It need not be shorter than the
  given order: nearest first is no optimum. From (0,0) by (100,-2), (100,1) to (100,5), the
  nearest stop is the second and going back for the first costs more than it saved;
  `computeStopOptimization` then reports an optimised length above the original.

`records_figures` (2 trips, 2 clients, 2 workers, 1 file, 3 requests; 0.85 million states) checks
these with `AnnouncedOnce`, `FilesAccounted` and `RateByRaceOnly`. The figures are functions of
their inputs: `MCRecords` lists tables with drivers picked, typed in, both or neither, restricted
vehicles, trips around midnight of either day, routes that double back, points without
coordinates, stops on a plane with ties and detours, and the tables that the states of `Records` produce. `IsTable`, `IsDelayTable`,
`IsCostTable`, `IsJourney` and `IsStopList` say what any such input is: finite tables with a status
of the schema and whole instants, places that are numbers or missing, distances that are any table. `FiguresAssumption` asks no more.

`CHECK_DEADLOCK FALSE` is set everywhere because the bounded systems really stop: all requests
are deleted, the trip is gone, ids, requests or ticks are used up. Fairness is assumed in
`requests_fair` only; the other components promise safety, and a cron or a user that does
nothing breaks none of it.

## Where code and comments disagree

| Run | The text | What the code does |
|---|---|---|
| `requests_delete_race` | "the two are deleted together in one transaction" (trip-requests.service.ts:377) | `tripId` is read before the transaction; an approval that links in between leaves its Trip behind |
| `booking_double` | "Reject double-booking", "the authoritative guard" (trips.service.ts:1439, 1339) | two creations pass the check before either inserts |
| `eta_stale_clear` | "Every state change is an atomic compare-and-set" (trips.service.ts:611) | the recovery write has the id alone in its WHERE and clears a newer flag |

Weaknesses seen while modelling and not turned into a run.

- Trips: two status changes checked against one old status are both written, so a cancelled
  trip can start (the reason for `~overlapped` in `LegalAlone`). A late edit of the stops passes
  the lock before the trip starts and replaces them afterwards (`StopsFrozen`). A driver given
  by name only is invisible to the booking guard, and so is a vehicle's booking under its former
  client. Nothing requires `scheduledStart < scheduledEnd`.
- Monitor: a delay claimed by a scan that dies is never announced (`killed` in `ClaimBacked`); a
  notice that is stored and whose socket signal throws is reported as refused and repeated.
- Providers: `lastSyncedAt` is stamped at the end of a call, so an interval of 60 s is polled
  every second tick of a minute cron, although tracking.service.ts:137 speaks of polling every
  minute. A read in flight over an edit outlives "takes effect on the very next tick"
  (gps-integration.service.ts:24-27) by the life of the cache: that exception is `raced` in
  `EditTakesEffect`.
- Fleet: a listing without IMEI lets the gap-fill create a second row for a device known by its
  IMEI (`bare`); a fix dated ahead freezes a vehicle until the clock catches up (`ahead`); the
  sweep takes a vehicle offline that was refreshed after its read (`raced`); an update is
  broadcast to the owner that was read before the history was written.
- Accounts: a crash between setting the password and consuming the link leaves the link usable;
  an active trip can lose its vehicle to an update, or its row to a deletion, that was checked
  before the trip started. Without any race, `remove()` asks for active trips of the client only
  (clients.service.ts:216-219), "so an in-progress delivery is never broken" (206), and the deletion
  unassigns the client's vehicles: a trip that a former client planned on one of them may be under way
  on it. (`update()` asks by vehicle, by the "same rule as deleting a client", 176.)
  `BrokenByHandOverOnly` says that this is the one way; with `broken = {}` in its place TLC finds
  it in four requests, one at a time: c1 is given a vehicle, plans a trip on it and gives it up, c2 is
  given it, the trip starts, c2 is deleted.
- Records: a confirmation that dies before its event is never announced, since the next save
  sees the delivery confirmed; deleting a trip leaves its files on disk; delay statistics group
  by days of UTC while their range is in business days.

## What is proved

All theorems are for every number of workers, rows, devices and values of the constants, and are
checked by TLAPS. Each module proves its type invariant (`TypeCorrect`); the type invariants are
not repeated in the runs.

`TripRequestsProofs`. Four theorems hold whatever fails, crashes or goes unacknowledged.
`TypeCorrect`; `ClaimsAreExclusive` and `VerdictsAreFinal` from `Claims` (a claim is on an approved
or deleted row without a link, a link on an approved row: without the second half nothing keeps a
claimed row's link from moving); `LinksAreOwn` from `OwnLinks` (an approval at its link holds the
Trip it inserted for that request). `ClaimsAreSettled` assumes that nothing is interrupted
(`Interrupts = FALSE`): an approved request at rest has its Trip. The rest assumes
`AckLost = FALSE`: `InductiveInvariant` adds to the claims that an approval before its insert, or
about to roll back, has produced nothing (`ClaimProduct`), that an approval is announced only for a
request with a Trip (`ApprovalAnnounced`) and that a rejected request has neither a Trip nor an
approval that could still make one (`RejectionBarren`). From it: `NoDuplicateTrip`,
`NoTripWithoutApproval`, `NoContradictoryVerdicts` and `Implementation` (every step is a step of
the ledger or leaves it alone). The assumption is needed: with a lost acknowledgement the rollback
reopens a request that already has a Trip.

`TripLifecycleProofs`. `Inductive` adds to the claims: stop ids are unique and never reused, the
stop a handler is about to complete is preceded by completed ones *if it is still on the list*, and
a status that presupposes a start is written over a started trip or by a handler that stamps the
start. It proves `StopsInSequence`, `StartIsRecorded`, `NoticesAreTruthful` under any overlap.
`CheckStillHolds` (at most one handler, and what it checked is still true) proves
`CompletedTripsAreServed` and `TransitionsAreLegal` while nothing overlapped, and `StopsStayFrozen`,
because the only step that replaces a list holds an edit that is still allowed. `ArrivalsAreKept`
needs `EditablePending` as well: while the list may be replaced nothing on it is done.

`BookingProofs`. `OverlapIsExact`: for windows that are not empty, comparing edges is the same as
sharing an instant. `OnlyRacesDoubleBook` rests on `ActiveApart` (active trips that clash contain a
raced one) and `ChecksHold` (a worker that is not outdated still finds its resources free and the
trip it patches unchanged). The conjunct that is easy to miss is that a patch which leaves fields
out writes exactly the booking that was checked, or one with fewer resources.

`EtaMonitorProofs`. `TypeCorrect`, `NoSilentClaim` (`ClaimBacked`, under any overlap and any
failure) and `OneNoticePerEpisode`, from `LoneScan`: at most one scan runs, it acts on the flag its
snapshot showed, and while the flag is null the last episode is over. `SentAlertKept`, under any
overlap, from `Stamps`: every scan has a minute of its own, and no notice bears it while the scan
may still roll back. `ScansSettleTheFlag` and `BaselineFollowsEta` from `Judged` on top of `LoneScan`
and `ClaimBacked`: until its compare-and-set the baseline is the one the scan saw, so a lone scan
never loses that race, and from condition B on the flag says what the scan found.

`GpsIntegrationProofs`. `BudgetIsKept` from `Budget`: the calls counted so far fit between the start of
the process and the stamp of the last attempt, which every attempt moves whether it succeeds or not.
`EditsTakeEffect` from `EditsSeen`: rows that a tick has read and not yet stored miss an edit only if
it returned after the time they are stamped with, and a cache that misses one is marked `raced`.
`CadenceIsKept` from `CadenceInv`: the row, its cached copy and the copy by which a tick judges a
provider all carry a stamp at least as new as the last recorded call, unless that stamp is under way.

`FleetSyncProofs`. `FixesOnlyAdvance` and `CrumbsStayInTime`. `OneRowEach` from `IdentityInv`, which is
what makes the two lookups complete: a row carries no IMEI but its device's, a device that was
never listed without IMEI has it in its row (an AiroTrack device its key instead), the item at hand
names its device the same way, and what the sync is about to create has no row.
`OfflineIsJustified` from `AgeInv`: a fix that was not ahead when it came only ages, so a candidate
that was outdated when read is outdated when written unless it was refreshed.

`AccountsProofs`. `NobodyIsRobbed` from `OwnInv`: one transaction at a time has written a vehicle,
it gives it away only when free and frees it only when it is its client's; that is what the
row locks and the condition in the UPDATE buy together. `FullSetIsKept` adds that of two overlapping
updates of a client both are marked, that owners exist, and that a transaction which has assigned
everything ends in exactly its set. `OnlyHandOversBreak`: a check still speaks for every trip that
is not stale for its worker, since a trip under way was under way before and its vehicle has come
to nobody; a trip that a deletion takes nevertheless is on the client's vehicle and not the client's.
`DeadLinksAreDead` and `LaterLinkWithdraws`: what a reset in progress has still to withdraw.

`RecordsProofs`. `FilesAreAccounted`: the file of a store in progress is nobody else's, is on the disk
once written, and a file whose row is about to go is not. `DeliveriesAnnouncedOnce`: notices
stored and owed are no more than events; without overlap one save at a time runs on a trip and
what it read is still the row; with overlap a confirmation it read still stands.
`RatesAreShares` from `RateInv`: a dashboard with one answer and no change since holds the figure of
the table as it is now, so its second answer fits the first (it assumes finitely many trips).

The second half of `RecordsProofs` is about the figures: `ReportsDoAgree`, `EtasAreOrdered` and
`OrdersDoServe`, for all inputs that meet `FiguresAssumption`. These invariants do not rest on the
steps but on the operators, so each follows from theorems about one input, which need no state:

- `RowsArePartition` (the rows of a report share no trip and miss none, and a total is a sum by
  key), `RangesAreSplit` (the day after a range starts where the range ends), `DashboardDoesAgree`,
  `DelaysDoAgree` (each axis groups the same delays) and `CostsDoAgree` (the sum of the rows of a
  table of costs is the sum of its columns).
- `NearestIsCovered`: a place on the route lies on some segment, where its projection is nearest; the
  segment chosen has the least deviation and is the first to have it, and covered distances grow
  along the segments, so no place is nearer and none as near comes earlier. `JourneyIsOrdered` adds that
  the located points up to a stop are a prefix of those up to a later one, so distances and arrival
  times only grow, and that an alert depends on the drift alone, rounded to minutes.
- `OrderIsServed`: the remaining stop nearest to the last is never one visited before. In the
  reordered list the next stop is the nearest of those left and the first of the nearest, because
  it was chosen so; so the second order is the identity, and both routes are the same.

They need induction over lengths, sizes and recursive functions. The library's induction theorems
take an operator as a parameter, which the provers cannot instantiate; `LeastNumber`, `EveryNumber` and
`EveryFiniteSet` say the same of sets: a set of counterexamples, if it is not empty, has a least
member. The `Sum...` lemmas and `RecursionExists` rest on them.

Model-checked only: `ClaimResolved`, because liveness under fairness is out of the prover's reach.

## Not modelled, and why

- Tracking gateway: the rooms belong to the socket library, nothing waits for an update.
- Geocoding and mail: external calls that never throw to their callers; a handler that awaits
  them may be overtaken there, which the models allow at every await.
- Listing with filters and pages, PDF documents: read and lay out rows, change nothing.
- CRUD of customers, addresses, costs and notification reads: one statement each behind an
  ownership read. Editing a user is one statement too; emails therefore do not change in `Accounts`,
  and a user and a client do not share one.
- Login, guards, ownership checks: they decide whether a handler proceeds, which the choice of the
  inputs or `Abandon` covers.
- Floating-point geometry on the sphere: progress and arrival times are exact on a line, the
  order of the stops is over a table of distances.
- Fields no rule looks at. Restricted plates: the handlers treat them as missing, so they are no
  members of the sets; the reports do exclude them, and `Reports` has them.
