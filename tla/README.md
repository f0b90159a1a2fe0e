# Galaxify: a verification project in TLA+

Galaxify turns daily tasks into the upkeep of a spaceship: completing a daily
earns materials, missing one damages the hull, materials repair the ship or are
invested in expeditions. Four Go services, each with its own PostgreSQL
database, and two workers exchange events through RabbitMQ; a React client
talks to the services over HTTP. This directory holds TLA+ models of that
system, from the event pipeline to the pages of the client, the TLC
configurations that check them on small instances and theorems that TLAPS
proves for every instance. All paths below are relative to `src/`; `web/` stands
for `apps/web-frontend/src/`.

## 1. Inventory

### Components, their state and their operations

| Component | State | Operations that change it |
|---|---|---|
| Event pipeline, `pkg/events` | `outbox` rows (PENDING, PUBLISHED), an AMQP channel per process, the exchanges `galaxify.events`, `galaxify.ae`, `galaxify.dlx`, a durable queue per service and event type, `galaxify.unroutable`, `galaxify.dead_letters`, `processed_events` | stage in a mutation's transaction, `Drain`, `Publish`, deliver, `NewIdempotentHandler`, ack, nack |
| ship-service | one `ships` row per Player: hull 0..100, materials >= 0 | handlers of `user.created`, `daily.completed`, `daily.missed`, `expedition.launched`, `expedition.completed`; `Repair` |
| expedition-service | `user_ship_state_cache`, `expeditions` | handlers of `user.created`, `ship.status_updated`; `Launch` |
| expedition-worker | `expeditions`, `expedition_results`, the shared outbox | `Tick`: settle due expeditions in batches, drain |
| daily-service | `dailies`, `daily_history`, `users_cache` | create, update, delete, complete; handlers of `user.created`, `user.deleted` |
| daily-cron | the same tables | `Tick`: missed sweep, reset sweep, drain |
| `pkg/dailytime` | none | wall-clock resolution, next occurrence |
| user-service | `users`, `refresh_tokens`, `jwt_keys` | signup, login, rotate, logout, delete account |
| `pkg/auth` | the JWKS cache of each verifier | `GetKey`, refresh |
| HTTP adapters | none | decode, validate, map errors |
| Web session client, `web/features/auth/session` | the refresh token in localStorage, an access token and a snapshot per tab, the Web Lock, broadcasts | bootstrap, login, refresh, logout, delete account, hear of another tab's logout |
| Reconciliation and balance gate, `web/shared/reconciliation`, `web/features/ship` | rounds of observation, the Ship query, expiry registry, approval | begin, read, expire, retry, open the gate, repair, change of session |
| Daily pages, `web/features/dailies` | a cached list per filter, requests under way | show, complete optimistically, delete, save |
| Expedition pages, `web/features/expeditions` | the current Expedition, details and quotes, launches under way | poll, launch, show a result |
| History pages | the pages of an infinite query | load, reload, continue, retry |
| Development supervisor, `scripts/dev.mjs` | children, promises, the pid file | start in healthy order, notice exits, stop, `--down` |

### How they interact

A mutation and the event that announces it are written in one transaction. A
drainer (after every HTTP request of a service, after every batch of a worker
that was not empty) claims pending rows with `FOR UPDATE SKIP LOCKED`, sends
them with publisher confirms, and marks what was confirmed. The topic exchange
copies a message to every bound queue, or through the alternate exchange to
`galaxify.unroutable`. A consumer inserts the event's identity into
`processed_events` and performs the domain mutation in one transaction, then
acknowledges; an error rejects the delivery into `galaxify.dead_letters`, from
where an operator may replay it.

    user.created        -> daily, ship, expedition
    user.deleted        -> daily
    daily.completed     -> ship        (materials)
    daily.missed        -> ship        (damage)
    expedition.launched -> ship        (materials spent)
    expedition.completed-> ship        (reward)
    ship.status_updated -> expedition  (mirror)

Services and their worker share a database, hence the outbox. Queues of
different event types are consumed concurrently and by every replica, so
nothing orders two events of one Player.

The client polls: a command's effect on the Ship takes the way through the
pipeline, so a round of reads observes it and, if it does not show up in time,
the gate keeps Repair and Launch closed until the Ship was read again. All
tabs of a browser share one refresh token through localStorage.

### What is hard, and what makes each part correct

* Pipeline: drainers, replicas, crashes between two steps, lost confirms,
  ambiguous commits, replays. Correct when a mutation is performed at most once
  per event and service, only for committed events; nothing routed disappears;
  concurrent drainers alone never duplicate; what is committed is eventually
  performed or dead-lettered.
* Ship: handlers and repairs race for a row that repairs first read without a
  lock. Correct when the balance is the sum of what was committed, the status
  announced last is the state of the ship, a repair never harms, nobody waits
  for ever.
* Mirror: statuses arrive late and reordered. Correct when it shows states the
  ship really had and, unless something was reordered or dropped, the current one.
* Expeditions: launches race between three reads and an insert; replicas of the
  worker race for due rows; a batch fails half way. Correct when a Player has
  one expedition in flight, launches keep the cooldown, and a settlement comes
  with exactly one result and one event.
* Dailies: completions and sweeps race for a row at its deadline, sweeps run in
  replicas, late or after an outage of days. Correct when a cycle has one
  outcome, with one row of history and one event, a lapse of days is one miss,
  no deadline counts twice, and what is overdue is eventually dealt with.
* Sessions: tabs rotate one single-use token, close, lose answers and hear late
  that the session has ended. Correct when no used token is presented, an ended
  session stays ended, protected content needs a session, and no tab waits unless
  a request does.
* Reconciliation and gate: reads, timers, pages and Player sessions interleave.
  Correct when the gate opens on a Ship received since the expiry, nothing of
  an earlier session or from before a repair is shown, and every round ends.
* Lists of Dailies: optimistic marks, refetches and failures overlap on several
  cached lists. Correct when no mark is lost or left without cause and the page
  shows what the Player was told.
* Expedition pages: polls, launches and refusals cross. Correct when the flight
  that is known is shown, and its end is noticed, neither late nor early.
* Histories: entries are archived between two pages. Correct when rows are in
  order, none twice and none skipped.
* Supervisor: signals and exits come while children start, and a child may run
  others under it. Correct when a stop always ends and leaves nothing that the
  supervisor could have seen, and the pid file lists what lives.

`PROJECT.json` lists every hazard with its line and the properties that cover it.

## 2. Modules

| Module | What it is |
|---|---|
| `EventContract` | what the pipeline promises: commit, and perform at most once |
| `EventDelivery` | outbox, drainers, broker, consumers, in detail |
| `EventDeliveryProofs` | inductive invariant, theorems, refinement of `EventContract` |
| `Ship`, `ShipMirror` | the ship's row, its handlers and repairs; drain order, queue and cache |
| `ShipProofs` | theorems about both |
| `Expedition`, `ExpeditionProofs` | launch transactions and settlement worker; theorems about them and about `HistoryPager` |
| `DailyLifecycle`, `DailyLifecycleProofs` | requests, consumers and sweeps on a Player's dailies; theorems |
| `SessionManager` | the tabs of a browser and the rotation of refresh tokens at user-service |
| `BalanceGate`, `BalanceGateProofs` | rounds of reconciliation, the Ship query, the gate; theorems |
| `DailyBoard` | the cached lists of Dailies and what pages do to them |
| `TabProofs` | theorems about `SessionManager` and `DailyBoard`, what a tab keeps |
| `Voyage`, `VoyageProofs` | the Expedition pages: queries, polls and launches; theorems |
| `HistoryPager` | the two infinite histories |
| `DevSupervisor`, `DevSupervisorProofs` | the supervisor of the local stack; theorems |
| `MC...` | small instances for TLC |

`EventDelivery` carries the burden of delivery. The others build on what it
shows: a delivery in `Ship` is one event that commits at most once and may be
dead-lettered and replayed; `ShipMirror` and `Expedition` need of the pipeline
only in what order, and whether, rows leave the outbox; `DailyLifecycle` ends
with the rows it stages. The modules of the client do not import those of the
services: the client sees a service through requests that may be answered, fail
or be lost, so each has the service's state as a variable and its own version of
what a request does. They split the client along the state it shares: a session
per browser, a Ship query and its gate per tab, a list per filter, a query per
Expedition. What one leaves out because another has it is in its header.

Definitions whose comment begins with "Mutation:" are not part of a model. Each
is a plausible bug in the definition that follows it; with it in that
definition's place, a run reports the property named in `PROJECT.json`.

### EventDelivery

A payload is its event identity. `row[e]` goes from `absent` over `open` (the
handler's transaction) to `PENDING` or `aborted`, then `PUBLISHED`. `createdAt`
is Postgres' `now()`, fixed when the transaction begins. The program counter of
a drainer stands for its mutex. `BeginDrain` is the claim query, `SendNext` the
`channel.Publish` call, with the broker's routing in the same step;
`ConfirmAndMark`, `SendFails`, `ConfirmLost` are the ends of `Publish`.
`CommitDrain` and `AbandonDrain` end the transaction. `LoseChannel` is
permanent for the process, as `Publisher` never reopens a channel;
`RestartDrainer` replaces the process. A consumer is one delivery loop:
`Receive`, `InsertProcessedEvent` (which waits, like `ON CONFLICT`, for a
concurrent insert of the same identity), `CommitHandler`, `HandlerFails`,
`CommitAmbiguous`, `Ack`, `Nack`, `CrashConsumer`. `Replay` is an operator's
shovel. `sends`, `disrupted` and `reached` are history variables.

Left out: envelope encoding, request identities, logging. The order in which
two queues are consumed is arbitrary, and so is the order within a queue
(several replicas, requeued deliveries).

### Ship

A transaction on a ship's row is `Begin`, then the update (a handler such as
`HandleDailyCompleted`, or `RepairUpdate`), which waits for the row lock and
computes from the latest committed version, as READ COMMITTED does, then
`Commit`, which also stages the status. The handlers share `Update`: without a
row, or with a version that violates a CHECK, the delivery is `rejected`. `Valid`
is the table's CHECK constraints. A failure (`Fail`) leaves a delivery `rejected`
if the handler or its `Commit` returned an error, and `new` if the process died
before it answered the broker (`Aftermath`). `RepairRead` is the
unlocked read, whose values `RepairUpdate` uses for the amounts and only for
them. The dice (`5 + roll()`, three to eight points a material) are a choice
between `RollMin` and `RollMax`. `MaxBegins` bounds the transactions that begin, so that an
instance can offer more events than happen in one behaviour. Initially the
Player may exist already. `ledger` is a history variable.

### ShipMirror

`DrainStatuses` sends a set of pending status rows in the order of `created_at`
(`DrainOrder`, of which there is one, as no two transactions begin at one tick).
Rows may stay behind, up to `MaxSkips` times: a publish that failed, or a row
another drainer had locked. First copies only, as second ones are discarded.
`HandleShipStatusUpdated` is an upsert without a version; `SeedOnUserCreated`
is expedition-service's own handler of `user.created`. One replica consumes the
queue; a second one could reorder what the first has in hand, which the
model leaves out because `ShipMirror_converges` fails without it already.

### Expedition

An expedition is identified with its launch request. A launch is a transaction
of four statements, each of which sees what is committed by then:
`LaunchBegin`, `LaunchCheck`, `LaunchInsert` or `LaunchConflict`,
`LaunchCommit`. `LaunchRefused` also stands for the balance test, whose data is
not modelled. Time advances only while no request and no tick is under way: a
unit is hours, they take seconds. A worker's tick lists a batch (SKIP LOCKED),
settles its members one by one, commits, drains, and lists again until nothing
is due. `ServiceDrain` is the drain after a request to expedition-service,
which shares the outbox. Both drains are one step here. Success is a choice.

### DailyLifecycle

`row[d]` is the committed row of `dailies`, `history[d]` what `daily_history`
holds for it, `staged[d]` its events. A row lock is not a variable: a request in
`written` has its target's row, and a worker the rows of its `batch`
(`Unlocked`). A request that changes a daily is a transaction of `Begin`,
`Write` (which waits for the row, and applies to it only if the `WHERE` clause
does by then) and `Commit`; where nothing applies it `Misses`, and a completion
goes on to `Inspect`, the second statement of `Complete` with a snapshot of its
own. `Create` and the consumers are one statement each; the cascade of
`HandleUserDeleted` waits for every row it takes. `TickStart` reads the clock
once per tick. `ListPendingExpired` and `ListCompletedExpired` are the `FOR
UPDATE SKIP LOCKED` queries, oldest first, and take a full batch if there is
one; `MarkBatch` and `ResetCompletedBatch` roll the batch over and commit;
`SweepFails` rolls it back and ends the tick with its later phases unrun, for
a fault or because a deadline cannot be advanced within `Horizon` days (366 in
the code). `Day` is constant: wall clocks and zones are not modelled. `cycle`
is a history variable, as is the `cycle` of a history row.

Left out: titles and descriptions; the materials of a completion; a second
Player, whose rows differ from the first's only in name.

### SessionManager

A step is one macro task of a tab: what runs between two awaits, together with
the continuations it releases. `storage` is localStorage; `current[f]` is the
serial of the live token of family `f` in `refresh_tokens`, so that a smaller
serial is a used token (`Reused`) whose presentation revokes the family
(`Revoked`). `rotation[t]` is a tab's `refreshPromise`: `queued` for the Web
Lock, `sent`, `rotated`, `invalid`, `unavailable`. `AcquireLock` reads storage
again inside the lock. `CloseTab` may happen at any of these points, and leaves
what it had sent behind (`orphans`), which the server may still handle. `boots`
counts the bootstraps of a tab that wait for its rotation, as a press on Retry
begins one beside another, and `me` those that wait for a `getMe`, by the family
whose access token asks; its answer is shown, whoever has signed in meanwhile
(`BootstrapDone`). A login (`entering`), a logout (`leaving`) and a deletion of the
account (`deleting`) each have a step that asks and one that answers, between which
anything may happen to the tab. `EndIn` is what the end of a session does in a tab:
`EndSession` in the one that ended it, `DeliverStorageEvent` and `DeliverBroadcast`
in the others, each late and in any order. `lost`, `crossed` and `ended` are history
variables.

Rotate and Logout are one step each at the server. They lock the presented row and
no other, so that a revocation may miss the token which a rotation of the live one
is inserting (`Revoke`: that one is presented just then). Rotations that have been
answered are visible to it. The mutation of the lock, `AcquireWithoutLock`, is what
`sessionLock.ts:17-19` does in a browser without Web Locks: there two tabs may
present one token, and lose their session.

### BalanceGate

`round[k]` is an observation entry: which of its reads is next (`mark`), whether
the timer runs, and of which session it is. `fetch` is the one fetch the query
client has under way for the Ship, with the rounds and the gate among its
readers; `RepairAnswered` and `Refetch` cancel it as `cancelQueries` and
`cancelRefetch` do. `registry` is `balanceGate.ts`, `approval` the module state of
`useShipBalanceGate`, and `EffectReset`, `EffectApprove`, `EffectCancel` and
`EffectRead` its effects, which run after the render that made their condition
true. `Navigate`, `Hide` and `Show` change who is watching; `SwitchSession` is a
logout and a login. Whether a read satisfies a round is a choice, as other awards
and spending move the same balance. The launches of a Player are observed under one
key here, and one at a time (`LaunchAnswered`), where the code has a key for each:
a second launch is answered only when the round of the first is over.

### DailyBoard

A row of a list is its status. `lists[k]` is the query of filter `k`; only the
list on the page has a fetch, cancelled and reverted when the page is left. A
command is `sent`, served (or failed), and settled: the optimistic mark and the
snapshot are taken by `Complete`, and given back by `Restored`. `Invalidate`
marks the lists a key matches by prefix (`Matched`) and refetches the one on
show. `Elsewhere` is another tab, another device or the sweep. `told`, `owed` and
`tangled` are history variables; the latter two name the cases, listed in
section 6, in which the code does less than the properties say. (`BoardSpec`,
`PagerSpec` and the like have names of their own so that one module can prove
things about two.)

### Voyage

A query is its last answer, whether it is fresh, whether its last fetch failed,
and at most one fetch. `Observed` says which queries the page on show has, and
`Render` begins and cancels fetches as a change of page or of data requires.
`Submit` refetches the current Expedition and the quote (the button needs an
eligible quote, Retry below a launch that failed does not: `CanLaunch`), `Checked`
decides on what the cache holds then, `ServeLaunch` is expedition-service, `Launched` and
`Refused` the two ends. `Noticed` is the effect that takes the step from a flight to
none for a result. `known` is a history variable.

### HistoryPager

An entry is its place in the order, so that a later one is greater. `NewestFirst`
lists a set by how many of it are newer. What has been read (`held`) is the rows,
how many pages they came in, and the parameter of the next page. `KeysetPage` is
`ListHistory` with its one row more than the page, `OffsetPage` the offset list.
`Reload` reads the pages that are held once more, one after the other, each from
where the one before it ended; `FetchNextPage` reads one more. `since` is what
was archived when the first page was read, a history variable.

### DevSupervisor

`main` is how far `dev()` is; `stop[s]` a `stopAll` begun by a signal or by `dev`
itself, asleep between SIGTERM and SIGKILL. `children` is the supervisor's map,
`pids` the pid file. Each child leads a process group. `leader` is the process that
was spawned, the only one whose exit is reported (`ExitNoticed` is `handleExit`) and
whose life `isProcessAlive` tests; `members` is what it runs under it, if it is one of
the `Shells`, as Vite runs under npm. SIGTERM goes to the whole group (`Terminate`),
and so does SIGKILL, but only if the leader is alive (`Kill`). Members may outlive
their leader (`Exits`, `MembersEnd`), after which the code knows of them no more.
`answered` holds the children whose health endpoint has answered: a child may end, and
even a stop, before `dev` continues (`UserHealthy` and its like), and what starts then
is in `afterStop`. `DownStarts` and `DownDone` are `--down` in another shell, which
knows the pid file only. Every child is critical. `crashed`, `downed`, `orphaned` and
`afterStop` are history variables.

## 3. Runs

| Run | Question and bounds |
|---|---|
| `EventDelivery_replicas` | 2 events for 2 services, one of which has 2 replicas and binds its queue late; 2 drainers, batch of 2, 1 fault, 1 replay. Two of each is what a duplicate, a race for a row or for an event identity needs; a batch of two can be sent in part. The invariants, the refinement and liveness. Fan-out of one event to several queues and several faults are covered by the theorems only. 223,000 states. |
| `Ship_ledger` | one event of each of the five kinds that change a ship and 2 repairs, of which any 4 begin, on a new ship or one that exists already; hull up to 2, 1 fault, 1 replay; liveness. Enough for a reject and its replay, a reward, a miss and two repairs that overlap, an investment that leaves a repair too little. A failed expedition, which changes nothing, is in `ShipMirror_order`. 240,000 states. |
| `ShipMirror_order` | a creation, the reward of one expedition and the failure of another, an investment, a miss; 1 fault, 1 drain that leaves rows behind. 2.0 million states. |
| `ShipMirror_converges` | 2 overlapping handlers, every drain complete, no faults. Expected to fail, see section 6. |
| `Expedition_launches` | 2 requests of one Player and 1 of another, length 1, until time 5: a race, a settlement, and a launch after the cooldown; batch and drain of 2, 1 worker, 1 fault; liveness. Replicas of the worker are covered by the theorems. 346,000 states. |
| `DailyLifecycle_cycles` | 1 daily, 2 replicas of the cron, a completion, an edit and a deletion, until time 2, 1 fault; liveness. A daily can be missed, completed and reset, or missed twice; a tick's clock can be two days behind. 278,000 states. |
| `SessionManager_tabs` | 2 tabs, 1 login, 2 tokens of its family and then a rotation that cannot succeed, 1 failed or lost request, closed tab, expiry or deletion of the account; liveness. Several logins, as of two Players, are covered by the theorems. 204,000 states. |
| `BalanceGate_awards` | 1 Daily, rounds of 2 reads, 2 rounds begun or retried, 2 Player sessions, 1 repair, 1 command under way; liveness. 297,000 states. |
| `DevSupervisor_stops` | user-service, 2 more, a worker and Vite with its npm, 2 signals, a `--down`; liveness. 507,000 states. |
| `DailyBoard_lists` | 2 Dailies, 2 requests, the unfiltered and the pending list, 1 failure or change from elsewhere. Dailies and requests are symmetric. 2.3 million states. |
| `Voyage_flights` | 1 Expedition, 2 clicks, 1 failed request, and the launch of another device; liveness. 305,000 states. |
| `HistoryPager_loads` | either history, up to 6 entries in pages of 2. 40,000 states. |

Small as they are, the instances reach every action and every disjunct of the
next-state relations, and each property is violated in its run by at least one
plausible bug in the definitions (the mutations). A second of a kind is given
wherever a property speaks of two (replicas, tabs, requests, sessions, repairs)
except where the table leaves that to the theorems: replicas of the expedition
worker, logins of a browser, Expeditions on the pages.

Deadlock checking is off where requests, events and time are finite, and a system
that has dealt with them rests. That nobody waits for ever is what the liveness
properties say instead.

Faults are bounded because each adds a whole copy of the state space; liveness
needs them bounded in any case, as nothing is served if failures never end.

The type invariant of every component is proved, for every instance; it is in no
configuration.

## 4. Fairness

Only what the code or its platform does of itself is fair: steps of a drain,
of a delivery loop, of a transaction that began. Four assumptions go further.

* Requests keep arriving, so that `BeginDrain` and `ServiceDrain` happen:
  README.md says that a pending event waits for a subsequent request.
* A process whose channel is gone is replaced by the platform
  (`RestartDrainer`), as the code has no way to recover.
* Time passes although ticks keep starting (`SF_vars(PassTime)`): it is enabled
  between any two ticks.
* The tickers of the workers fire (`TickStart`), as `time.Ticker` does; a tick
  whose batch is locked ends it, and one that cannot advance a deadline fails.

Nothing is assumed of faults, replays, queue declarations, launches or repairs
that have not begun. A publish that waits is assumed to end, by a confirm or by
the loss of its channel; a broker that blocks a healthy connection for ever is
outside the model, and a drain after a request has no deadline of its own.

In the client, timers fire and effects run; beyond that:

* `SessionManager`: of requests nothing is assumed. `transport.ts` only forwards a
  signal of its caller, and the session gives one to a logout alone, whose timer is
  fair. The Web Lock is granted in the order of requests, so strong fairness of
  `AcquireLock` and `FindsNoToken` is no more than the platform gives. What
  `EveryWaitEnds` says of a bootstrap has its hypothesis in the formula: if no
  rotation and no `getMe` of any tab stays unanswered for ever, it resolves. Without
  it the statement is false of the code, see section 6.
* `BalanceGate`: nothing is assumed of any answer. Rounds end because their
  reads time out, and so does the gate's.
* `Voyage`: polls go on, as the query client's interval does while the tab is
  visible; a hidden tab does not poll, so the property is about a tab that is
  looked at. A fetch of an Expedition is answered or fails: these requests have
  no timeout either, and one that hangs holds up its query. Strong fairness of
  `FetchArrives` rules out only a Player who presses Retry before every answer,
  for ever. Quotes need not come.
* `DevSupervisor`: timers fire, files are written and exits reported. No child
  needs to become healthy, to heed SIGTERM or to end.

`DailyBoard`, `HistoryPager` and `ShipMirror` state safety only.

## 5. Theorems

For every value of the constants that satisfies the named assumptions.

`EventDeliveryProofs`, from `EventAssumption` and `ServiceAssumption`:

* `TypeCorrect`: `TypeOK`.
* `NoDuplicateWithoutFault`: `DuplicatesOnlyByFault`. The inductive invariant
  adds that a row is claimed by one drainer only, that what a drainer sends or
  has marked is among its claimed rows and that claimed rows are PENDING.
* `ExactlyOnceMutation`: `EffectsMatchProcessed`. Inductive with: two consumers
  of a service are never both between insert and commit of one event, and none
  is there for an event already processed. That is the unique index's work.
* `NothingIsDropped`, `PublishedIsRouted`: `NothingDropped`, `PublishedWasRouted`.
  The latter needs that marked rows were sent while the queues bound at the
  start were bound.
* `PipelineImplementsContract`: every step commits one event, performs one
  mutation, or stutters, with `committed` and `applied` read off `row` and
  `effects`. It needs that copies exist only of committed events and only in
  queues of subscribers.

`ShipProofs`, from `TxAssumption`, `DeliveryAssumption`, `HullAssumption`,
`BoundAssumption` and, for the mirror, `SkipAssumption`:

* `TypeCorrect`: `TypeOK`, which holds the CHECK constraints of `ships`.
* `NoLostUpdate`, `AnnouncedIsCurrent`, `RepairIsSafe`: `MaterialsConserved`,
  `LatestStateAnnounced`, `RepairNeverDamages`. One inductive invariant carries
  all three: the transaction that has written is the one that holds the row
  lock (`LockOwned`), and what it wrote is the committed version plus what its
  commit will book, with a hull no smaller if it is a repair (`WrittenFresh`).
  `MaterialsConserved` alone is not inductive: a commit replaces the ship by
  what was written earlier, which is right only because nobody else could
  commit in between.
* `MirrorTypeCorrect`: the types of `Ship` and of the mirror together.
* `MirrorIsRealState`: `MirrorShowsRealStates`. What is queued are states of
  published rows (`QueueShowsRealStates`), in whatever order and with whatever
  losses.
* `MirrorIsShipInOrder`: `MirrorFaithfulInOrder`. While nothing went out of order,
  the published rows are the first of the outbox, and the last of them is the one
  the mirror shows or will show when the queue is empty (`InOrder`). A drain lists
  rows by `created_at`. That an order exists for every set of rows cannot be
  shown by induction here: the numbers of rows before each of them (its rank) are
  distinct, because no two rows have one time (`StampedOnce`), and so they are
  all the numbers up to the size of the set. That the order is that of the outbox
  if transactions started in commit order follows from the first place at which
  the two would differ.

`ExpeditionProofs`, from `TimeAssumption` and `SizeAssumption`:

* `TypeCorrect`: `TypeOK`.
* `AtMostOneInFlight`: `OneInFlight`. Strengthened by counting the launches that
  have inserted and not committed (`OneHolder`): what the unique index makes a
  second insert wait for.
* `SettlementIsAtomic`: `SettledOnceAndPaid`. Needs that locked rows are due and
  locked by one worker only (`BatchesDue`, `BatchesApart`), and by none once its
  transaction has ended (`LockedOnlyWhileSettling`).
* `CooldownIsKept`: `CooldownKept`. The check reads the latest Expedition only,
  and reads it before the row is inserted. It is enough for all of them because
  those before are a cooldown apart already (`ColdSinceLatest`), and it still holds
  at the insert because the clock does not run during a request and a rival that
  got in between makes the insert conflict (`Apart`: `NewRowIsNow`, `CheckedCold`,
  and `DueLater`, that an Expedition is due after its launch).

The same module, from `PagerAssumption`:

* `PagerTypeCorrect`: `PagerTypeOK`.
* `ListIsInOrder`, `NoEntryIsSkipped`: `NewestFirstAndOnce`, `NothingSkipped`. One
  statement (`HeldTrue`) is kept for the list and for the rows a fetch has so far.
  By keyset (`KeysetHeld`), the rows descend to the cursor, and what was there at
  the first page and is not below the cursor is listed. By offset (`OffsetHeld`),
  what was there and has fewer newer entries than rows are held is listed; entries
  only move down, so that none slips above the offset unread. `OffsetPageIs` and
  `KeysetPageIs` say what a page is in terms of ranks; that every rank is taken
  (`RankTaken`) is the pigeonhole principle, not induction.

`DailyLifecycleProofs`, from `RequestAssumption`, `TimeAssumption` and
`SizeAssumption`:

* `TypeCorrect`: `TypeOK`.
* `OneOutcomePerCycle`: `CyclesEndOnce`. What is locked is as it was when it was
  locked: rows of a batch still have the status and the deadline they were
  listed for (`BatchesHeld`), what a request wrote still applies
  (`WritesHeld`), and a row has one holder (`HoldersApart`). Hence a commit
  ends a cycle that has not ended, and the next one begins with as many rows of
  history as cycles before it. `FreshUntilCreated` says that an identity is
  used once. `NextDueIsLater` needs that a nonempty set of naturals has a least
  element, which is proved from the well-foundedness of inclusion between
  finite sets (`LeastNatural`), as induction is out of the prover's reach here.
* `OneOutcomeEach`, `OneMissEach`: `OneOutcomePerDeadline`, `OneMissPerLapse`. Both
  are about what is recorded; inductive with the row (`RowIsNext`): its deadline
  comes after everything recorded while it is pending, and is the last one
  recorded once it is completed. A sweep records a miss whose clock was past the
  deadline (`LateMisses`), and moves the deadline past its clock. `Deadlines` asks
  for this only as long as no edit has moved the deadline, and an edit, once
  answered, stays answered (`AnswersStand`).

`TabProofs`, about sessions, from `BoundAssumption`:

* `TypeCorrect`: `TypeOK`.
* `TokensPresentedFresh`, `EndedSessionsStayEnded`, `ProtectedContentInSession`:
  `PresentedFresh`, `EndedStaysEnded`, `ProtectedOnlyInSession`. `PresentedFresh`
  speaks of tokens on their way; it is inductive with `LockOwned` (the Web Lock has
  one holder) and `NeverConsumed`: a stored token is used only while its rotation
  is on the way back to the holder of the lock. `EndedGone` adds the tokens on
  their way to what `EndedStaysEnded` says of the stored one. `ProtectedHears` adds
  the tabs that are about to show content, those waiting for `getMe`: unless the
  end crossed it or its broadcast is still to come, there is a session.
  `ClosedAsksNothing` says that a tab which is not open waits for nothing.

The same module, about lists, from `BoardAssumption`, `UpsetAssumption` and
`NameAssumption`:

* `BoardTypeCorrect`: `BoardTypeOK`.
* `MarksStay`, `NoMarkIsLeft`, `ListsShowWhatWasTold`: `MarkHolds`,
  `NoPhantomCompletion`, `ToldIsShown`, from one invariant (`BoardInv`). A list is
  trusted if nothing will read it again of itself. Trusted lists, answers on
  their way to a list, and the snapshots that failing completions would put back
  all agree with what was told (`ListsTrue`, `FetchTrue`, `SnapshotsTrue`);
  `ToldIsShown` alone is not inductive, as a snapshot or an answer from before could
  still arrive. It is kept because every answer invalidates the lists it concerns,
  after which none of them is trusted, and a click cancels the fetch it finds
  (`ListsKnown`). A mark that daily-service does not confirm belongs to a request
  that will write to that very list (`MarksOwned`), so that no failure leaves one
  behind; `Served` says what answers and marks imply about daily-service, and
  `OneRequest` that only a tangled Daily has two requests.

`BalanceGateProofs`, from `BoundAssumption` and `DailyAssumption`:

* `TypeCorrect`: `TypeOK`.
* `SessionsStayApart`, `RepairStands`, `OpensOnReceipt`: `SessionsApart`,
  `RepairNotUndone`, `OpenOnlyOnReceipt`. What the properties say of the cache is
  said of the fetch under way as well (`FetchOK`): it is of this session and
  brings nothing older than the last repair, because a repair cancels the one it
  finds. `GateOK` ties an approval to data received since the expiry.
* `BudgetIsKept`: `BudgetKept`, an action property, from the same invariant and
  the fact that only rounds that are updating wait for a read (`ReadersUpdate`).

`DevSupervisorProofs`, from `ChildAssumption` and `StopperAssumption`:

* `TypeCorrect`: `TypeOK`.
* `NoneSurvives`, `Recoverable`: `NoneSurvivesTheStop`, `LivingAreRecorded`, whichever
  children are shells. A leader that lives is in the map (`LeadersInMap`), members
  that live have their leader or are on record as having lost it (`GroupsLed`), the
  map is in the file (`MapRecorded`), a group is `later` an orphan only if it is in
  the file (`OrphansOnTime`), and `dev` stops last (`StoppedLast`): nothing starts
  behind it.
* `CleanExit`: `StopIsNoFailure`, that `dev` reports a failure only if a leader ended
  of itself or `--down` stopped one. Signals alone never lead to one, as a leader that
  ends after SIGTERM is not heard. It needs the causes of exits (`EndsHaveCauses`).

`VoyageProofs`, from `BoundAssumption` and `NameAssumption`:

* `TypeCorrect`: `TypeOK`.
* `ResultsAreNotEarly`, `KnownIsShown`: `NoEarlyResult`, `KnownFlightShown`. At most
  one Expedition flies (`OneFlies`), answers name only what was launched
  (`Launches`), an answer of none that is on its way to a page that shows a flight
  means that this flight has ended (`EndsAreEnds`), and what was named is shown or
  due to be read (`KnownOrDue`). The latter two hold because `Launched` and
  `Refused` invalidate the query and with it cancel the fetch under way.

Each invariant was first checked by TLC as an invariant of the run that checks
the properties it carries.

Model-checked only: the liveness properties `EventuallySettled` (of
`EventDelivery` and of `Expedition`), `EveryoneServed`, `OverdueIsSettled`,
`EveryWaitEnds`, `RoundsAndGateSettle`, `EndsClean` and `EndIsNoticed`, as fairness
is stated by ENABLED, which the prover does not have. Every safety property that a
passing run checks is proved.

## 6. Where code and documents disagree

One run shows a divergence:

* `ShipMirror_converges`. `docs/specs/expedition-service.md:18` calls the cache a
  mirror. Rows are drained by `created_at`, the start of a transaction; when one
  began first and committed last its status goes out first, and the cache stays
  on the older state until the ship changes again. `MirrorFaithfulInOrder` names
  the conditions under which the mirror is right.

The others were met while reading and modelling, and no run shows them. Where a
property would be violated by one of them, its statement excludes the case by
name (`tangled`, `owed`, `crossed`, `lost`).

Services:

* `docs/specs/ship-service.md:38` has a repair refused when the hull is full.
  `Repair` tests a row it read without a lock (`manager.go:88-92`): of two
  overlapping repairs the second finds the hull filled by the first and is
  charged all the same. What remains true is `RepairNeverDamages`.
* `docs/specs/daily-service.md:76` has the missed sweep move a deadline forward until
  it is after `now()`. `NextOccurrenceAfter` looks 366 days ahead and then fails,
  and with it the batch and the tick (`pkg/dailytime/dailytime.go:71`). The oldest
  rows are listed first, so the next tick meets the same row. Any RFC 3339 instant
  is accepted as a deadline. `OverdueIsSettled` is checked with deadlines within
  the horizon.
* An expedition may fly unpaid: `Launch` trusts the mirrored balance, and a
  deduction that the ship cannot afford is dead-lettered.
* The comment of expedition-worker (`workers/expedition-worker/main.go:31-34`)
  says pending rows are published after each tick. A batch of 100 is followed by
  a drain of 50, and an empty batch by none; `EventuallySettled` holds because
  requests to expedition-service drain the same outbox.
* A completion repeated after the deadline is to answer `DAILY_ALREADY_COMPLETED`
  (`docs/specs/daily-service.md:46`). If the reset sweep commits between
  `MarkDailyComplete` and the second read, `inspectStatusMismatch` finds a
  PENDING row and the answer is an internal error (`Mismatch`).
* `docs/specs/expedition-service.md:38` rejects a launch if the last expedition was due
  *before* seven days ago. Lines 125 and 136 of that file, the code and `CooldownKept`
  reject it if it was due after.
* ADR-0012 (line 24) has a completed daily locked against being completed again
  for its reward. A PATCH can move a completed daily's deadline
  (`manager.go:297`) back into the past; the next tick resets it, and it can be
  completed again. `OneOutcomePerDeadline` is stated for dailies whose
  deadline no request has moved.
* The reset sweep advances a deadline by as many days as have passed
  (`store.go:124`), where `docs/specs/daily-service.md:81` has it advance by one.

Session client (`web-frontend.md` sections 4 and 4.2, `sessionManager.ts`):

* A timeout is to lead to "temporarily unavailable" (`docs/specs/web-frontend.md:228`).
  Neither the refresh (321) nor `getMe` (366) has one: `transport.ts:124-185` sets none
  and `sessionApi.ts:48-55,73-78` pass no signal. A refresh that hangs keeps its tab
  bootstrapping for as long as the browser lets it, and because it holds the Web Lock,
  every other tab that has to rotate. `EveryWaitEnds` supposes that requests end.
* The answer to a login, a deletion or a `getMe` is applied to whatever the tab has
  become since: that of a `getMe` overwrites the user of a newer login (367), that of a
  deletion clears a newer session (211).
* `Logout` "serializes with Rotate through the same row lock" (`manager.go:114-115`),
  which holds when both present one token. If the other rotates, its new token may
  survive the deletion of the family.
* A rotation uses whatever token it finds under the lock (317-322). If another tab
  has signed another Player in, a tab goes on showing the one and makes requests
  as the other.
* `bootstrap` promotes a tab to authenticated after `getMe` although the session
  ended meanwhile (286-302): `crossed`. A rotation in flight when another tab logs
  out stores its new token and so revives the session; one that fails then shows
  `unavailable`. `terminate` clears whatever token is stored, a newer login's too.

Reconciliation and gate (`web-frontend.md` section 3.4):

* The gate's read joins a fetch that began before the expiry, if one is under
  way, although the comment at `useShipBalanceGate.ts:271` says it started after.
  `OpenOnlyOnReceipt` therefore speaks of when the Ship was received.
* A launch tests the gate before it awaits its revalidation (`LaunchForm.tsx:132`),
  and the answer of a deletion does not test the session's generation.
* A GET that is answered while a repair awaits its own answer may show a newer
  Ship than the answer that then replaces it.

Daily pages (`web-frontend.md` sections 3.3 and 3.4):

* Completing or deleting under the Pending filter invalidates that filter's key
  only (`useDailyCompletion.ts:209`): the unfiltered list and the Dashboard show the
  Daily as pending while their copy counts as fresh, for 30 seconds (`owed`).
* A change of filter while a completion that will fail is under way leaves the
  mark in the list that was left: `filters` is that of the latest render (`tangled`).
* Retry on a failed row is not disabled: pressed twice, with both failing, it
  restores the optimistic mark. An `already` answer's refetch is cancelled by the
  next completion. A completion and a deletion of one Daily that overlap may put
  the deleted row back.
* A first load that an invalidation joins accepts the older answer as fresh.
* The edit page's query is never invalidated: reopened within 30 seconds of a save
  it shows, and saves, the old values. `dailyRequestBody` leaves an empty
  description out, so that it cannot be cleared.
* The answer to a deletion closes whatever dialog is open, another Daily's too, and
  an error shows there. A save that ends after its page was left does not refetch
  the list, yet is announced.

Expedition pages:

* `submitLaunch` refetches because "a stale guess must never be trusted"
  (`LaunchForm.tsx:138-139`), but `refetchQueries` swallows failures and
  cancellations, after which the stale guess decides. A second click during the
  revalidation is not held back, and both are sent; expedition-service refuses one.
* The amount is debounced: a launch within 250 ms of typing invests the amount
  before, and a placeholder quote enables the button.
* `ExpeditionOverview.tsx:56-58` keeps the record of the flight "so the result is
  shown". `ResultPanel` renders nothing if the detail it finds in the cache, fresh for
  30 seconds, still flies, and nothing polls it (`ResultPanel.tsx:107-110`). From one
  flight directly to the next, no result is shown.
* The celebration may be repeated or never play, where `useCelebration.ts:15` has
  it play exactly once. The Dashboard's panel does not poll.

Histories:

* `manager.go:193-198` promises a history without duplicates or omissions, which
  `NewestFirstAndOnce` and `NothingSkipped` confirm for Dailies. Expeditions are
  paged by offset (`expeditionApi.ts:101-107`): one launched between two pages makes
  a row appear twice. The property is stated for the time in which none was.
* Retry after a reload that failed with no next page clears the error and reads
  nothing, and a failed reload is shown as "Could not load more".

Supervisor (`scripts/dev.mjs`):

* It "cleans them up on interruption" (12-13). What npm runs under it is cleaned up
  only while npm lives: its exit drops the entry (241), and without it no SIGKILL
  (263). A Vite that ignores SIGTERM, or whose npm has ended, may stay behind, and if
  npm ended before the pid file was written `--down` does not find it.
  `NoneSurvivesTheStop` and `LivingAreRecorded` exclude exactly these (`orphaned`).
* An interruption during start-up does not end it. A health check that had answered
  lets the next children start although the stop is over; if their own check then
  times out, `main` prints the error (545-548) and they stay (`EndsClean` excludes them
  by `afterStop`). If it succeeds, `dev` stops them itself.
* An exit during start-up is announced as "Shutting the stack down." (246), but
  nothing awaits it until the last health check. If that times out, the error is
  printed, the others go on, and no pid file is there to find them by.
* A stop by `--down` is reported as the failure of a child: the supervisor hears of an
  exit that it did not ask for.
* The pid file stays after an ordinary stop, and a supervisor that is killed
  before it has written the file leaves children that `--down` cannot find.
  `LivingAreRecorded` is stated from when the stack is ready.

## 7. Not modelled

* HTTP adapters, validation messages, OpenAPI contracts and their generated
  clients, request mocks, forms, dialogs, routes and styling: sequential, or
  without state that two actors share, and covered by their tests.
* `pkg/dailytime`: its hard part is the zone tables and Go's calendar, which a
  model would have to invent. A day is constant in `DailyLifecycle`.
* Accounts: signup and deletion are transactions of the shape `EventDelivery`
  has. A signup whose session cannot be issued leaves an account that can log in.
* Token signing and the JWKS cache: cryptography behind one mutex; no key is
  replaced by the code.
* The transactions inside `Rotate` and `Logout`, but for what a revocation may miss
  (`Revoke`): two reuses of different used tokens of a family deadlock, PostgreSQL
  aborts one, and the client sees an unavailable service, which `SessionManager`
  allows.
* `ShipMirror` and `Expedition` together: the balance test of a launch, and the
  arithmetic of chances and rewards, are choices. No compensation exists whose
  correctness could be stated.
* `Subscriber.Shutdown` and the start-up of a service: crashes are modelled
  instead. `PurgeOld` of `processed_events`: nothing calls it.
* In the client: a Player whose Ship is still being provisioned, fetches paused
  offline, quotes as such, the celebration, the observation of rewards after a
  result, the edit page's query. `DailyBoard`'s run has the Dashboard's list but
  not its panel, which shares the unfiltered list.

## 8. What could follow

1. `ExpeditionSaga`: `ShipMirror` with `Expedition`, if launches that are never paid
   for are to be compensated.
2. The transactions of `Rotate` and `Logout`, with row locks and deadlocks.
