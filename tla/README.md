# TLA+ specifications of iot-ingestion-dispatch

These modules model the parts of the service whose correctness depends on
interleavings, failures and time, the TLC configurations that check them on
small instances, and TLAPS proofs of their safety properties for every size of
the system. Definitions are translated from the Go, SQL and Lua code;
`PROJECT.json` maps each one to its lines.

## 1. The system

| Part | State | Operations | What is hard |
|---|---|---|---|
| Kafka consumer (`internal/ingestion`: `consumer.go`, `worker.go`, `retry.go`, `router.go`) | workers map, one bounded queue and goroutine per partition, shared handler slots, fatal error | `Run`/`dispatch`, `onAssigned`/`onRevoked`/`onLost`, `processBatch`, `commit`, `stop`, `Close` | rebalances, sessions that expire, handlers that ignore cancellation, commits in flight, panics, back pressure, crashes |
| Meter pipeline (`meter_handler.go`, `telemetry_writer.go`, `latest.go`, Lua script) | `meter_readings`, `storage_asset_readings`, the latest key in Redis | insert or verify a replay, compare-and-set of the latest key | at-least-once delivery, lost answers, one of two stores failing |
| Heartbeat pipeline (`heartbeat_handler.go`, `heartbeat_writer.go`, `heartbeat.go`, Lua script) | `houses.last_heartbeat_at`, asset tables, status keys with a TTL, grid memberships | touch the house, apply assets, write the status | delayed and concurrent handlers, expiry |
| Decoder and limits (`decoder.go`, `options.go`) | - | decode and validate a record, check its size and key | the rules must be as strict as the tables' constraints; limits that depend on the clock |
| Failure ledger (`failures.go`, `failure_ops.go`, `cmd/failure-replay`) | `ingestion_failures` | record by coordinates and stage, replay under a row lock, note, resolve, discard | replay beside redelivery, against the grids and the clock of a later time |
| Rebuild (`internal/rebuild`, `cmd/redis-rebuild`) | - | read Postgres, write Redis | runs beside live ingestion |
| House registry (`house_registry.go`, `cmd/register-houses`) | `houses` | validate a file, one transaction per house, report | registration beside heartbeats and other commands, interruption, lost answers |
| DEWA registration (`internal/registration`, its gRPC handler) | `meter_registrations`, in-memory poll loops | claim, reverify, poll, activate | concurrent calls, lost answers, cancelled contexts, restarts |
| Admission (`internal/admission`) | immutable grid snapshot | bootstrap, refresh, lookup | failing loads, an emptied table |
| Application (`internal/app`, servers in `internal/transport`) | component goroutines, readiness, open stores | `New`, `Run`, `shutdown` | signals and failures at any point, deadlines, order of closing |
| Query service (`internal/query`, `house_reader.go`, `energy_reader.go`, the IoT gRPC handler) | page token held by the client | list and get houses, latest reading, energy series and summary, with an owner scope | pages and statements that see different states of the tables; integration with gaps, ties and range ends |
| Configuration, observability, migrations | - | - | not modelled, see section 8 |

The consumer calls a topic handler per record; a handler writes Postgres, then
Redis. A handler that fails for good, or too often, makes the worker record the
failure in Postgres and commit; a failure that cannot be recorded stops the
consumer. `failure-replay` runs the same handlers outside the consumer, and
`redis-rebuild` copies Postgres to Redis beside both. `App` starts and stops
all of it.

What makes the parts correct:

- consumer: no offset is committed past an unfinished record; records of a
  partition are handled in order; one worker works on a partition; slots do not
  leak; rebalances and shutdown are never blocked for good; every record is
  finished in the end;
- meter pipeline: stored readings never change; an acknowledged reading is
  stored or flagged; Redis never runs ahead of Postgres and never goes back;
- heartbeats: liveness is monotone in Postgres; a living house is online, and
  is so again after a rebuild unless it is in the last second of its window; a
  house is listed only under its own identity;
- registration: only what DEWA approved is approved and activated, for its own
  meter and user unless a reverification named others; owners do not move; a
  polled claim is decided;
- assets: a heartbeat is applied whole or not at all; the capabilities stored are
  the last ones reported; a conflict is a real one; two heartbeats that lock the
  same rows both end;
- intake: what the decoders accept fits the tables; a stored heartbeat has its house
  and grid in the tables; a grid that nobody has in a table or a copy of it stays
  out; a record that was passed is stored, or an unresolved failure, or discarded by
  somebody; no record blocks its partition; `register-houses` reports the truth;
- queries: a listing is exact over all its pages; a house is shown only to the
  one who owns it; every second of a range is counted once;
- lifecycle: ready means ingesting; the last good snapshot is kept and follows
  the table; stores are closed after everything shutdown waits for; the process
  ends.

The hazards behind these are listed, line by line, in `PROJECT.json`.

## 2. Modules

| Module | Models | Run module |
|---|---|---|
| `Consumer` | one process's consumer, the group as franz-go shows it, other members, crash and restart | `MCConsumer` |
| `AtLeastOnce` | what the consumer promises: records finished in order, offsets only over finished records | - |
| `ConsumerProofs` | proofs about `Consumer`, the refinement of `AtLeastOnce` among them | - |
| `MeterPipeline` | meter readings of one house: handlers, ledger, replay, Redis loss, rebuild | `MCMeterPipeline` |
| `MeterProofs` | proofs about `MeterPipeline` | - |
| `HeartbeatLiveness` | heartbeats, expiry, registration of houses, rebuild | `MCHeartbeatLiveness` |
| `HeartbeatProofs` | proofs about `HeartbeatLiveness` | - |
| `HeartbeatAssets` | the transaction of a heartbeat over the house row and the asset tables, with its locks | `MCHeartbeatAssets` |
| `AssetsProofs` | proofs about `HeartbeatAssets` | - |
| `Decoder` | the field rules of both decoders, size and key limits, the constraints of the tables (pure) | - |
| `Intake` | who is known and what gets in: grids, `register-houses`, the handlers' checks, the ledger, `failure-replay`; extends `Decoder` | `MCIntake` |
| `IntakeProofs` | proofs about `Intake` and `Decoder` | - |
| `Energy` | the arithmetic of the energy queries (pure) | - |
| `Query` | the five read calls beside writers; extends `Energy` | `MCQuery` |
| `QueryProofs` | proofs about `Query` and the sums of `Energy` | - |
| `Registration` | claims, reverifications, poll loops, DEWA | `MCRegistration` |
| `RegistrationProofs` | proofs about `Registration` | - |
| `AppLifecycle` | `New`, `Run`, `shutdown`, servers, admission registry and refresher | `MCAppLifecycle` |
| `LifecycleProofs` | proofs about `AppLifecycle` | - |

The modules meet at their boundaries. `Consumer` leaves handlers
nondeterministic (ok, transient, permanent, panic, never returning).
`MeterPipeline` and `HeartbeatLiveness` take from it that any record may be
delivered again at any time and that two handlers may run at once: an abandoned
worker and its successor, or a replay. `HeartbeatAssets` refines the one step in
which `HeartbeatLiveness` commits to Postgres; `Intake` has in front of both the
checks that decide which records reach them. `AppLifecycle` sees the consumer
only as `Run` and `Close`, which may or may not return.

An invariant named `...Inv` or `...Sound` is a conjunction of parts that are
defined, and explained, just above it; in each module one of them contains
`TypeOK`.

Definitions named `Bug...` are mutants: each is a plausible mistake in the
definition it stands beside. No specification uses one; replacing the original
by it must make TLC report the property it is listed with in `PROJECT.json`.

### Consumer

A record is a pair of partition and offset, a batch an interval of offsets. `pc`
is where a worker's goroutine is: `idle` (in `run`'s select), `slot` (waiting
for a handler slot), `handle`, `backoff` and `record` (inside `handleRecord`),
`checked` and `sent` (inside `commit`, after the abandoned check and after the
request has left), `exited`. `quit`, `cancelled` and `abandoned` are the quit
channel, the context and the flag; `stop` is the state of the `stop` call that
waits for the worker. `worker` is `Consumer.workers`; `fetch` what the poll loop
holds; `target` the enqueue in progress. `committed`, `owner` and `fenced`
belong to the broker. `finished` is a history variable: records handled, or
whose failure was recorded. A commit in flight is applied if its generation is
current when the broker gets it (`fresh`); a crash drops all local state.

Steps of one goroutine that touch no shared state are merged. The check of the
abandoned flag, the sending of the commit and its effect at the broker are
separate steps, as are the two selects of `enqueue`, because others act in
between.

`AtLeastOnce` is the consumer without workers, queues and generations: a record is
finished (`done`) only after those before it, and `offset` moves, forward or
back, only to points below which everything is done. `Consumer` implements it
with `done <- finished` and `offset <- committed` (`ImplementsAtLeastOnce`).

### MeterPipeline

A reading is `[t, seq, val, assets]`; `t` in microseconds, `val` stands for all
other persisted values. `CommitInsert` is the whole transaction, with the replay
check (`Identical`) and the unique keys (`AssetTaken`). `ledger` maps a reading
and a stage to its resolution. `StartReplay`, `Resolve` and `Discard` are
`failure-replay`; `Locked` is the row lock held across the handler. A failing
store call may have been applied or not. Postgres orders rows by microseconds and
then seq (`After`), Redis by milliseconds and then seq (`Newer`); both orders are
in the model, so within one millisecond they may disagree, and `RebuildRestores`
says what a rebuild then leaves: a row that Redis would prefer to the one restored
(`Covers` fails) shares its millisecond with a later row that is covered
(`Outranked`). `Topics` are the sets of readings a behaviour may be about.

### HeartbeatLiveness

The clock counts ticks, `Second` of them in a second. Postgres keeps ticks; what
Redis is given is whole seconds: `RestoreHeartbeat` leaves out a house with less
than a second of its window left (`Restorable`) and the TTL it gives is cut to
seconds. A status key is the heartbeat it shows and the time it expires. `Deliver`
fixes `receivedAt` per attempt, so delays between the two stores' writes are
possible. The rebuild takes the time once and reads house rows before it writes keys
one by one.

### HeartbeatAssets

A transaction (`tx`) goes through the statements of `ApplyHeartbeat`: it touches
the house, loads registered and then discovered assets `FOR UPDATE`, compares
each entry, updates or inserts, commits. Postgres at READ COMMITTED is external:
a statement sees what is committed when it starts, row locks are taken one by
one in any scan order (`Scans`), a cycle of waiting transactions is broken by
aborting one, an `INSERT ... ON CONFLICT DO NOTHING` waits for an uncommitted row
of the same key. Writes are buffered in `tx` and applied at commit. The registry
may be given a row for an asset at any time, by whoever owns it.

### Decoder and Intake

IDs are records of what the rules look at (length, characters, the house in a meter
ID); a body is the parsed JSON with `None` for a missing field. `RowsFit` is written
from the migrations alone, so that `AcceptedFits` compares two independent texts.
`Intake` runs one partition's worker and one `failure-replay` (`job`) through check,
store and cache. `grids` is the table, to which operators add (`Provision`) and from
which they remove a grid that no house refers to (`Retire`; the foreign key refuses
any other). `loaded` is what a refresh has read and not yet published, `snapshot`
the service's registry, `cmd` what `failure-replay` read at its start; each of the
three may lack a grid that was added or still have one that was removed. The ledger
is keyed by offset and stage; the upsert leaves the resolution as it is. A scenario
(`Scenarios`) fixes the records, the `register-houses` files and the bounds of a
behaviour; it puts one kind of soundness or breakage at a time in front of the whole
machine.

### Query and Energy

`Energy` has the SQL's window function, clipping and bucketing, next to
`Reference`, which goes through a range second by second. In `Query` a behaviour
has one call, because the service keeps nothing between calls; a listing is all
its pages. Each statement is a step, tables change in between, and the call
carries as history what its filter selected all along (`always`) and at some
time (`ever`). Houses are numbered in the order of their IDs. There are two
worlds: several houses and the house calls, or one house with readings and the
energy calls.

### Registration

`row` is `meter_registrations`, `dewa` the link requests as DEWA knows them, each
with the meter and the user it names, one `loop` per request. A reverification takes
meter and user from its caller, and nothing compares them with the row: `Vouched` is
an approval of the row's own pair, `Misnamed` one of another pair that a
reverification of the row asked for, and `Cleared` is either. A call saves, links
and starts a loop in separate steps; answers may be lost, answers may lack the
request ID. `bound` marks loops whose context is cancelled by the goroutine that
started them.

### AppLifecycle

`main` is the next step of the main goroutine through `New`, `Run` and `shutdown`.
`part` are the goroutines that report to `errorChannel`. A load of the grid table
and its publication are separate steps; the table may change in between. A table may
hold an empty grid ID (`EmptyID`), which makes the whole load fail (`Valid`, from
`toGridMap`). `handlers` says whether handlers run that the consumer waits for
(`owned`) and whether some run that it has given up (`abandoned`): `Close` returns
without the second kind. `users` hold connections of the pool, for which closing it
waits.

## 3. Runs that pass

Sizes are the distinct states TLC reports; each run takes between twenty seconds
and four minutes with two workers.

| Run | Instance | Shows |
|---|---|---|
| `consumer` | fair; 1 partition, 2 workers, 2 records, 1 try, 2 faults (575k states) | `TypeOK`, `CommittedFinished`, `HandledInOrder`, `SlotsAccounted`, `OneWorkerPerPartition`, `CommitOnlyByOwner`, `ImplementsAtLeastOnce`, `EveryRecordFinished` |
| `consumer_stuck` | handlers may never return; 3 records in batches of 1, so the queue fills; 2 tries (117k) | `CallbackAlwaysReturns`, `RunAlwaysReturns` |
| `meter` | both cache policies; a topic with conflicting payloads of one identity and a newer reading with a lower seq, and one with two readings of one millisecond in opposite orders of time and seq; 2 handlers, 2 faults under `required` and 1 under `async-repair` (1.3M) | `LatestInv` (Redis never ahead of Postgres), `AckedDurable`, `CurrentOrFlagged`, `RebuildRestores`, `HistoryImmutable`, `LatestNeverRegresses` |
| `heartbeat` | 1 house, 2 identities, 2 handlers, ticks of half a second, TTL of 4 ticks, clock to 5, one rebuild, 1 fault (4.0M) | `StatusInv` (a status is never ahead of Postgres, memberships only of registered identities), `OnlineWhileAlive`, `RebuildRestoresAlive` |
| `assets` | fair; 2 houses, 2 assets, 2 handlers, 2 tries, 2 heartbeats after one that was applied, one registration, 1 fault (301k) | `AppliedInv` (a heartbeat is applied whole or not at all), `CapabilitiesCurrent`, `ConflictIsReal`, `EveryHeartbeatEnds` |
| `intake` | fair; scenarios of sound and broken records, grids that come and go, 2 tries, skew of 1 in both directions, 2 `register-houses` commands at once (228k) | `GateInv` (what is accepted fits the tables; a stored heartbeat has its house and grid), `AckedVisible`, `RegistrationInv`, `UnknownStaysOut`, `NothingBlocks` |
| `query` | fair; 3 houses on 2 grids, 2 users, pages of at most 2, 1 change of ownership, 1 fault; or 1 house, 5 readings, readings that last at most 2 s, ranges of up to 8 s, widths 2 and 3, 2 buckets (329k) | `ListingInv`, `ScopeKept`, `SummarySound`, `SeriesSound`, `CallsEnd` |
| `registration` | fair; 2 registrations, 2 meters, 1 user, 2 requests, 2 calls, 1 reverification, 1 fault (870k) | `ClaimInv` (approved and activated only if DEWA approved this meter and user, or another pair that a reverification named; saved), `OwnerNeverMoves`, `ClaimDecided` |
| `lifecycle` | fair; 3 grid IDs, the empty one among them, 1 edit, 1 call, workers as users of the pool, 1 fault (493k) | `StoresInv` (calls see open stores, and so do handlers that were not abandoned, up to the deadline), `ReadyMeansIngesting`, `StopsAlways`, `SnapshotConverges` |

Why the bounds are enough for the cases in question: two workers give an old and a
new generation of one partition, and a third assignment must reuse an identity; two
records give a finished prefix and an unfinished rest of a batch; with one try a
failure is recorded at once, and retries take no part in this run: they do in
`consumer_stuck`, `meter`, `heartbeat`, `assets` and `intake`, where two tries give
one retry and one exhaustion, and the theorems cover any number; two faults combine,
for instance, a lost session with a failed commit. Three batches of one are needed
to fill the queue, the worker and the enqueue. Several partitions that compete for
the slots need no run of their own: the theorems of section 6 cover any number of
them. Two handlers are all that can meet on one reading or house in practice (a
worker and an abandoned one or a replay). The readings of `meter` lie in the
lookback window of the rebuild. Half seconds are the coarsest clock on which a house
can be in the last second of its window. In `registration` a second meter is enough
for a reverification to name another pair than its row's. An edit adds or removes
one grid; a table that starts with one grid can so become empty, or have the empty
ID added. In `assets` two payloads that list two assets in both orders, from two
handlers, give the deadlock; two houses give the conflict and the lost insert. In
`intake` each rule of the decoders is broken by some record, and each record is
followed through storing, recording, replay, redelivery and discarding. The readings
of `query` have a gap longer than the cap, two of one instant, some that lie on the
start of a range or are cut off by its end, and assets that charge and discharge;
two pages and a change between them are enough for a house to move behind or ahead
of the token. Without a fault `ClaimDecided` speaks of every polled claim; after one
(a lost update, a restart) the code promises nothing, and the property says so.

Some properties promise less than their names suggest. `CallbackAlwaysReturns` is
about a rebalance callback that has started; franz-go may keep one waiting before it
starts, as long as the poll loop holds a fetch, and the property is silent on that.
`ScopeKept` says that a house shown was the user's at some time while the call was
served: an answer read before a change of ownership and given after it is allowed,
because the code reads without a transaction around the call. `StoresInv` is silent
on handlers that were abandoned and on poll loops of registrations, which shutdown
does not wait for (section 4).

`CHECK_DEADLOCK FALSE` is set everywhere: logs, clocks, calls and faults are
finite, so a behaviour ends when everything has been consumed or the process has
exited.

Symmetry is used only in runs without liveness properties, over workers,
handlers and identities of houses that no definition distinguishes. In `Registration` a new
call, registration ID or link request takes a fixed unused one for the same
reason.

## 4. Where the code and its text disagree

These runs fail, each on one property that says what the text says:

| Run | Text | Code |
|---|---|---|
| `consumer_abandoned` | an abandoned worker must never commit (`worker.go:91`) | the flag is checked before the commit is sent, not with it |
| `heartbeat_rebuild_regress` | rebuild writes are newest-wins (`rebuild.go:49`) | the status write is unconditional |
| `registration_reverify` | polling updates the local record (`docs/runbooks/dewa-registration.md:64`) | the loop's context is cancelled at once |

The first loses no record: `CommittedFinished` holds with it, at the price of
handling records twice. Others are behaviours of the models without a run of
their own:

- under `required` Redis is said to be current when a record is acknowledged
  (`README.md:120`, `options.go:54`, `docs/runbooks/dependency-outage.md:8`), but
  exhausted retries are recorded and committed (`worker.go:272`), which is what
  `CurrentOrFlagged` allows for;
- an identical replay is said to write nothing and to be no error
  (`telemetry_writer.go:47`), but storage rows are compared without the seq
  (`telemetry_writer.go:115`): two readings of one instant with different assets
  are both stored, and from then on a replay of either is refused as a conflict;
- `validate.go:81` allows "at most" `maxBuckets` buckets, but a range whose start
  is not aligned with the buckets of its time zone gives one more
  (`SeriesBounded`);
- `register-houses` "checks every entry before anything is written"
  (`cmd/register-houses/main.go:156`), but not `rated_solar_kw`: a negative value
  passes a dry run, and the table refuses it in the middle of the file. The other
  houses of the file are written and the command reports a failure, so what
  `OnlySoundFiles` promises is that all identities of the file are sound and that a
  house written has a sound rating of its own;
- a meter reading that comes up for the first time, again, or in a replay more than
  24 hours after its event time is refused as a decode failure
  (`decoder.go:31`, `decoder.go:521`; the skew is checked before the replay check,
  `decoder.go:137`), and no later replay can resolve it: the failure can only be
  discarded. So "provision the grid ... then replay" and "replay after Redis is
  healthy" (`docs/runbooks/failure-replay.md:20-24`) work within a day, and a
  Postgres outage of more than a day does lose readings from the tables, though
  "no data is lost" and ingestion "resumes from the last committed offset"
  (`docs/runbooks/dependency-outage.md:7`); their records stay in the ledger;
- a meter reading of a grid that was removed is still stored while the snapshot is
  stale, since `meter_readings` has no foreign key; only heartbeats, which need the
  house row, are kept out (`GateInv`). `failure-replay` checks against "current"
  grids (`cmd/failure-replay/main.go:116`), which are those at the start of the
  command;
- a reverification takes meter and user from its request and compares them with
  nothing (`service.go:148-198`): when DEWA approves another pair, the row is
  approved and the row's own meter is activated. `ClaimInv` names this case
  (`Misnamed`) and shows that it is the only one;
- "closing stops workers gracefully" (`internal/app/shutdown.go:33`) and the stores
  are closed after it, but `Close` returns once its workers have exited or have
  been abandoned (`worker.go:417-424`, `consumer.go:361-367`), and the poll loops of
  registrations run on a background context (`service.go:90-136`): an abandoned
  handler and a poll loop may find the stores closed well before the deadline;
- a rebuild gives no status key to a house in the last second of its window
  (`heartbeat.go:24`) and cuts the time left of the others to whole seconds
  (`heartbeat.go:48`), so a restored house may go offline up to a second early;
- `receivedAt` is the time of the attempt (`heartbeat_handler.go:71`): a heartbeat
  replayed hours later makes its house look alive;
- `net_kw` is not reconciled with the other values, so exported and imported
  energy may differ from the flows to and from the grid in one summary;
- an insert of a discovered asset is only ever lost to another house, since
  heartbeats of one house wait for each other on the house row;
- a revoke that comes while `Close` drains finds the workers map empty and waits
  for nobody, though `onRevoked` should let the current record finish
  (`consumer.go:291`, `consumer.go:363`);
- the second select of `enqueue` may accept a batch for a worker stopped after
  the first one, though "a stopped worker accepts nothing" (`worker.go:340`);
  the batch is never handled;
- the rebuild orders readings by microseconds, the compare-and-set by
  milliseconds, though `rebuild_reader.go:50` says the order is the same: of two
  readings of one millisecond the rebuild may restore the one that Redis would have
  replaced, which is the exception (`Outranked`) in `RebuildRestores`;
- a restored status key may outlive the liveness window by the time the rebuild
  has been running (`heartbeat.go:18`), because the time is taken once at its
  start.

## 5. Fairness

- `Consumer`, `StuckHandlerSpec`: the poll loop, the callbacks, the `stop` calls
  with their timers, `Close` and the process exit make progress. These are
  goroutines that can run, and timers. Nothing is assumed of handlers or of the
  group.
- `Consumer`, `FairSpec`: besides, workers make progress, the coordinator assigns
  free partitions, and another member that owns a partition works. A handler
  returns because its stores have timeouts (statement timeout, Redis timeouts)
  and its context can be cancelled.
- `HeartbeatAssets`, `FairSpec`: a statement is answered when the rows it needs are
  free, and the deadlock detector runs. Deliveries, registrations and faults are
  never forced.
- `Intake`, `FairSpec`: the worker takes the next record, and the worker and a
  replay that holds a row go on, because their stores have timeouts. Operators,
  the clock, migrations and faults are never forced.
- `Query`, `FairSpec`: a call being served goes on (statement timeout, Redis
  timeouts); clients, writers and failures are never forced.
- `Registration`, `FairSpec`: poll loops run and their timeouts fire, the
  deferred cancel runs, DEWA decides. Calls, faults and restarts are never
  forced.
- `AppLifecycle`, `FairSpec`: the main goroutine, the timers and the refresher
  run; queries end (statement timeout or cancelled context); gRPC calls end once
  their contexts are cancelled. `Consumer.Run` and `Consumer.Close` are given no
  fairness.

## 6. Proofs

Each `...Proofs` module proves `Spec => []IInv` for its specification
(`InductiveInvariant`) and from it the safety properties that the runs check, for
every value of the constants that satisfies the module's assumption:

| Module | Theorem | States |
|---|---|---|
| `ConsumerProofs` | `TypeCorrect` | `Spec => []TypeOK` |
| | `OffsetRule` | `Spec => []CommittedFinished` |
| | `InOrder` | `Spec => []HandledInOrder` |
| | `NoSlotLeak` | `Spec => []SlotsAccounted` |
| | `Refinement` | `Spec => ImplementsAtLeastOnce` |
| | `OneWorker` | `Spec => []OneWorkerPerPartition` |
| | `OwnerCommits` | `Spec => CommitOnlyByOwner` |
| `MeterProofs` | `LatestSound` | `Spec => []LatestInv` |
| | `DurableAcks` | `Spec => []AckedDurable` |
| | `CurrentSound` | `Spec => []CurrentOrFlagged` |
| | `ImmutableHistory` | `Spec => HistoryImmutable` |
| | `LatestForward` | `Spec => LatestNeverRegresses` |
| | `RebuildSound` | `Spec => []RebuildRestores` |
| `HeartbeatProofs` | `StatusSound` | `Spec => []StatusInv` |
| | `OnlineSound` | `Spec => []OnlineWhileAlive` |
| | `RebuildSound` | `Spec => []RebuildRestoresAlive` |
| `AssetsProofs` | `AppliedSound` | `Spec => []AppliedInv` |
| | `CapabilitiesSound` | `Spec => []CapabilitiesCurrent` |
| | `ConflictSound` | `Spec => []ConflictIsReal` |
| `IntakeProofs` | `DecodedFits` | `Decodes(rec, t)` implies `RowsFit(rec)` for any record and time |
| | `GateSound` | `Spec => []GateInv` |
| | `NothingLost` | `Spec => []AckedVisible` |
| | `RegistrationSound` | `Spec => []RegistrationInv` |
| | `UnknownOut` | `Spec => UnknownStaysOut` |
| `QueryProofs` | `ListingSound` | `Spec => []ListingInv` |
| | `ScopeSound` | `Spec => []ScopeKept` |
| | `SummaryExact` | `Spec => []SummarySound` |
| | `SeriesExact` | `Spec => []SeriesSound` |
| `RegistrationProofs` | `ClaimsSound` | `Spec => []ClaimInv` |
| | `OwnerFixed` | `Spec => OwnerNeverMoves` |
| `LifecycleProofs` | `StoresSound` | `Spec => []StoresInv` |
| | `ReadySound` | `Spec => []ReadyMeansIngesting` |

The fair specifications of the runs imply `Spec`, so the theorems hold of them as
well.

### Assumptions

The assumptions stand in the modules that declare the constants, and TLC evaluates
them in every run. They are: limits and budgets are numbers (`MaxTries` is from 1 to
10, which is what the configuration accepts); `None` is none of the values it is
told apart from; the workers of the consumer and the handlers and assets of
`HeartbeatAssets` are finite sets; a heartbeat lists an asset once
(`checkDuplicateAssetIDs`); a scenario of `Intake` has sequences for its log and its
files, and begins with a grid table that is not empty (a bootstrap refuses an empty
one) and has the grid of every house (the foreign key of `houses`); the TTL of a
status key is a whole number of seconds; the default page is at most the largest
(`validate.go:13`), and houses of `Query` are finitely many numbers above 0, the
empty token. The readings of a world of `Query` are what the tables accept
(`WellFormed`): finitely many, each with finitely many assets, and with a solar
power and a consumption that are not negative, which are `CHECK`s of
`meter_readings` (`00002_initial_iot_schema.sql:73-74`); the net power and the power
of an asset may have either sign. The ends, offset and width of a request are
numbers, or missing. Nothing is assumed of how these fit together: readings may
share an instant, leave gaps or contradict their net power, and ranges, widths and
offsets may be refused.

### The inductive invariants

None of the properties is inductive as it stands. What each needs:

**Consumer.** That a commit covers finished records only follows from where the
batch came from. The chain is

    committed offset -> records in hand -> queue -> fetch

and `ChainInv` says that it has no gap for a worker that runs and was not asked
to stop: what it has finished reaches up to its batch (`Tip`), the queued
batches continue each other (`Contiguous`), and the next fetch continues them
(`Continues`). A worker that was stopped may miss a batch, but takes no further
one. For the chain to survive a reassignment, `MapInv` says that such a worker
is the one in the map, and that partitions in the map are assigned; `LoopInv`
that an enqueue in progress is aimed at the worker in the map or at one taken
out of it; `BatchBounds` that the record in hand is inside its batch.
`HandledInOrder` then gives what a commit needs.

Everything a worker does while it holds a slot is shown to be a `HoldStep` first,
and one set of lemmas (`HoldType`, `HoldSlots`, `HoldChain`, ...) covers all of
these; each remaining action has a lemma of its own. The slot count rests on
cardinality facts about adding and removing one worker (`HeldMore`, `HeldFewer`).

`Refinement` shows that a step that finishes a record or moves an offset is a step
of `AtLeastOnce` with the same effect, and that every other step leaves both
alone. `OneWorker` and `OwnerCommits` rest on a second invariant, `HandoverInv`
(theorem `HandoverSound`): before Close, a goroutine that runs and was not
abandoned is the one in the map or one that a callback waits for, and the
partitions of those the callback waits for have no other worker and stay with the
member, unless its session is lost, until the callback returns.

**MeterPipeline.** A handler reaches the cache write only with its reading stored,
and marks a failure replayed only with Redis current (`JobInv`, `LedgerInv`); rows
have one identity each (`HistoryInv`); a rebuild in progress holds a stored row that
none it has seen is after (`RebuildInv`). It is the last one in the order of the
database; a row that only Redis's order puts after it is of the same millisecond,
hence `Outranked` by it. That "not newer" is transitive (`NotNewerTrans`) and that
the Lua script covers what it is given (`SetLatestEffect`) are the lemmas the rest
is built on.

**HeartbeatLiveness.** Postgres only moves forward (`Advances`), so what a handler
or the rebuild has read stays a lower bound (`JobSound`, `RowSound`). The end of a
status key covers the window of the latest heartbeat accepted (`KeptFor`), and
rows that the rebuild is done with are restored (`Restored`) until the key ends. The
end of a restored key lies less than `Second` before the end of the window, which is
what cutting a time to whole seconds costs.

**HeartbeatAssets.** `TxSound` describes a transaction at any of its statements: it
holds the locks on what it read and will write (`Locked`), what it read is still
so (`Current`), the entries it is done with will be in the tables as they say
(`EntriesDone`), and it writes nothing but its own entries (`WritesOwn`). A commit
then puts the whole heartbeat into the tables. That attempts stay within the
budget is a count: the clock, the attempts left to open transactions
(`Cardinality(Left)`) and those of heartbeats to come never grow together.

**Intake.** The invariant has a part about records (the worker's record is the one
at the committed offset, a replay holds an unresolved row, what is past the checks
fits the tables) and one about `register-houses` (what a command has not got to
yet, and, until a house fails, that all it has dealt with is registered). The two
share no variable that both write, so each action is shown for one and framed for
the other. `GridsOK` is the foreign key, that a registered house has its grid in the
table, and that what is in a snapshot, a refresh or a command is known.
`UnknownOut` holds because whatever becomes known comes from the table: a step that
stores a record has admitted it before, and one that admits it does so from a copy.
That the least entry of a set exists is proved with the well-founded
order of strict inclusion (`MinFacts`), since induction over numbers is out of
reach.

**Query.** Up to its token a listing has what its filter selected all along, once
and in order, and the page in hand continues it up to the next token (`ListInv`);
a call on one house reads data only of a house that was selected (`HouseInv`). The
history of a call grows with every change of the tables (`ChangedInv`). What a page
holds comes from `RankFacts`: ranks in a finite set are exactly the numbers up to
its size, because an injection between sets of one size is onto.

For the energy calls there is a second invariant, `EnergyInv` (theorem
`EnergyInvariant`): a call past its check has an acceptable request, and a summary
between its two statements has the sums of readings that are still in the table, so
that the peak of the second statement covers them. What is left is arithmetic over
sets of readings of any size:

- *Finite sums.* A sum is a fold, which takes its elements in an order nobody knows.
  `TotalAny` shows that any element may be taken first. Every fact about sums
  (`TotalPlus`, `TotalLe`, `TotalTimes`, `TotalExchange`, ...) then goes by
  induction over the subsets of a finite set. The library's induction theorems
  cannot be instantiated here, so `SubsetInduction` says it of a set of subsets and
  not of a predicate, and follows from a smallest subset that is left out: strict
  inclusion is well-founded.
- *Second by second.* A second in which a reading is in force is one of the seconds
  of its duration, and there are as many as its duration says (`SecondsInForce`).
  `Reference` sums over seconds and then over the readings in force, `Sums` over
  readings: `TotalExchange` swaps rows and columns of that table
  (`SumsArePiecewise`). Ties, gaps longer than `MaxReadingSeconds` and both ends of
  the range are in `DurationFacts`.
- *Flows.* In each reading generation, consumption, charge and discharge are split
  into flows that are not negative (`RatesFacts`), and `SplitInTwo` and
  `SplitInThree` carry that to the sums (`SumsBalance`).
- *Buckets.* The buckets of a series partition the readings, so their sums add up to
  the whole (`BucketsAddUp`, again by exchange); an average is not above the largest
  of its terms (`AverageBelowHighest`); and a range reaches into at most one slot
  more than it needs (`SlotFacts`, `BucketsBounded`), for negative times and offsets
  too.

**Registration.** A claim that has not saved has its registration to itself, one
that has saved finds its row, and the approval that a poll loop carries is DEWA's
(`CallInv`, `LoopInv`). A request of a claim asks for the row's pair, so its approval
is `Vouched`; one of a reverification that asks for another is `Misnamed`
(`ApprovalClears`), and neither is ever withdrawn (`ClearedKept`). Rows and requests
only gain (`RowsKept`, `RequestsKept`).

**AppLifecycle.** `PhaseInv` says for each phase of `main` what has been started,
what is open and what has been waited for; `ServingInv` ties calls and readiness to
those phases, and `HandlerInv` says that handlers the consumer still has keep `Close`
from returning, so that `main` is not past waiting for it before the deadline.

Each inductive invariant was also checked with TLC on its run's instance (those of
`HeartbeatAssets` and `Intake` without their type conjuncts, whose sets TLC cannot
enumerate in reasonable time).

### Only model-checked

- All liveness properties (`EveryRecordFinished`, `CallbackAlwaysReturns`,
  `RunAlwaysReturns`, `EveryHeartbeatEnds`, `NothingBlocks`, `CallsEnd`,
  `ClaimDecided`, `StopsAlways`, `SnapshotConverges`): fairness and `ENABLED` are
  out of the prover's reach.
- The three properties of section 4, which do not hold.

## 7. Plan

Done: the modules above, in the order consumer, meter, heartbeat, registration,
lifecycle, `AtLeastOnce`, `HeartbeatAssets`, `Intake` with `Decoder`, `Query` with
`Energy`; proofs of every safety property that a run shows to hold.
What could follow:

- `HeartbeatLiveness` and `HeartbeatAssets` joined by a refinement: the commit of
   the transaction as the one step in which a heartbeat reaches Postgres.

## 8. Not modelled

- Actuation responses: the handler's store is never wired, so each record ends as
  a handler panic, which `Consumer` covers.
- JSON and protobuf conversion: a record is its parsed fields, an answer its data.
- Floating point: powers and energies are whole numbers; rounding in the queries
  is left out.
- Daylight saving: a time zone is a fixed offset.
- The retention policies, which drop readings and storage rows after six months
  (`00002_initial_iot_schema.sql:87,111`): in `MeterPipeline` and `Query` stored
  readings stay. A reading older than that is long past the skew limit and
  the default window of a rebuild (an hour); a query whose range goes back so far may find fewer readings.
- The listing of failures and the backlog gauge: they only read.
- Paging of the rebuild: one page per kind; pages are independent reads.
- Configuration, logging, metrics, tracing, connection options: nothing depends
  on them that the properties speak of.
- Migrations: run by goose outside the service; the startup check is in
  `AppLifecycle`.
- The consumer-group protocol itself: modelled by what franz-go shows of it
  (callbacks, generations, fencing), as an external part.
