# SecureEdgeVision in TLA+

This directory holds the formal model of SecureEdgeVision: an edge worker that
turns local video into signed, privacy-preserving detection events, and an
aggregator that verifies, de-duplicates and stores them. The modules are
translated from the Python source (paths below are relative to the repository);
`PROJECT.json` maps every definition to the lines it models.

Run a model with `tlc -config <run>.cfg <Module>.tla` and check the proofs of a
component with `tlapm <Module>Proofs.tla`; section 5 lists the eight modules that
hold theorems.

## 1. The system

| Part | Source | State it keeps | Operations | What makes it correct |
|---|---|---|---|---|
| Replay and freshness policy | `secureedge/security.py` | `_seen` (key to expiry), `_latest_accepted_at_utc`, a lock | `accept_verified_event` | no signed event is accepted twice; an ID or nonce is reused only after it expired; the dictionary forgets nothing early and keeps nothing late |
| Ingestion | `secureedge/ingestion.py`, POST handler of `apps/aggregator/api.py` | open session, rows of `detection_events` and `security_alerts` | `ingest`, `_record_rejection` | 202 only for a durable event, 401/409 only with a durable alert, one row per request, nothing unsigned reserves anything |
| Heartbeats on the aggregator | `secureedge/monitoring.py` | `last_seen_at_utc`, `health_status` of a node row | `HeartbeatService.record` | a node's state never goes back, even when heartbeats race; both columns come from one heartbeat |
| Worker run | `secureedge/transport.py`, `secureedge/worker.py`, `apps/worker/main.py` | client, capture, sequence number, the heartbeat lifecycle's thread and flags | `SignedWorkerRunner.run`, `PrivacyWorkerPipeline.run`, `WorkerHeartbeatLifecycle` | everything is released on every exit but for what Ctrl-C broke off the opening or closing of, success means no heartbeat failed, a failed heartbeat stops delivery at once, `degraded` is the last word |
| Frame source, sampling, event assembly | `secureedge/worker.py` | capture, next frame index, next allowed time, IDs and nonces issued | `read`, `_SamplingGate.accept`, `process_frame` | frames are sampled in time order at the configured rate; a file that ends early is told from one that ends; no two events of a pipeline share a name |
| Key generation | `scripts/generate_node_keys.py` | two files, their directory | `generate_node_key_files` | both files or none, never over an existing one, never in a shared directory |
| Aggregator start | `apps/aggregator/main.py`, `secureedge/persistence.py` | schema, `nodes` table | `initialize_database`, `seed_node_registry` | it serves only on the exact schema with the keys it was given; keys are never replaced |
| Request adapter | `apps/aggregator/api.py` | the body being read | `_read_bounded_body`, `_bounded_limit`, handlers | a body is bounded, and parsed only when whole |
| Monitoring reads, alert queries | `secureedge/monitoring.py`, `secureedge/persistence.py` | none | GET handlers | the rows they show are rows that were stored |
| Wire contracts, canonical bytes, signatures | `secureedge/contracts.py`, `canonical.py`, `crypto.py` | none | validation, serialisation, Ed25519 | pure |
| Detector boundary | `secureedge/vision.py` | none | check, filter, clip and normalise the rows of the model | an event shows every row above the threshold where the model saw it, or there is no event |
| Configuration | `secureedge/config.py` | none | load and validate | pure |
| Dashboard, experiment runner | `apps/dashboard`, `apps/experiment_runner` | none | print a message | placeholders |

Of the whole, a reader relies on this: what the aggregator stores of a run is what
the run made, in order and without a gap, up to one event whose answer was lost; an
honest worker sets off no replay alert; the row of a node is its newest heartbeat,
and stays degraded once a run has said so.

Interactions. The worker's main thread reads frames and POSTs events, one
attempt each; its heartbeat thread POSTs heartbeats through the same client. The
aggregator runs POST handlers on its event loop and GET handlers in a thread
pool, all over one SQLAlchemy engine: one connection per session for a file,
one connection for everything for `:memory:`. `ingest` calls the policy between
looking up the node and inserting the row. Startup and the key script touch
the same files as other processes may.

What is hard. The policy reads the clock outside its lock, so callers overtake
one another; it prunes by a clock that may be set back. Its reservations are in
memory while the rows are on disk, so a failed write or a restart leaves them
apart. Heartbeats arrive in any order and race for SQLite's one write lock. The
worker has two threads, nested context managers that may raise on the way in and
out, and Ctrl-C. Several starts or key generations may run at once, and any of
them may die between two steps. `PROJECT.json` lists each hazard at its line with
the properties that cover it.

## 2. Modules

| Module | Models | Extends / instances |
|---|---|---|
| `ReplayPromise` | abstract policy: remembers every acceptance, has no dictionary | |
| `ReplayFreshnessPolicy` | the policy as coded, any number of callers | instances `ReplayPromise` |
| `Ingestion` | `ingest` with sessions, connections, readers, restart | extends `ReplayFreshnessPolicy`: each request is a caller |
| `NodeRegister` | abstract heartbeats: a register per node that only advances | |
| `HeartbeatService` | `record` with the conditional UPDATE and the write lock | instances `NodeRegister` |
| `Worker` | a run, its heartbeat thread, Ctrl-C | |
| `KeyGeneration` | concurrent invocations of the script | |
| `NodeRegistry` | abstract registry: a batch of keys is registered whole or refused | |
| `AggregatorStartup` | concurrent and successive starts | instances `NodeRegistry` |
| `RequestBody` | the bounded body and the decimal comparisons | |
| `SmallFloats` | floats of a few bits that round half to even | |
| `DetectionResults` | the detector boundary | extends `SmallFloats` |
| `FramePipeline` | frame source, sampling gate and event assembly | extends `DetectionResults` |
| `DeliveryLog` | abstract delivery: the next event of a run is stored once, and counted once it is stored | |
| `EdgeSystem` | worker, network and aggregator together, with restarts of both | instances `DeliveryLog` |
| `HeartbeatServiceProofs`, `WorkerProofs`, `KeyGenerationProofs`, `AggregatorStartupProofs`, `RequestBodyProofs`, `FramePipelineProofs`, `EdgeSystemProofs` | theorems about the module of that name | each extends its module |
| `IngestionProofs` | theorems about `ReplayFreshnessPolicy`, and with their lemmas about `Ingestion` | extends `Ingestion` |
| `MC*` | constants of the instances that TLC checks | |

Each step of a model is the code between two points where another actor can
act or be observed: a lock, a statement sent to SQLite, a file-system call, a
request, a wait. An operator under a comment that begins with "Mutant" states a plausible bug in the
definition after it; no specification uses it. It shows that a property can tell
the code from that bug.

### ReplayFreshnessPolicy
`clock` is what the injected clock would return; `MoveClock` moves it to any
instant, back only if `ClockMayStepBack`. `Stamp` is the code before the lock
(lines 141-189): the event is judged on one reading, kept in `pending`.
`Accept` and `RefuseInLock` are the locked part (191-212). Pruning is published
only by an acceptance, as in the code. `MinInstant..MaxInstant` is the range of
`datetime`; arithmetic outside it is the `OverflowError` that the code turns
into a configuration error, in the order in which the code meets it.
`log` and `setBack` are history. Validation of the event is not modelled: a call
starts with a valid one.

`ReplayPromise` has neither dictionary nor high-water mark: `Present` judges a
call, and `Accept`, `RefuseReplay` and `RefuseClock` decide it by the whole log. Both
modules name the calls `pending`, so the refinement relates the same call on both
sides: a refusal is matched by a refusal of that event at that reading.

### Ingestion
A request passes from `new` through `policy`, `row` or `alert` (what is to be
inserted), `commit_row` or `commit_alert` (flushed), `close` and `done`. `dirty`
is the open transaction of each connection, `durable` the committed rows. A
COMMIT that raises may or may not have taken effect; `rollback` and `close` may
raise, which turns the answer into 503. `OneAtATime` says that the async POST
handler does not await inside `ingest`, so that requests run one after another
on the event loop; without it they interleave, as they do when callers of the
class are threads. It only strengthens guards, so a safety property that holds
without it holds with it: `ingestion` checks the weaker assumption, and
`ingestion_memory` needs only the stronger. `Readers`
close sessions at any time, which matters on a shared connection. `Restart`
empties the policy and keeps the rows. Signatures are abstracted to the
comparison of the signer with the registered key.

### HeartbeatService
`Update` evaluates the WHERE clause under the write lock (`writer`) and `Commit`
stores and releases it; the row a reader sees is the committed one. The reading
of the clock is any instant, because it is compared with the heartbeat only.

`NodeRegister` has no lock, no transaction and no columns: a heartbeat that is newer
takes effect at one instant, one that is not is refused for that reason. `Register`
maps a row to the heartbeat it shows, a request to the heartbeat it carries and its
client's answer to the verdict. The instant is the COMMIT; an UPDATE that matched no
row refuses at once; no other write is then open, so the row it saw is the register.

### Worker
`main` is the position of the main thread and `Unwind` the with statement an
exception reaches next: the order of entry is transport, source, lifecycle.
`thread` is the heartbeat thread: its first clock reading (outside its `try`), its
wait, its send. Every call may raise, also the join (`JoinFails`, which records the
failure and leaves the thread as it is), and a POST may be taken with its answer lost.
`Interrupt` is a Ctrl-C in any step of the main thread, any number of times. The code
catches `Exception` only, so a Ctrl-C leaves a step half done (`MayBe`): a request
that it breaks off may have been taken, `__enter__` of the source may hold the capture
(`worker.py` 200-206) without an `__exit__` to follow, a `close` may have forgotten the
capture or the client without releasing it (`worker.py` 221-231, `transport.py` 119-150).
`cut` is history: the steps that were broken off. `stored` and `lastWord` are what the
aggregator took. Pixels, detections and timestamps are left out.

### KeyGeneration
One action per access to the file system that another invocation may notice or disturb;
each may be denied. The calls on a file that is open, from its `fstat` to the `lstat` that
checks the path, are one action (`Write`), because no other invocation opens or removes that
file; if they are broken off, by an error or a kill, any part of the file may be there
(`HalfWritten`). `created` is the list of
that name, whose entries gain the inode once `fstat` has succeeded; files are
identified by the invocation that made them, which is what device and inode
decide. `Killed` also stands for exceptions that the script does not catch.
Nobody but the script writes in the directory, which is private.

### AggregatorStartup
`Ddl` is the list of statements of `create_all`, a table and then its indexes, and
`schema` the set of those that took effect. The `sqlite3` driver does not open a
transaction before DDL, so `create_all` is durable statement by statement. `todo` holds
the statements that a start has yet to execute, which it does in the order of `Ddl`
(`IsNext`). `Select` reads without a lock; `Insert` takes the lock and meets the
primary key; `Commit` and `Fails` end the transaction.

`NodeRegistry` forgets schema, lock and statements: `Seed` registers a whole batch,
once, if it contradicts neither itself nor the registry. `VerdictOf` maps the position
of a start to what its operator can tell. That keys are never replaced and that a
batch is registered whole or not at all follow from it.

### RequestBody
Headers are sequences of digits and other characters, which are numbers above 9;
chunks are sizes. `Value` is the number a sequence of digits denotes, computed from the
left as `int()` does. The comparisons of `_content_length` and `_bounded_limit` are modelled as they are
made, on digits, and compared with the comparison of the numbers.

### SmallFloats, DetectionResults, FramePipeline
`FramePipeline` is one `PrivacyWorkerPipeline` over several runs, because it keeps its
sequence number and the names it issued from one run to the next, while the gate is
made anew and the source may be opened again. `captured` carries the float the code
computes (`time`) and the exact time as a fraction (`num`, `den`), which only the
properties read. `ReadNothing`, `ReadFrame`, `Sample`, `Process` and `Deliver` are the
parts of the loop; each may raise. The factories of IDs and nonces may return what they
returned before, and the pipeline must notice.

`DetectionResults` converts what the model returned for a frame: every row is judged
before its confidence is compared with the threshold, boxes are clipped and divided by
the size of the frame, and the `Detection` contract meets the rounded result. Rounding
may make two different edges equal; the frame is then refused. `Found` is the loop that
appends: what it has made of the first n rows.

`SmallFloats` has the arithmetic of CPython at any precision: division and addition
rounded to nearest, ties to even. A number is counted in steps, of which `One` make 1.0.
With `Half` 2^52 and `One` 2^1074 these are the floats of CPython up to overflow; with 8 and a
small `One` TLC can enumerate them. Frame rate and sample rate are any positive floats, so
also 29.97 or 0.5. Two facts depend on the
rounding. A frame that is due may be skipped: at a sample rate equal to the frame rate
`index / fps + 1 / rate` may round past `(index + 1) / fps`. Nothing documents more than
sampling "at" the rate, so this is no finding; `SamplingKeepsTheRate` states what holds, the
rate to within two units in the last place of the next allowed time. And an edge is
where the model saw it to within half a unit in the last place.

### EdgeSystem
`Worker`, `Ingestion` and `HeartbeatService` take each side apart; here a call is one
step and the two sides, with what is between them, interleave. The worker may be run
again after it ended or died. A request is handled any time after it was sent, once or
never, also after its sender gave it up; an answer may be lost. `Events` and `Beats` are the
requests there can be; `Event` and `Beat` make one, with the time that the worker's clock
reads (`WorkerClock`). `DeliveryLog` has neither network nor clock nor restart; the same
`rows` and `counted` implement it. The POST handlers do not
await once the body is read, so a request is handled in one step. A restart of the
aggregator empties the replay policy and loses the answers under way. The database is a file:
what is committed stays. On `:memory:` it would not, neither over a restart nor beside readers,
which is what the run `ingestion_memory` of the module `Ingestion` shows.

Timestamps are half-seconds, and `Stored` writes an instant as `_UtcTimestampType` does,
in text of fixed width, which SQLite compares by character (what precedes the fraction is
one symbol, since its width is the same in every timestamp); with a text that omits a zero
fraction a newer heartbeat would be taken for an older one. `Drift` is how far the two
clocks are apart. The clock of the aggregator is not set back here, and reservations do
not expire within `MaxTime`; both are in `ReplayFreshnessPolicy`.

## 3. Runs

All runs bound time, callers and data by their constants; no run uses a state
constraint. `CHECK_DEADLOCK FALSE` appears where the system really ends: every
request answered, a run over, an invocation finished, a body read. The policy runs
forever and is checked for deadlock.

| Run | Question | Bounds |
|---|---|---|
| `policy` | Does the pruned dictionary behave as if it forgot nothing, with racing callers and a clock that jumps both ways? Also by refinement of `ReplayPromise`. | 2 callers, 4 events that share an ID, a nonce, both across nodes; skew 1 and TTL 1, so that the TTL is the later horizon of some events and the freshness window of others; instants 0..5, both ends within reach of the arithmetic |
| `policy_overtaken` | Is "security clock moved backwards" only said of a clock that did? **Violated.** | 2 callers, clock never set back |
| `ingestion` | Do answers, rows, alerts and reservations agree under failures, forgery and a restart? | 3 requests in any interleaving, 5 envelopes, file database, 2 boots |
| `ingestion_memory` | Does 202 mean durable on `:memory:` as well? **Violated.** | 1 request, 1 reader |
| `heartbeat` | Does the service implement `NodeRegister`, whatever the order and the failures, and is every heartbeat that waits for the write lock answered? | 3 requests, 5 heartbeats: equal, older, newer, unknown |
| `worker` | Releases, counts, last word and termination of a whole run, with Ctrl-C in any step. | 3 events; any number of Ctrl-C |
| `worker_interrupt` | Are all resources released when the worker says so after Ctrl-C? **Violated.** | 1 event |
| `key_generation` | Both files or none, with races, errors and kills. | 3 invocations, 2 for one node |
| `startup` | Schema after any mix of starts; does the seeding implement `NodeRegistry`? | 4 starts: agreeing, overlapping, contradicting the first, contradicting itself; 2 tables with indexes |
| `request_body` | Wholeness and decimal comparison. | every header of up to 4 characters of 5, chunks of up to a size past the bound, maximum 12 |
| `frames` | Is a clean end complete, are events named once, do they show their frame, and is the rate kept under rounding? | 2 runs of up to 12 frames; camera, files with 0.5, 3, 5, 6, 6.5 and 10 frames a second or none; counts missing, whole, fractional; sample rates 0.5, 2.75, 5 and 7; floats of 4 bits (`Half` is 8) |
| `edge_system` | What do the stored events and the row of the node say of the worker, with late and lost messages and restarts? | a file database; 2 runs of 2 events, 1 periodic heartbeat each; 1 restart of the aggregator; 3 instants, clocks up to 1 apart, skew 1 |

Why the bounds are enough to be interesting. Two callers are what it takes to
overtake, and an event needs one earlier acceptance to conflict with; the instants
reach from before the first event is fresh to after its reservation has expired,
with room to jump back. Three ingestion requests are an acceptance, its replay and
a third that follows a restart. Three heartbeats hold, wait for and follow the
lock. A worker of three events has a first, a middle and a last delivery. Four
starts are two that race, one that is refused and one that comes after.
Two runs of a pipeline are a first and one that finds what the first left. Four bits
are few enough for rounding to decide: frames at their own rate are skipped, and two
edges of a box in a frame 13 pixels wide become one. Two runs of the worker let the requests
of the first arrive during the second; a periodic heartbeat is what a degraded one could
be overtaken by; three half-seconds have both a zero and a non-zero fraction and reach
past the skew.
Requests and callers are interchangeable, so their permutations are used as
symmetry where a run checks safety only (`ImplementsPromise` and
`HighWaterMarkRises` are safety properties too); `heartbeat` checks liveness and
has none.

### What the violations show
- `policy_overtaken`: the clock is read at `security.py:144` before the lock. A
  caller that another overtakes is refused with "security clock moved backwards",
  and its client with 503, although the clock never did. `docs/configuration.md`
  123-125 speaks of the wall clock moving behind the mark. The refusal is safe,
  and on the event loop of the aggregator it cannot occur.
- `ingestion_memory`: `:memory:` has one connection (`persistence.py:345-351`). The
  close of a reader's session rolls it back; between flush and commit that
  discards the event, the commit commits nothing, and the handler answers 202.
  `docs/api.md` 17-19 says 202 comes after the commit of the metadata.
- `worker_interrupt`: Ctrl-C in `thread.join()`, or between `thread.start()` and the
  return of `__enter__`, leaves the thread running while `apps/worker/main.py:158`
  prints "resources released". The same message is printed after a Ctrl-C that came in
  `__enter__` of the source, once it held the capture (`worker.py` 200-206), or in a `close`
  before its release; the capture is then still held. That is not the trace of this run, which
  is about the thread: `worker` has these steps, and `AllReleased` names them as the only ones
  after which a capture or client is left open.

### Behaviour that is documented, and visible in the models
- After a restart an event that is still fresh is accepted again: the rows of two
  starts may repeat it. `StoredOncePerBoot` is therefore stated per start.
- A write that fails after the reservation answers 503 and keeps the identifiers
  reserved (`NoSilentLoss` says that it is never answered otherwise).
- A start that dies inside `create_all` leaves a partial schema, and every later
  start refuses it. `RaceCompletesTheSchema` says that racing starts alone never
  cause this.
- A key generation that is killed between its files leaves the private one, and
  every later invocation for that node refuses. An invocation that finds the
  directory missing and is beaten to making it refuses as well.
- A heartbeat thread whose first clock reading raises (`transport.py:302`, outside its
  `try`) ends with no failure recorded. `Worker` has the step; no property speaks of it.
- Of two starts that race to register the same new node with the same key, the one
  whose INSERT comes second fails; the registry is as it should be.

## 4. Fairness

- `HeartbeatService`: weak fairness of a request's statements together: each
  statement returns or raises. SQLite's busy timeout bounds the wait for the write
  lock, after which the UPDATE raises; so no fairness between requests is assumed.
- `Worker`: weak fairness of the main thread and of the heartbeat thread. Reads and
  inference end, every request has `request_timeout_seconds`, the wait has an
  interval, and the operating system runs both threads. Nothing is assumed of
  which outcome a call has, nor that Ctrl-C ever comes; a join that raises (`JoinFails`) is
  no part of `Main`, so the end of a run never rests on it. `FailureEndsTheRun` asks for the
  end of a run after a failure only: a live camera may otherwise run for ever.
- The other specifications have no fairness: nothing they state is about progress.

## 5. Proofs

TLC checks small instances; the theorems below hold for every value of the
constants that satisfies the named assumptions. Each `...Proofs` module has the same
plan: an inductive invariant in named parts, a lemma for the first state, a lemma for
each action or group of actions, and the theorems. Before it was proved, each invariant
was checked by TLC over the instance of its module's run.

| Component | Inductive invariant | Theorem | States |
|---|---|---|---|
| `ReplayFreshnessPolicy` | `IInv` | `TypeCorrect` | `TypeOK` |
| | | `AcceptedAtMostOnce` | `NeverAcceptedTwice` |
| | | `ReuseNeedsExpiry` | `ReuseOnlyAfterExpiry` |
| | | `ReservationsAreExact` | `DictionaryIsExact` |
| | | `MarkIsMonotone` | `HighWaterMarkRises` |
| | | `Refinement` | `ImplementsPromise`: the policy implements `ReplayPromise` |
| `Ingestion` | `NInv` | `EventsAreStoredOnce` | `StoredOncePerBoot` |
| | | `RequestsLeaveOneRow` | `OneRowPerRequest` |
| | | `SignaturesAreChecked` | `OnlySignedEventsCount` |
| | `NInv`, `OutcomesAreStored` | `AcceptedEventsAreDurable` | `AcceptedIsDurable`, for a file database |
| | | `RefusalsAreRecorded` | `RefusalIsRecorded`, for a file database |
| | | `NothingIsLostSilently` | `NoSilentLoss`, for a file database |
| `HeartbeatService` | `HInv` | `TypeCorrect` | `TypeOK` |
| | | `StateAdvances` | `NodeStateAdvances` |
| | | `AnswersStayTrue` | `AnswersAreTrue` |
| | | `RowsAreWhole` | `RowIsOneHeartbeat` |
| | | `Refinement` | `ImplementsRegister`: the service implements `NodeRegister` |
| `Worker` | `WInv` | `TypeCorrect` | `TypeOK` |
| | | `SuccessIsHealthy` | `SuccessMeansHealthy` |
| | | `CountsAgree` | `OneUncountedEvent` |
| | | `FailureStopsDelivery` | `OneLateDelivery` |
| | | `ResourcesAreReleased` | `AllReleased` |
| | | `LastWord` | `DegradedIsFinal` |
| `KeyGeneration` | `KInv` | `SuccessLeavesAPair` | `SuccessIsAPair` |
| | | `RefusalIsClean` | `RefusalLeavesNothing` |
| | | `FilesStayTheirMakers` | `OnlyMakersTouch`: nobody changes or removes a file of another |
| | `KInv`, `RaceInv` | `SomebodyWins` | `SomebodySucceeds` |
| `AggregatorStartup` | `SeedInv` | `TypeCorrect` | `TypeOK` |
| | | `ReadyToServe` | `ServingIsReady` |
| | | `ImplementsTheRegistry` | `ImplementsRegistry`: the starts implement `NodeRegistry` |
| | `SeedInv`, `RaceInv` | `RaceIsWon` | `RaceCompletesTheSchema` |
| `FramePipeline` | `PInv` | `NamesAreUnique` | `EventsAreNamedOnce` |
| | | `CleanEndsAreComplete` | `CleanEndIsComplete` |
| | | `EventsShowTheirFrames` | `EventShowsTheFrame` |
| | | `RateIsKept` | `SamplingKeepsTheRate` |
| `RequestBody` | `BInv` | `BodiesAreWhole` | `ParsedIsWhole` |
| | | `HeadersAreJudgedByValue` | `DigitsAreJudgedByValue` |
| | | `ExceedsIsByValue` | the comparison of digits is that of numbers |
| `EdgeSystem` | `EventInv` | `StoreIsAPrefix` | `RowsAreAPrefix` |
| | | `ImplementsTheLog` | `ImplementsLog`: the whole system implements `DeliveryLog` |
| | | `HonestWorkersRaiseNoAlarm` | `NoFalseAlarm` |
| | `EventInv`, `BeatInv` | `NodeRowIsNewest` | `NodeRowIsTheNewest` |
| | | `DegradedIsLast` | `DegradedIsTheLastWord` |

### Assumptions
Every assumption is named in the module that declares the constant, and TLC evaluates
it in each run of the module.
- `SettingsAssumption`: skew and TTL are positive, which `SecuritySettings` validates;
  `ClockAssumption`, `EventsAssumption`: instants are a range of integers and a
  timestamp is one of them.
- `HeartbeatAssumption`: a heartbeat is its node, timestamp and status.
- `IngestionAssumption`: an envelope carries an event; a thread is either a POST or a GET
  handler. `~SharedConnection`, which is a hypothesis of three theorems and not an
  assumption of the module, says that every session has a connection of its own, as
  with a database file. The run `ingestion_memory` shows that they need it.
- `MaxEventsAssumption`: a run delivers at least one event.
- `StartupAssumption`: the options of a start are pairs of a node and a key;
  `DdlAssumption`: `create_all` executes each statement once, and the indexes of a table
  after the table and before the next table.
- `KeyAssumption`: there is somebody who generates keys.
- `FrameAssumption`: rates are positive numbers of steps, as every positive float is; a camera has neither rate nor count, the clock
  reads natural numbers, and the model returns rows or something malformed.
- `DetectionAssumption`: a frame has a width and a height, the threshold is from 0 to 1,
  and class IDs are natural numbers, which `_validate_frame`, `VisionSettings` and
  `_nonnegative_integer` ensure.
- `FloatAssumption`: 1.0 is itself a float. Nothing else is assumed of the precision, so the
  theorems hold for the 53 bits of CPython as for the 4 of the run.
- `MaximumAssumption`: the maximum is a number without leading zeros, as `str(maximum)`
  writes it; `InputAssumption`: headers are sequences of characters, sizes natural numbers.
- `EdgeAssumption`: the bounds are natural numbers.
- `None` is nothing else: not an instant, a request, an envelope, a key or a file
  (`NoneAssumption`, and a conjunct of some of the above).

### The arguments

*Policy.* That an event is not accepted twice needs that its reservation outlasts its
freshness, and a reservation may be pruned, so the invariant has to say exactly when.
`IInv` adds to `TypeOK` (which includes that a stamp that waits for the lock was fresh on
its reading) `AcceptedInTheWindow`: every acceptance was fresh when made and is not later
than the high-water mark; `MarkIsAnAcceptance`: the mark is the instant of an acceptance,
which also gives the refinement its witness for `RefuseClock`; `RememberedUntilExpiry`: an
acceptance whose horizon is not before the mark still holds both its keys with exactly
that expiry; `ReservedTogether` and `NothingExpiredIsHeld`, its converse; and
`ReuseOnlyAfterExpiry`. Only `Accept` changes what these speak of. There the reading is not
before the mark, because the lock refuses it otherwise, so pruning by the reading removes
only what is before the new mark. A second acceptance that shared a live key would find it
retained. `NeverAcceptedTwice` follows: an event shares its keys with itself, so a second
acceptance would carry a timestamp later than its own.

*Ingestion.* `NInv` contains `IInv`: each step of a request is a step of the policy, leaves
it alone, or, in a restart, makes it `Unused`, which satisfies `IInv`. `CallsAreSound` says
what a request carries and knows where it is; `LogIsOfRequests` that the acceptances of the
policy and the requests it accepted correspond one to one, by `NeverAcceptedTwice`;
`RowsAreOwned` and `EventsAreAccepted` speak of all rows, committed or not, so that it does
not matter whether a COMMIT that raised took effect: each row belongs to a request that has
flushed it, and the row of an event of this start to a request that the policy accepted.
`OutcomesAreStored` follows a row from the transaction to the table. It is inductive only if
nobody else commits or rolls back the connection; on `:memory:` it is false.

*Heartbeats.* `HInv` adds to the properties what makes them inductive: `WriterHasNews`,
that the row has not changed between the UPDATE and the COMMIT of a request, which the
write lock ensures (`OneCommits`); `SilentUntilArrival` and `VerdictsAreOnHeartbeats`, which
tie a verdict to the heartbeat its request carries; `RowsComeFromRequests`, the origin of
each row; and `UndecidedUntilClosed`, that the client of a request whose UPDATE or COMMIT is
still to come has been told nothing. `RowsAreWritten` reduces every step to a write or to
unchanged rows, and `WriteAdvances` says what a write does. For the refinement `RowShows`
reads a row as the heartbeat it shows, `WriteIsAdvance` maps the COMMIT to `Advance`, and
`StepImplements` maps each other step to a step of the register or to a stutter.

*Worker.* `WInv` ties the flags to the position of the main thread. `ThreadIsJoined`: once
the main thread is past the join, unless Ctrl-C took it there or the join raised, the
heartbeat thread has ended, and if nothing was raised it did not fail; `SuccessMeansHealthy` and
`DegradedIsFinal` rest on it. `LateIsLast`: a delivery that begins after a failure is
followed by the check that raises. `EventsInFlight`: an event is outstanding only between
its assembly and the answer to its one delivery. `OpenWhileNeeded` and `RaisedWhere` follow
the nested with statements; the former says that a resource is closed outside its with
statement, or that `cut` has a step of its opening or closing.

*Key generation.* `ListIsOwn`: what an invocation has on its list `created` is there and
its own, so its cleanup removes nothing else, which keeps the pairs of others and gives
`FilesStayTheirMakers`;
`IsListed`: a file is on the list of its owner, unless its removal was denied; `ListFits`:
how long the list is at each position. `RaceInv` is about runs in which nothing is denied
and nobody killed: the files that exist belong to an invocation that will succeed
(`FilesAreClaimed`), and who was refused was refused by one that is `Ahead`
(`SomebodyIsAhead`). It is stated of the past by `QuietWas`: what is quiet has been quiet.

*Startup.* `SeedInv`: a start near the registry has seen the whole schema, and the schema
never shrinks; what a start does not insert is registered with its key (`BatchIsSound`); and
what a writer commits is still news (`CommitsNews`), because only one start has the lock.
Hence a COMMIT is `Seed` of the registry, and every other step a verdict or a stutter.
`RaceInv` is about the indices of `Ddl`: tables come into being in order (`TablesInOrder`);
a start creates a table with all its indexes or leaves it out whole (`PlansAreWhole`); the
indexes of a table are the duty of the one start that created it (`OneOwner`); and each
statement is there, or somebody will come to it before meeting a table that is there
(`Covered`). A start that is beaten to a table hands its duty to the one that beat it, which
is the step `Covered` and `OneOwner` are needed for.

*Data.* What a recursive function computes is proved without the library's induction
theorems, whose parameters are operators. A claim about all numbers that fails for some
fails for a least one (`Least`, from the well-foundedness of `<`), and the step from the
number before it refutes that. `Recursion` shows in the same way that a function with given
values for 0 and for the step exists, which makes the equations of `Ulp`, `Found` and
`Partial` available (`UlpEquation`, `FoundEquation`, `PartialEquation`).

*Pipeline.* `NamesAreSpent`: the names given out are those remembered, and the sequence
number is how many there are; `FramesAreCounted`: index, picks and events agree at each
position of the loop. These need nothing of detections or of rounding.
`EventIsAResult`: the event in hand is what `Convert` made of some output, accepted; so
`EventShowsTheFrame` is a fact about `Convert`. `FoundInOrder` says that the detections are
those of the rows shown, each at the place that `Cardinality` counts; `EdgeIsClose` that
an edge stays within half a unit in the last place, from `Rounding`, the one lemma about
`Nearest`: the result is within half a unit of the quotient, and the result's own unit is
no smaller. `TimesAreRated`: the time in hand and
the time of the last frame picked are the roundings of exact times, and the next allowed
time is the rounded sum of the latter and the interval. `RateIsKept` adds up four errors,
each of half a unit of a number no greater than its bound: the two times (`TimeIsClose`),
the interval and their sum (`SumIsClose`); `RoundingsAddUp` is that sum, cleared of
denominators. It uses that `Ulp` is monotone (`UlpMonotone`).

*Request body.* `Positive`, `LongerIsLarger` and `SameSoFar` compare two sequences of digits as
`_content_length` does: the one that is ahead by one at some digit stays ahead, whatever
follows (`StaysAhead`), so of two of one length the first difference decides
(`GreaterIsByValue`), and one that is longer and begins with a digit other than 0 is larger.
`NormalizedIsEqual`: leading zeros are worth nothing. Together they are `ExceedsIsByValue`.
`BInv` adds to `ParsedIsWhole` what a phase knows of the header (`PhaseIsKnown`), and that a
413 before any byte was for the header (`RefusedForItsHeader`).

*Whole system.* `EventInv` says where the events are: each run has counted its first
`counted[r]` events, at most one more was made, and that one is waited for, under way, known
to the aggregator or lost, and alone in that (`EventsAreCounted`, `EventsUnderWay`); what
the aggregator knows was made, and what was counted is stored (`KnownWasMade`). An event
under way is therefore never known, so no replay is found, and its row follows those of its
run. This holds across restarts, because `EventsUnderWay` speaks of the rows as well as of
the reservations that a restart forgets. `InsertIsStore` and `DeliveredIsCount` read the
same invariant as a refinement: the row of an event under way is the one due of its run, and
what is counted is stored. `BeatInv` says that a run that says `degraded` has
no other heartbeat under way: the degraded heartbeat is sent only when the heartbeat has not
failed, and one that was given up has (`BeatsUnderWay`, `DegradedIsAlone`). `StoredOrder`
proves for all timestamps that the stored texts compare as the instants do.

### Only model-checked
- The liveness properties `EveryHeartbeatAnswered` and `FailureEndsTheRun`: liveness under
  fairness is beyond the prover.
- The three properties that are violated, each of which TLC refutes.

## 6. Not modelled

- Wire contracts but for `Detection`, canonical bytes, Ed25519, configuration: pure
  functions of one value. The models take values that passed them, and name what they rely on.
- Query results of the GET handlers: they change no state. Their effect on writers is
  in `Ingestion`. The three counts of the health report are separate statements and
  may disagree; nothing in the repository promises otherwise.
- Building the detector at startup and the digest of its weights: file and library
  calls in sequence, with no state that another part reads.
- JSON decoding, HTTP itself, OpenCV and the model's inference.
- Dashboard and experiment runner, which are placeholders.

## 7. Plan

Done, in this order: the policy, its promise and its proofs; ingestion over it;
heartbeats and their proofs; the worker; key generation; startup; the request body;
the register and the registry that heartbeats and startup implement, both proved; frames
and detections; the whole system; the safety properties of ingestion, worker, startup,
key generation, pipeline, request body and whole system, proved, those about rounded
numbers and digits included; the delivery log that the whole system implements.

Left: a proof that `Worker`, whose calls take several steps, implements the worker of
`EdgeSystem`, whose calls take one; today the two are related by reading only.
