# Caminus: a verification project

TLA+ models of the Caminus change-data-capture engine, TLC configurations that
check them on small instances, and TLAPS proofs of the properties that matter
most for every instance. Paths are relative to the repository (`src/src/main.rs`
is the engine's `main.rs`). `PROJECT.json` holds the machine-readable side: the
source lines behind every definition, the runs, the mutants that show each
property can fail, the hazards and the theorems.

## 1. The system

One process (`main.rs`) runs two ingestion tasks (Postgres and Cassandra), an
election loop and a metrics server on a tokio runtime. A task reads the
checkpoint of its source, opens the source's stream behind it, and for each
event: checks that the node leads, records a heartbeat, waits for the shared
rate limiter, drops duplicates, (Postgres only) validates the schema and filters
watermark rows, buffers the event by transaction, and for every row a commit
releases: transforms, sends to Kafka and stdout, saves the row's offset.

| Component | State | Operations | Meets whom | Correct when |
|---|---|---|---|---|
| engine (`main.rs`) | per task: stream position, filter, buffer, rest of the flush loop | the loop above; crash and restart | everything below | a restart skips no committed row silently and repeats few; order is kept; only committed rows leave |
| transaction buffer (`buffer/`) | map of transaction id to rows | `process`, `prune` | owned by a task | a commit releases its own rows, all of them, in order |
| duplicate filter (`resiliency/dedup.rs`) | set and queue of ids | `check_and_track` | owned by a task | set and queue agree; it is a sliding window |
| sources (`source/`) | a counter resumed from the offset | `start_stream`, `retry_with_backoff` | read by a task | the nth event is the same in every run |
| coordinator (`consensus/mod.rs`) | `is_leader`, `shutdown` atomics; role and term local to the loop | election loop, `shutdown` | tasks read `is_leader` | one leader; a node that steps down stays down |
| failover controller (`consensus/failover.rs`) | last heartbeat, lease | `record_heartbeat`, `check_and_claim_lease`, `resume_checkpoint_offset` | tasks | a lease is taken only after heartbeats lapse |
| state store (`storage/mod.rs`) | RocksDB: offsets, schemas | `save_offset`, `get_offset`, ... | tasks, registry, snapshotter | durable across a crash |
| rate limiter (`resiliency/rate_limiter.rs`) | tokens, last refill; quota per tenant | `try_acquire`, `acquire`, tenant calls | shared by the tasks | the rate is bounded over every window; `acquire` returns |
| parallel snapshotter (`snapshot/parallel.rs`) | vector of chunks under a mutex | `new`, `process_chunks` | own workers, state store | chunks partition the table; each is processed once |
| watermark snapshotter (`snapshot/watermark.rs`) | chunk rows, window flags | `load_chunk`, `process_replication_event`, `flush_chunk` | a task | a chunk row never overwrites a newer change |
| schema registry (`storage/schema.rs`) | schema versions in the store | `register_schema`, `validate_event` | Postgres task | an event valid under an old schema stays readable |
| Confluent registry (`storage/confluent.rs`, `serialize/avro.rs`) | next id, cache of subjects | `register_schema`, wire format | threads that encode | a frame decodes to its own subject's id; racing threads assign few ids |
| routers (`router/`) | the tenants' buckets | `route_event`, `set_tenant_quota`, `resolve_partition` | rate limiter | a tenant keeps to its quota; calls return |
| cross-region sync (`sync/`, `sink/forwarder.rs`) | peers | `should_forward`, `resolve_conflict`, `send` | other clusters | loops die out; replicas converge |
| transform, plugin registry (`transform/`) | plugins behind a lock | `register_plugin`, `hot_reload_plugin`, `execute_transform` | threads that transform or load | a transform ends on the plugin it began with; a later reload wins |
| key management (`security/kms.rs`) | version, keys by version | `get_active_key`, `rotate_key` | threads that encrypt | a key fits the version it is returned with |
| dead letter queue, sinks, metrics, masking, CLI | little or none | formatting and I/O | tasks | |

What is hard here: crashes between a send and its checkpoint, the checkpoint
being the offset of a *row* while rows are released by *commits*, events pulled
before the election is decided, `let _ =` on every send and save, two threads on
relaxed atomics, several callers sleeping on one bucket, workers that panic,
locks released between a lookup and the change it leads to, a lock guard held
across an await, a network that reorders and repeats.
The list, line by line, is `hazards` in `PROJECT.json`.

## 2. The modules

| Module | Models | Uses |
|---|---|---|
| `TransactionBuffer` | `buffer/mod.rs` as operators on the map | |
| `DeduplicationFilter` | `resiliency/dedup.rs` as operators | |
| `SlidingWindow` | abstract specification of the filter | |
| `IngestStage` | the filter in front of the buffer, on arbitrary events; implements `SlidingWindow` | the three above |
| `Sources` | the events `postgres.rs` and `cassandra.rs` yield | |
| `Pipeline` | `main.rs`: the tasks, the election of this node, crash and restart | `TransactionBuffer`, `DeduplicationFilter` |
| `MCPipelineEngine` | instance: both tasks on the sources' own logs | `Pipeline`, `Sources` |
| `MCPipelineSource` | instance: one task on a log with every kind of event | `Pipeline` |
| `ClusterCoordinator` | `consensus/mod.rs` on several nodes | |
| `TokenBucketLimiter` | `TokenBucketLimiter` of `rate_limiter.rs` | |
| `ParallelSnapshotter` | `snapshot/parallel.rs` | |
| `WatermarkSnapshotter` | `snapshot/watermark.rs` with the database and the owner around it | |
| `SchemaRegistry` | `storage/schema.rs`; the runs have one registrant, as `main` has | |
| `TenantRouter`, `MCTenantRouter` | `TenantRouter` of `router/mod.rs` over `TenantQuotaLimiter` of `rate_limiter.rs` | |
| `StreamStartup` | `retry_with_backoff` of `source/mod.rs` beside the lease of `consensus/failover.rs` | |
| `WasmPluginRegistry` | `transform/registry.rs` and the outcomes of `transform/mod.rs` | |
| `KmsProvider` | `security/kms.rs` | |
| `IdRegistry` | abstract specification of a registry of ids | |
| `ConfluentRegistry` | `storage/confluent.rs` and `serialize/avro.rs`; implements `IdRegistry` | `IdRegistry` |
| `RegionSync` | `sync/mod.rs` and `sink/forwarder.rs` between several clusters | |
| `MCSnapshots` | instance: the two snapshotters, one per behaviour | `ParallelSnapshotter`, `WatermarkSnapshotter` |
| `MCRegionEcho` | instance: two clusters whose tags name the origin of a change | `RegionSync` |
| `MCLibrary` | instance: six components that share no state, one per behaviour | `StreamStartup`, `WasmPluginRegistry`, `KmsProvider`, `ConfluentRegistry`, `RegionSync`, `SchemaRegistry` |
| `PipelineProofs` | theorems about the engine | `Pipeline` |
| `IngestProofs` | theorems about the filter and the buffer | `IngestStage` |
| `ClusterProofs` | theorems about the coordinator | `ClusterCoordinator` |
| `TokenBucketProofs` | theorems about the limiter | `TokenBucketLimiter` |
| `RouterProofs` | theorems about the tenants' quotas | `TenantRouter` |
| `ParallelProofs` | theorems about the parallel snapshotter | `ParallelSnapshotter` |
| `WatermarkProofs` | theorem about the watermark snapshotter | `MCSnapshots` |
| `LibraryProofs` | theorems about keys, plugins, ids and frames, schemas, startup and regions | `MCLibrary` |

### Pipeline

An event is a position in its source's log; `Log[t][p]` keeps the fields the
control depends on: id, operation, transaction, whether it is a row of
`caminus_watermarks`, whether it passes `validate_event`, whether the transform
succeeds on it. Both sources resume with `n + 1` from offset `n`, so an offset is
a position and `Sources` gives the nth event in closed form.

`pc[t]` is where the task is suspended: `init` (before `start_stream`),
`streaming` (`stream.next()`), `throttled` (`limiter.acquire`), `flushing` (the
for loop, before a transform and send), `sent` (before `save_offset`), `stopped`
(the task has ended). Code between two of these points has no await or is awaited
on something no other actor touches, and is one action. `offsets` is the state
store and the only thing that survives `Crash`; `kafka`, `dlq`, `discarded`,
`refused`, `suppressed` record what became of each position, for the properties
only. `kafka` entries carry the incarnation of the process that sent them.

Faults: a stream that does not start or breaks (`StartFails`, `Break`; the task
ends, and the filter and the buffer, its locals, are dropped), a send or
a save that returns an error which `let _ =` ignores (`SendFails`, `SaveFails`),
a checkpoint that cannot be read and is taken for none (`StartFromZero`), a crash
(`Crash`, also ctrl-c, which aborts the tasks). `Elect` summarises the coordinator
for this one node; `main` never calls `shutdown()`.

The heartbeat of the failover controller is left out here (`StreamStartup` has
it): `main` records it and nothing reads it. The watermark engine only filters, since `main` never loads a
chunk. `route_to_dlq` fails only where serialization does, and its record is the
position. The transform in `main` passes events through, so the offset that is
saved is the row's own; a module that rewrote `offset` is outside the model.

### ClusterCoordinator

`Wake`/`Terminate` are the sleep and the check of the flag, `Campaign`, `Win`,
`Renew` the body of the turn. `shutdown()` runs on another thread; its two
stores are relaxed, so they appear to the loop in either order. `Restart` is a
new process with a new coordinator.

### TokenBucketLimiter

Both mutexes are held for a whole refill-and-take, so that is one action; the
sleep of `acquire` is not. Time is counted in ticks, tokens are natural numbers
(rounding of `f64` is left out), and the wait is rounded up to a tick. `mark` and
`granted` belong to an observer who may start a window at any moment, which turns
"over every window" into an invariant. `undisturbed` remembers of a sleeping caller
that no one was granted tokens since it went to sleep; it is only for
`SleepsEnough`.

### ParallelSnapshotter

`new` cuts one chunk per step. `Claim` is the critical section of a worker,
`Complete` the second one, `Panic` the end of a worker inside `process_fn`,
`SaveProgress` the end of `process_chunks` once every handle was awaited, and
`SaveFails` the same end when the store returns an error, which `let _ =` ignores
(`parallel.rs:115`). `stale` records that the last save failed.

### WatermarkSnapshotter

`Write`, `WriteLow` and `WriteHigh` are the database and the owner of the
snapshotter (external: nothing in `main.rs` loads a chunk). `LoadChunk`, `Read`
and `FlushChunk` are the three methods. `tables` remembers the table after each
log entry and `view` what the consumers hold, so that "the snapshot is
consistent" is one equation. The owner follows the order of the repository's
test: the chunk is loaded before the low watermark is read and flushed as soon as
the high one is. A later flush could set a row back: the first version of the
model allowed it and TLC found that.

### SchemaRegistry

A schema is a partial map of fields to types, a payload one of fields to kinds of
JSON value; `Compatible` and `Validates` are `check_compatibility` and
`validate_event`. `Check` and `Save` are the two halves of `register_schema`.
The reference the modes are checked against is semantic: which events pass
`validate_event` under which schema (`Readable`).

### IngestStage

`Skip` and `Process` are the two outcomes of `check_and_track` followed, for a new
id, by `TransactionBuffer::process`; `Prune` is called between events. The log of
accepted events is the reference both components are judged by: the filter must
answer as a window over its last ids, a commit must release its transaction's
part of it.

### TenantRouter

`Lookup` and `Make` are the two critical sections of `try_allow` (the read guard
is dropped between them), `Route` is `try_acquire(1)` and the end of
`route_event`. "hit" and "made" are suspension points with a guard held: the
bucket's mutexes are awaited under a `std::sync::RwLock` guard. `Runs(c)` says
when a task may run at all: not while another task on its thread is blocked in
`read()` or `write()`. A guard held across an await makes the future `!Send`, so
several callers mean several threads with an executor each (`Thread` in
`MCTenantRouter`) or several tasks on one.

### StreamStartup

`Connect`, `Fail`, `GiveUp` and `Wake` are the turns of `retry_with_backoff`; the
jitter takes its extreme and middle values. `silence` is the time since the last
heartbeat, and time jumps to the end of a sleep, never past it. The constants of
the run are those of `postgres.rs`, `cassandra.rs` and `main.rs`. An attempt takes
no time, as the sources' stand-in for a connection; a real one would have to be
added to the silence.

### WasmPluginRegistry, KmsProvider, ConfluentRegistry

Each is a pair of critical sections with something outside the lock: the
compilation of a module before the write lock (`Compile`, `Insert`), the version
read before the key (`ReadVersion`, `ReadKey`), the lookup before the assignment
(`Miss`, `Assign`). `Execute` and `Finish` are the two ends of the read guard of
`execute_transform`; `Transform` says how a transform ends by what the module
does, and dropping the guard also happens on unwinding. That a load returns is not
claimed: whether readers that keep coming can starve a writer depends on the policy
of `std::sync::RwLock`, which is the platform's. Frames of
`ConfluentRegistry` are sequences of bytes.

### RegionSync

`Forward` handles the next entry of a cluster's own log: `should_forward` and the
forwarder's `send` to each peer. `Deliver` applies what `resolve_conflict`
returns. The repository has the two decisions and no loop around them, so the
databases and the network are external, shaped after the repository's tests: an
applied change reappears in the log under a transaction id `remote-<cluster>`.
Which cluster that is, nothing in `src/src` says. `tests/multi_cluster_sync_test.rs`
writes the one that applied the change, its comment at line 37 names the one the
change comes from, so `Tagging` holds the readings a run admits, and with both of
them each delivery picks one. An entry of a log keeps the clusters `d` for which
its id starts with `remote-<d>` (`Prefixes`), which is what `should_forward` of
`d` tests: the id `us-10` begins with `us-1`, so `us-1` holds back what is tagged
for either. Messages arrive in any order and any number of times. There is one row,
which is never deleted; no two clusters write at the same instant.

## 3. The runs

| Run | Bounds | Shows |
|---|---|---|
| `pipeline_engine` | 5 Postgres events (a transaction and the first row of the next, which stays open), 2 Cassandra rows, 1 crash, 1 failed save per task | under fairness, `EventuallySettled`, with both tasks interleaved |
| `pipeline_source` | 10 events: rollback, poison row, watermark row, repeated id inside and outside the transaction, row the transform rejects, commit, rows outside transactions; filter of capacity 3; 2 crashes, 1 of each error | `TypeOK`, `CheckpointCovers`, `SessionOrder`, `DuplicateBound`, `SendAfterCommit`, `CheckpointMonotone` and the inductive invariant `NothingForgotten` on every path of the loop |
| `ingest_stage` | 3 ids through a filter of capacity 2, 2 transactions, 4 events, prune thresholds 0 and 1 | `QueueMatchesSet`; `RefinesWindow`: the filter implements the window; `FlushIsTransaction` for every interleaving |
| `coordinator` | 2 nodes, 1 restart each | `TypeOK`, `SteppedDownForGood`, `ElectionProgress` |
| `token_bucket` | 2 callers, demands 1 and 2, capacity 2, 2 calls each, at most 2 idle ticks | `TypeOK`, `RateBound`, `Budget`, `WakesInTime`, `SleepsEnough`, `AcquireReturns` |
| `snapshots` | parallel: 3 workers, 7 rows in chunks of 2, 3 panics, 2 calls, the save of either failing; watermark: 2 keys, 2 values, 3 writes, 2 chunks, any initial table | `ChunksPartition`, `ClaimedOnce`, `ProgressHonest`, `ProcessReturns`; `SnapshotConsistent` |
| `tenant_router` | 2 callers with a thread each, 2 calls each, 1 tenant and 1 database, 0 to 2 partitions, 1 call of `set_tenant_quota`, 2 ticks | `TypeOK`, `QuotaBound`, `QuotaSticks`, `CallsReturn` |
| `library` | plugins: 2 names, 2 loaders, 2 executors, 3 loads, 2 transforms, one module that panics; keys: 2 holders, 3 versions; ids: 3 encoders, 2 subjects, 4 frames, ids from 254 so that they outgrow a byte; regions: 3 clusters of which one's id begins with another's, both readings of the tag, 2 writes; schemas: 2 fields, 3 types (one unsupported), all modes, 3 schemas, malformed ones included; startup: both tasks, 5 attempts | `InFlightUndisturbed`, `LaterReloadWins`; `KeyOfItsVersion`; `FramesDecode`, `IdsBounded`, `RefinesRegistry`; `Converged`, `LoopsDieOut`; `EvolutionSafe`; `LeaseSurvivesStartup`, `StartReturns` |
| `standby_data_loss`, `shutdown_race`, `schema_modes`, `echo_origin_tag` | smallest instance | violations, see section 5 |

The bounds reach the interesting cases: a crash at every point of a multi-row
flush and a second crash during the recovery; eviction from the filter (capacity
3 or 2 with more ids); a transaction id used again; all workers panicking with
chunks left; a save of the progress that fails after one that succeeded, and the
other way round; a caller overtaken while it sleeps, with the bucket full, partly
full and empty. Larger bounds repeat these. Runs whose system may come to rest
(end of the log, bounds used up) do not check deadlock; that the system gets as
far as it should is the business of the liveness properties.

**Fairness.** `FairSpec` of `Pipeline`: the runtime polls every task that can
move (`WF` of a task's steps) and the election timer fires (`WF` of `Elect`); no
fairness on faults. `ClusterCoordinator`: the loop's timer fires again, and a
`shutdown()` that was begun returns. `TokenBucketLimiter`: time passes, and an
awake caller is polled; each caller makes finitely many calls, without which a
large request could starve, since nothing queues the callers.
`ParallelSnapshotter`: workers are polled and `process_fn` returns or panics.
`TenantRouter`: a task that can run is polled and a free lock is granted, in no
particular order; calls are finitely many, so writers are not starved by readers.
`MCLibrary`: sleeps end and an awake task is polled (`StartReturns`); nothing is
assumed of locks or of the network. `EventuallySettled` exempts a task whose stream
broke: nothing restarts it.

**One run for several components.** The parts of `library`, and the two of
`snapshots`, share no variable, so the states of each appear unchanged in the union,
whose `part` says which one a behaviour is about; its invariants and refinement are
those of the components.

## 4. The proofs

Every safety property that a passing run checks (invariants, action properties
and both refinements) is also a theorem, for every value of the constants that
meets the named `ASSUME`s of its module; TLC evaluates those on the run's
instance. An invariant that is not inductive is proved from a stronger one (two of
these, `NothingForgotten` and `Budget`, are also invariants of runs). What is below
says where each proof's idea lies.

### Engine

**Typing** (`PipelineProofs`): `Spec => []TypeOK` for every log, set of tasks
and bound. The part that is not plain typing is `TaskShape`: cursor and
checkpoint stay inside the log, and a task is in its flush loop exactly when it
has rows left, so `Head(flush[t])` is always defined.

**Accounting** and **CheckpointSafety**: `Spec => []NothingForgotten`, hence
`Spec => []CheckpointCovers`.
`CheckpointCovers` alone is not inductive: `Save` moves the checkpoint to the row
just sent, and one must know where every earlier committed row is. The invariant
says so, per task:

- `WorkAccounted`: each committed row read so far is settled or still held, as long
  as the task has not ended and dropped what it held;
- `BufferPending`: what the buffer holds waits for the end of its transaction;
- `FlushReleased`: the flush loop runs, in log order, over committed rows whose
  commit has been read, and its first row is settled once `pc = "sent"`;
- `IdleEmpty`, `FilterPast`: a task that has not started or does not lead holds
  nothing, and the filter knows only ids of the past, so it cannot suppress an
  end marker;
- `Covered`: the checkpoint is behind all of it.

The heart is `SentCovers`: an earlier committed row still in the buffer would be
waiting while a later one was released, against `CommitOrderAssumption`; one
still in the flush loop would come after its head. A crash loses what is held,
but then nothing counts as read; a task that ends loses it too, and makes no more
checkpoints. Assumptions (all evaluated by TLC on both
instances): the source delivers transactions in commit order
(`CommitOrderAssumption`; logical decoding does, and so do both sources here),
and end markers have ids of their own, conform and are not watermark rows
(`MarkerAssumption`). A source that interleaved open transactions would break
the checkpoint: that is a contract `CdcSource` does not state.

**SendsCommitted**: `Spec => SendAfterCommit`, an action property from the same
invariant.

**SessionsInOrder**, **CheckpointAdvances**, **RepeatsBounded**:
`SessionOrder`, `CheckpointMonotone` and `DuplicateBound` from one further
invariant, `SendsInOrder`, on top of `NothingForgotten`. Per task:

- `SentBehind`: what this incarnation sent was read by it, was released by its
  commit and lies before everything its loop still has to send;
- `SentSorted`: each incarnation's sends increase along the log;
- `CheckpointBehind`: as long as no checkpoint was unreadable, the checkpoint is
  behind what is held and what is still to be read;
- `RepeatsPaid`: an account. Sends so far, plus the rows a restart would send
  again, are at most the distinct rows sent, plus crashes, failed saves and the one
  save that is pending.

`DuplicateBound` says nothing of rows that *may* be repeated, so it does not
survive a crash by itself; `RepeatsPaid` charges for a row when its save is
lost, not when it is sent again. That a released row precedes a waiting one
(`ReleasedBeforeWaiting`) is once more `CommitOrderAssumption`.

### Filter and buffer

**FilterConsistent**, **FilterImplementsWindow**, **FlushesAreTransactions**
(`IngestProofs`): for every capacity (0 too), set of ids and transactions and every
sequence of events. `StageInv` is `QueueMatchesSet`, which is inductive given the
types, and `BufferHoldsOpen`: the buffer of a transaction that was not pruned is the
accepted rows since the transaction's last end marker, in order. The refinement
of `SlidingWindow` follows from `SetIsWindow`: the set is the ids of the last
`DedupCapacity` entries of the log.

### Coordinator

**ClusterTyping**, **SteppingDown** (`ClusterProofs`): for every number of nodes.
The action property needs from the invariant that the flag of a node on which
`shutdown()` has returned is up; then the loop's only way on is to end.

### Rate limits

**RateLimit**, **BudgetKept**, **BucketTyping** (`TokenBucketProofs`):
`RateBound` for every number of callers, capacity, positive rate and demand.
`RateBound` is not inductive, since what is in the bucket may be granted at the
same instant; `Budget` adds it.

**SleepsNoLonger**: `WakesInTime`, from `InTime` per caller: the refill from
`last_refill` to the instant a caller wakes is less than what it lacks plus one
tick's refill. Another caller's refill moves `last_refill` and `tokens` together, so
this stays true; rounding a wait up costs less than one tick (`CeilDivTight`).

**SleepsLongEnough**: `SleepsEnough`, the other bound. As long as no one is granted
tokens, the bucket refilled up to the caller's next turn holds its count, because
the wait is rounded up and refills, capped at the capacity, do not lose what it
needs.

**RouterTyping**, **QuotasHold**, **QuotasStick** (`RouterProofs`): for every number
of callers, threads, names and quotas. `RouterInv` keeps the account of
each bucket with what is left in it (`Within`, as `Budget` above), and that a
bucket and the quota set for it agree; `Make` preserves this because it looks again
under the write lock. `NoneAssumption` says that "no bucket" is no bucket.

### Snapshots

**ClaimsAreUnique**, **ChunksCoverTable**, **ProgressIsHonest**
(`ParallelProofs`): for every table, chunk size, number of workers, panics and
calls. `ParallelInv`: the chunks pushed so far partition the keys below the
loop's `min_key` (`Cut`); a worker ends only when nothing is pending (`Crew`);
chunks in progress are as many as working workers and panics (`Tally`), which
is what `ProgressHonest` counts with. A failed save leaves the progress of an earlier
call, so `ProgressHonest` is about the store and not the last call: no more than is
done at any time (`SavedKept`: completed chunks stay completed), complete when there
was no panic (`AllDone`), and exact unless the last save failed.
`WorkersAssumption`: finitely many workers.

**SnapshotsConsistent** (`WatermarkProofs`): for every table, number of writes
and chunks. `SnapshotConsistent` speaks only of the moment after a flush.
`SnapInv` says how it comes about: `History` (what each entry did to
the table), `ViewBehind` (consumers never have a value of another moment than the
one they have got to), and for each stage of the owner where the window and the
unread watermarks are and which entry the chunk was selected at. In the window every
key is `Followed` (a later change was read: the view has it and the chunk holds
nothing else) or `Selected` (no change was read: the chunk's value is still that of
the table). It is stated of the union `EitherSpec` of `MCSnapshots`, whose steps are
the snapshotter's or leave it alone, and assumes `Origins \subseteq {"committed"}`, as the run
does; with the other origins it is false (section 5).

### Library components

The theorems of `LibraryProofs` are stated of the union `FairSpec` of `MCLibrary`;
`StepOf` shows that a step of the union is a step of each component or leaves it
alone, and the rest is about one component.

**KeysFit**, **ReloadsDoNotDisturb**, **ReloadsInOrder**. `KeyInv`: every version up
to the current one has its key, and no key is replaced (from `KeyAssumption`: the
first key exists and "no key" is none). `RunInv`: what runs is what is registered,
since an insert needs the write lock. `LaterReloadWins` needs `ReloadInv` beside
it: a load under way has a number of its own which no load that returned can know
of, so inserting it cannot undo a load that came after it.

**RegistryImplements**: `FairSpec => RefinesRegistry`, with `IdInv`: the counter is
`FirstId` plus the number of ids given, so that `Assign` gives the next one to the
subject that missed; hits and misses are stutters.

**RaceIsBounded**: `IdsBounded`, from `CountInv`: the ids a subject has plus the
threads that missed it are at most the threads, because a subject with an id is in
the cache and is missed no more. (`IdAssumption`: ids are natural numbers, "no
id" is neither one nor a subject, and threads are finitely many.)

**FramesCarryIds**: `FramesDecode`, from `FrameInv` (every frame is the encoding of an
id its subject owns) and `DecodeFrame`: four big-endian bytes give back the id they
were made of (`BytesCarryId`), and any prefix too short for the header is refused.

**SchemasEvolve**: `EvolutionSafe` for any number of saved schemas, fields and types.
`check_compatibility` compares neighbours; `ReadableTrans` and `EvolvedGrows` carry
that to every pair. `SchemaInv` says that a call that passed its check passed it
against what the store still holds, which is where the hypothesis of the theorem
comes in: one registrant. With two it is false (section 5).

**StartupKeepsLease**: `LeaseSurvivesStartup` for every number of tasks, any retries
and jitter. `OnSchedule`: a task that is starting has been silent no longer than
its sleeps so far, the rest of the current one included. That these fit in the lapse
is `ScheduleAssumption`: `DelayAfter` and `SleepsUpTo` of `MCLibrary` compute
the delays and their worst sum from the constants. With those of the code,
in units of 12.5 ms, the sums are 0, 5, 15, 35 and 75 before the five attempts and
the lapse is 160. (That the two functions satisfy their own recursion is part of the
assumption, since it takes an induction; TLC evaluates it.)

**NoLoops**: `NoEcho` for every number of clusters, ids and writes, under the
hypothesis `Tagging \subseteq {"applier"}`, the reading of the test's code. With
the reading of its comment it is false (section 5).

**Convergence** and **AppliedOnce**: `FairSpec => []Converged` and
`FairSpec => []LoopsDieOut` for either reading. `AppliedOnce` is what stops a loop that
`should_forward` does not: a log's timestamps rise (`Rising`), since a change is
applied only when it is strictly newer than the row, which is as new as its log. `Converged`
says nothing before the network is quiet; `ConvInv` says what must be true until
then:

- `Known`: rows, logs and messages hold only changes some client wrote;
- `Distinct`: a timestamp belongs to one written change;
- `Newest`: a row is at least as new as its cluster's log and the messages that
  arrived there;
- `Sent`: what was forwarded is on the wire for every peer.

When it is quiet, every row therefore beats every written change, so any two rows
beat one another, have one timestamp and are one change. `RegionAssumption` says
that "no row" is not a change and that an id begins with itself.

### Only model-checked

Liveness (`EventuallySettled`, `ElectionProgress`, `AcquireReturns`,
`ProcessReturns`, `CallsReturn`, `StartReturns`): fairness and
`ENABLED` are out of the prover's reach. The four violations of section 5 are
counterexamples on one instance and need no proof.

## 5. Where the code and its documents disagree

- `standby_data_loss`: before the node leads, the loop takes events from the
  stream and drops them (`main.rs:138-141`); a later checkpoint passes them, so
  no restart reads them again. `failover.rs:47` promises "to resume replication
  without data loss". With today's timers (election of node 1 after about 400 ms,
  first Postgres event after about 650 ms) the order usually comes out right; only
  the timers make it so.
- `shutdown_race`: a turn of the loop that passed its check of the flag sets
  `is_leader` after `shutdown()` has returned, and the loop then ends: the node
  stays leader. `SteppedDownForGood` is what does hold.
- `schema_modes`: Backward lets a required field be added and Forward lets one be
  dropped, while `validate_event` requires every field: each mode gives the
  guarantee its comment promises for the other.
- `echo_origin_tag`: `tests/multi_cluster_sync_test.rs:37` speaks of an "echo event
  tagged with origin us-east-1" that EU-West holds back. `should_forward` holds back
  what is tagged with the asking cluster's own id (`sync/mod.rs:40`): tagged with its
  origin, the change leaves EU-West again. The test's event is tagged
  `remote-eu-west-1-tx`, so it passes. The echo is not applied anywhere twice
  (`LoopsDieOut`); it costs messages.

Known and not given a run of their own:

- A candidate becomes leader without a vote (`consensus/mod.rs:66-78`, whose
  comment says "winning majority vote"): in the `coordinator` run both nodes lead
  at once. `main` starts one node.
- `prune` clears live transactions too (`buffer/mod.rs:54`, "Clean up
  expired/orphaned transactions"): `FlushIsTransaction` exempts transactions it
  hit. `main` does not call it.
- The chunk of a snapshot is reconciled with rows whose transaction may still be
  rolled back (the buffer comes later in the loop), and with rows of any table that
  have an equal key. With `"rolled back"` or `"other table"` added to `Origins` in
  `MCSnapshots.cfg`, `SnapshotConsistent` fails after one write.
- With both callers of `tenant_router` on one thread (a constant `MCThread`)
  `CallsReturn` fails: a task suspended with the guard is not polled again while
  the other blocks the thread in `write()`. tokio's mutex suspends only under
  contention or when the task's budget is used up, so it takes load to happen.
- `set_tenant_quota` gives a full bucket: `QuotaBound` counts from the last call.
  A Delete, which has no `after`, is charged and routed under its database
  instead of its tenant.
- Reloads that overlap may finish in either order, since modules are compiled
  before the lock: `LaterReloadWins` holds for calls that follow one another.
- `resolve_conflict` prefers its first argument on equal timestamps, so two
  clusters that wrote at the same instant each keep their own row; with a
  timestamp admitted twice `Converged` fails. The prefix test of `should_forward`
  makes `us-1` hold back what is tagged `remote-us-10`.
- An ended ingestion task is not restarted while the process goes on leading
  (`main.rs:228`): what it has not settled waits for the next start of the process.
- The jitter of `retry_with_backoff` comes after the cap: a sleep may be a quarter
  longer than `max_delay`. A lease that was claimed is never given back.
- Two registrations that both passed their check are both saved: `EvolutionSafe`
  fails with two `Registrants`.

## 6. Bounds and abstractions to keep in mind

- A `put` of RocksDB survives a crash of the process; loss of the machine's page
  cache is not modelled.
- `acquire(n)` with `n` above the capacity never returns, and a refill rate of 0
  has no finite wait; both are excluded (`main` uses 1 of 1000 at 500/s).
- `chunk_size = 0` and keys near `u64::MAX` are excluded in `ParallelSnapshotter`.
- The `u32` counter of the Confluent registry is not wrapped: that takes more than
  four billion ids, and `FramesDecode` speaks of ids below 2^32.
- The repository's sources give every event an id of its own, so within one
  incarnation the filter fires only on other sources; `pipeline_source` has one.

## 7. Plan

Done: inventory; engine, buffer and filter (composed in `IngestStage`), sources
with their retries, coordinator, failover controller, token bucket and tenant
quotas, parallel and watermark snapshotter, schema registry, Confluent registry,
plugin registry, key management, cross-region sync; two abstract specifications
and the refinements that implement them; proofs of every safety property the
passing runs check.

Next, in this order:

1. Composition of the watermark snapshotter with the transaction buffer in the
   order of `main.rs` (the rollback case end to end).
2. The schema registry in the engine: a registration while the task runs, so that
   the verdict on an event changes between two reads of it.
3. Wrap-around in `ParallelSnapshotter` with scaled-down words.

## 8. Not modelled

Metrics and observability (counters that are rendered and never read back), the
stdout sink, `serialize_event` (one call of a library), masking and hashing in
`security/mod.rs` (pure rewriting of one event's fields, with a key provider that
nothing rotates), the `KeyHash` and `RoundRobin` strategies of the router (they
hash another part of the event; `main` prints the result), and the command line.
