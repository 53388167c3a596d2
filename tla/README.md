# e-cat: a verification project in TLA+

e-cat is a Rust microservice framework of some ninety crates. Most of them are
adapters: clients of databases, brokers and registries, transports, codecs,
telemetry. The logic that is the framework's own, and hard to get right, is in the
data layer: transactions over several databases, sagas, the transactional outbox,
sharding and its migrations, tiering, locks, circuit breakers. This directory holds
TLA+ models of that logic, TLC configurations that check them on small instances, and
TLAPS proofs of the results that matter most.

    tlc -workers 2 -config MCTwoPhase.cfg MCTwoPhase     # one run
    tlapm TwoPhaseProofs.tla                              # one proof

`PROJECT.json` lists components, runs, the mutated definition that each property
catches, the lines of source every definition stands for, the hazards the properties
were chosen for, and the theorems.

## Inventory

| Component | State it keeps | Operations | What is hard | What makes it correct |
|---|---|---|---|---|
| `ecat-data-2pc` | rows of `distributed_tx`; a pinned connection per branch; the branches in their databases | `begin`, `commit`, `rollback`, `recover`; XA statements | crash between any two writes, lost answers, two recoverers | branches agree; the log and the caller are told the truth; every transaction is resolved |
| `ecat-saga` | rows of `saga_instances` and `saga_steps`; context | `run`, `resume` (forward, compensate) | two tables written one after the other; stop at any await; resume in either direction | completed = applied, compensated = undone, in reverse, always ends |
| `ecat-circuit-breaker` | state, sliding window, half-open permits | `call`, cancellation of a call | results that arrive in another state than the one that admitted them; cancelled probes | no permit leaks, opens on fresh evidence, recovers |
| outbox (`ecat-data-sharding`) | rows of `ecat_outbox` with lease and backoff; a relay's batch | `append`, `claim`, `mark_done`, `mark_failed`, the relay's loop | leases that run out under a handler, late marks, crashed relays, records that always fail | nothing lost, done is final, one relay at a time, all delivered |
| Snowflake ids | one atomic word per worker | `next_id` | racing threads, a clock that goes back, restart | ids unique and growing |
| online migration (`ecat-data-sharding/migrate`) | jobs with phase, cursor, counts; the router's catalog | `diff`, `backfill`, `verify`, `cutover`, `rollback`, dual writes | writes during the migration, operators that overlap, a fence that expires, restart after a rollback | reads find the last write; a migration can be finished |
| catalog, router, scatter, budget | shard table, pools | routing a key, merging partial results, reload | ranges and buckets at their edges; stale copies on old shards | every key has one shard, on which plan and router agree |
| `ecat-data-tiering` | chunks with phase and checksum; partitions; cold objects and tables | `run_once`, `restore_partition`, `query_range` | count, then `DROP PARTITION`; lock TTL; crash between them; pages over the boundary | no row is dropped that is not in cold storage, and it is found there |
| `ecat-lock`, Redis lock | a key with token and TTL, a fencing counter | acquire, renew, release | expiry under a holder, lost answers | a stale holder does no harm to the next |
| `ecat` lifecycle, `ecat-data` worker, transports | hooks, a slot per worker, a watch channel; senders and tasks of servers | `run`, `shutdown`, `wait`, server `start` and `stop` | stop racing start, waiters that are dropped, hooks that fail | a wait that returns means ended; Ok means down; a stop ends |
| scheduler, events, mq, registry, client, config, middleware | a table or counter behind one lock | register, publish, watch, retry, limit | little that is concurrent | per component |

How they meet: recovery (2PC), migration and tiering take a lock of `ecat-lock`; the
saga, the outbox, 2PC and the migration keep their rows through `RdbmsClient`, of which
`ecat-data` routes and protects the calls with the circuit breaker; relays and archive
jobs are workers that the application's lifecycle starts and stops. The migration reloads
the catalog of the router that scatter queries and dual writes go through; tiered queries
read what the archive job has moved.

## Modules

| Module | Role |
|---|---|
| `AtomicCommit` | abstract specification: what a distributed transaction promises |
| `TwoPhase` | `coordinator.rs`, `recovery.rs`, `xa.rs` |
| `Saga` | `saga.rs`, `state.rs` |
| `CircuitBreaker` | `breaker.rs`, `window.rs`, `tower.rs` |
| `Outbox` | `outbox.rs`, `outbox/relay.rs` |
| `Snowflake` | `id.rs` |
| `RedisLock` | the lock of `ecat-lock` as `ecat-data-redis` implements it; used by the next two |
| `Catalog` | `catalog.rs`, `migrate/plan.rs`: routing and plans, as operators |
| `Migration` | `migrate/`, `router.rs`, `scatter.rs`: operators and an application; composes `Catalog` and `RedisLock` |
| `TieredQuery` | `query.rs`, `query/clickhouse.rs` of tiering, as operators |
| `Tiering` | `archive.rs`, `state.rs`, `sink/`, `partition.rs`; composes `RedisLock` and `TieredQuery` |
| `Lifecycle` | `ecat/src/lib.rs`, `worker.rs`, the transports' `start` and `stop` |
| `TwoPhaseProofs`, `SagaProofs`, `CircuitBreakerProofs`, `OutboxProofs`, `SnowflakeProofs`, `MigrationProofs`, `TieringProofs`, `LifecycleProofs` | theorems and proofs about each; `MigrationProofs` also about `Catalog`, `TieringProofs` also about `TieredQuery` |
| `MC*` | what TLC runs: the instances; `MCSnowflake` adds a symmetry set |

In every module an action is what happens between two points at which another actor
can get in: an await, a lock, an atomic access, a database statement.

### TwoPhase

`log` is the table `distributed_tx`, `branch` the state of each branch in its
database, `pin` the participant's map of connections, `task` the future running
`begin`, `commit` or `rollback`, and `rec` the calls of `recover()` with the rows each
has read. A statement is answered Ok, fails without effect, or takes effect and loses
its answer (`Effect`). `CommitEnd`, `CommitPrepare`, `CommitLogPrepared`,
`CommitLogCommitting`, `CommitBranch` and `CommitLogCommitted` are the stages of
`commit()`; `UndoLogRolling`, `UndoBranch`, `UndoLogRolledBack` those of `rollback()`,
`abort()` and `rollback_started()`. `Cancel` drops the future: `DistributedTx` has no
`Drop`, so pins and row remain. The process crashes in any phase; `Restart` runs
recovery before `Serve`, as the comment on `recover` asks.

Assumed of the databases: a prepared branch survives its connection, an unprepared one
is rolled back when its connection is lost (`DbRollback`), a statement in flight at a
crash takes effect before recovery starts or never, and an unknown xid is reported as
such, which the participant takes for Ok. The fence is not modelled: two recoverers run
side by side, as they can without one or when its TTL is over.

Left out: the statements a transaction executes, the dialects' SQL text, the
difference between MySQL's ACTIVE and IDLE.

### Saga

`inst` and `step` are the two tables, `effect` what the services did, `runner` a future
with the state it has loaded. `MarkDone`/`SaveDone`, `MarkFailed`/`SaveCompensating`,
`MarkUndone`/`SaveUndone` and `MarkUndoFailed`/`SaveFailed` are the pairs of writes that
`forward` and `compensate` make; `Stop` can fall between them, and stands for a crash, a
dropped future and a store error alike. A context is the set of steps whose results it
carries. A step that reports an error is taken to have had no effect: the code does not
compensate it. Sagas are run by one process at a time; the store has no lock or version,
and nothing in the code promises more.

### CircuitBreaker

A call is admitted under the lock (`AdmitClosed`, `AdmitAfterCooling`, `AdmitProbe`),
runs unlocked, and is recorded under the lock in whatever state the breaker then is
(`Complete...`); `Cancel` is the drop of the future, with or without a permit. Elapsed
times are ages that stop at the duration they are compared with. `current`, `since`
and `healthy` are history and environment: which calls the present half-open period
admitted, how many results were recorded since the breaker closed, and how the backend
answers. The failure ratio is a fraction, so that the comparison is exact.

### Outbox

`row` is the table, with the two timestamps as ticks to `next_attempt_at` and since
`claimed_at`; `queue` are the rows a claim may select, in the order of its `ORDER BY`.
`Claim` is the transaction of `claim`: take back what is over its lease, select, take.
Ids are `1..NumIds`, in the order of the second `ORDER BY` column; `Keep` is the part of an
order that is in a set. `Handle`, `MarkDone`, `MarkFailed`, `NextRecord` are the loop of `run_once`; `Stop` is a
crash or a database error. `Poison` records always fail. Errors of other handlers, stops
and leases that run out under a working relay draw on one budget, `MaxFaults`; `late`
remembers that a lease did, against the rule that the comment on `OutboxRelay` gives its
users. `owner` is history: the relay that claimed a row, while it is processing.

### Snowflake

The three accesses of `next_id`, to the state, to the clock and to the state again, are
steps of a thread. Bits are abstracted to radixes: `PerMs` for 2^12 and `WorkerIds` for
2^10; shifts are products. `Tick` and `Rollback` move a worker's clock. The model is the
life of one generator per worker: a restart begins at `STATE_UNSET` again, so a clock
that goes back over it goes unnoticed, and ids can repeat.

### RedisLock

One key that holds a token. A token is fresh per acquire, so the holder's name stands for
it, and `Orphan` for a token nobody has any more: its owner died, or `with_timeout` gave
up on a command that Redis executed all the same. `SET NX PX` and the compare-and-delete
and compare-and-expire scripts are one step each. The fence number that `acquire_fenced`
returns is not state here: it goes up on every attempt, and `validate_fence` has no caller.

### Catalog and Migration

`Catalog` has `Valid`, what the parser and `validate` accept, `ShardFor` (range: partition
point; hash: a constant function modulo the number of shards) and `Diff`, the plan between
two catalogs. `RangeMoves` is the loop over the intervals of both boundary lists
(`Interval`, of the boundaries in order, `Nth`), whose body `Extend` appends a move or
lengthens the last one; `FullCopyMoves` is for everything else.

In `Migration`, `data` is a version per shard and row, `job` the table
`shard_migration_jobs`, `router` which catalog has been loaded, `pc` and `loc` the
operators' processes, `app` a write of the application on its way and `writes` the number
that were made. `Backfill`, `OpenMove`,
`Reopen`, `CheckFence`, `ScanChunk`, `CopyRow`, `SaveChunk` and `EndBackfill` are
`backfill` with `backfill_move`, statement by statement; `StartVerify`, `VerifyLoad`,
`VerifySource`, `VerifyTarget`, `SaveVerified` are `verify`; `Cutover`, `Reload`,
`Rollback` and `SaveFinal` are the last two calls. `BindWrite`, `WritePrimary` and
`WriteMirror` are a write through `DualWrite`, whose clients are bound before the first
statement and stay bound over a reload. A checksum is the set of rows it was taken over
and XOR the symmetric difference, so that rows met twice cancel as they do in the code.
`MirrorFails`, `Fail`, `Crash` and `Lapse` are the faults.

Nothing but the fence of `backfill` keeps operators apart, and rows are upserted whatever
the target has. So the histories `overlap` (a row was copied by a backfill that was not
`Alone`) and `behind` (a mirror write failed where no later verify compares it) bound what
is promised, and the properties exclude rows that a full copy moves onto their own shard
(`SelfCopied`).

### Tiering and TieredQuery

`hot` is the partition, `st` the rows of `tier_archive_jobs`, `objects` the S3 objects,
`table` the ClickHouse table, `again` the rows that were inserted there more than once (a
retried write inserts its rows anew, `ClickhouseInsert`), `meta` manifests or checksum rows. `Begin`, `Select`, `Load`,
`Read`, `WriteRows`, `WriteMeta`, `Seed`, `Copy`, `Verify`, `CountRows`, `Drop`, `Mark`,
`End` are `run_once` and `archive_partition`, one step per call of database, sink or lock;
`Exchange` and `Reset` are `restore_partition`. `Insert`, `Age` and `Day` are the
surroundings, `Budget`, `Fail`, `Crash`, `Lapse`, `BeginLost` and `RestoreDies` the faults.
`conf` is one of the configurations: either sink, with or without sampling, a filter, a dry
run. `overlap`, `lapsed` and `torn` remember that two jobs met, that a lock ran out under
one, and that a restore met a job or died before its reset.

`TieredQuery` has `QueryRange` with its three cases, the two sides' ranges (the hot one
closed, the cold one half-open) and `fmt_time`, which drops the fraction of a second. It
works on stored copies of rows: the query has no `FINAL`, so the copies that a retried write
left count towards `LIMIT` and `OFFSET` until ReplacingMergeTree folds them, which it does at
a time of its own; the properties quantify over what it has folded (`Copies`). Only a range
over the boundary is deduplicated (`Dedupe`). The expected page (`Between`) is the documented
one, `[from, to]`.

### Lifecycle

`run` is the position of `App::run`; `worker`, `signal`, `slot` and `mutex` are the
workers' tasks, watch channels, and the `Mutex<Option<JoinHandle>>` of `WorkerHandle`;
`user` the others that hold clones of a handle; `task`, `tx`, `serve`, `handle`, `conn`
the servers. `StartHook` to `Finish` are `run`; `UserShutdown`, `UserWait`, `UserJoin`,
`UserDrops` the handle's methods; `Bind`, `Store`, `SpawnServe`, ... are `start` of an HTTP,
a gRPC or a WebSocket server, whose order differs, in the task that `run` spawned for it.
`missed` remembers a server whose `stop` ran before `start` had stored what it takes.
A WebSocket connection is answered first (`Upgrade`) and in the `JoinSet` later (`Upgraded`).
`stop` waits for the serve loop (`AwaitServe`), whose error returns from it at once and is
only logged by `run`, and then for the set: until it is empty (`DrainConns`) or until the
deadline (`DrainTimeout`), where `abort_all` is called and not waited for. `drain` remembers
which. Nothing makes a connection end: `ws_loop` looks at the close signal only when the
handler yields.

## Runs

| Run | Instance | Properties |
|---|---|---|
| `two_phase` | 1 transaction, 3 participants, 2 recoverers, 3 faults, 2 crashes | `TypeOK`, `Atomicity`, `FinalLogIsTrue`, `CallerIsTold`, `DecisionStable`, `ImplementsAtomicCommit`, `RecoveryResolves` |
| `saga` | 4 steps, 4 stops | `CompletedIsApplied`, `CompensatedOrFlagged`, `EffectsInOrder`, `Terminates` |
| `breaker` | 3 callers, 2 permits, 3 cancellations, window 2, threshold 1/2 | `TypeOK`, `NoPermitLeak`, `OpensOnFreshEvidence`, `Recovers` |
| `outbox` | 3 records (two poison), 2 relays, batches of 2, 2 faults | `TypeOK`, `LeaseExclusive`, `DoneIsFinal`, `EventuallyDone` |
| `snowflake` | 2 workers of 2 threads, 2 ids per millisecond, clock to 2, 1 rollback | `TypeOK`, `Unique`, `NoFalseRollback`, `Increasing` |
| `tiering` | 2 jobs, 3 rows and a late one, chunks of 2, 5 configurations, 1 fault, 1 restore; queries over 3 ids, 4 times, limits and offsets 0, 1, 2 and 6, one further copy of a row | `TypeOK`, `QuietRowsKept`, `CountedIsArchived`, `OneJobPerLock`, `RestoredIsVerifiedAgain`, `DroppedRowsFound`, `QuietPartitionDropped` |
| `migration` | 4 keys, chunks of 1, 7 setups of 1 or 2 operators with up to 2 writes, 1 rollback, 1 fault; plans between all catalogs of up to 3 shards | `TypeOK`, `PlanIsExact`, `RoutedIsLatest`, `ScatterAgrees`, `LateRowsBounded`, `QuietMigrationFinishes` |
| `lifecycle` | 3 applications of up to 2 workers, a hook that may fail, 2 users, 3 servers, 2 WebSocket connections | `TypeOK`, `WaitMeansEnded`, `OkMeansDown`, `SignalEndsRun` |

Why these bounds are enough to be of use. 2PC: a lost answer and a second fault on the
way back, a crash in the commit and another in its recovery, and a participant before,
at and after the one that fails; transactions meet only in the loop of a recovery, and
the safety properties are proved for any number of them. Saga: a stop in each of forward, resumed forward,
compensation and resumed compensation. Breaker: five results fit in a window, a permit
can outlive its half-open period while two others are borrowed. Outbox: a batch that is
not the whole queue, a lease that expires between two records of a batch, poison
records that fill a batch and come first. Snowflake: the sequence is used up, both threads
race for its last place, the clock goes back below the last id, and runs past
`MAX_TIMESTAMP`. Tiering: a chunk that is full and one that is not, a late row between the
others, a fault in the first archive and then a restore, or the other way round; the
fault may be the lock that expires, after which the second job starts; a limit of 6 covers
every copy of three rows, the smaller ones cut through them. Partitions are
walked one after the other and share only the time budget. Migration: a move of several
chunks, a write before, in and behind the chunk that is being copied, a rollback with a
second backfill, a boundary that moves either way, a full copy with a shard that stays, one
that goes and one that comes. Lifecycle: a worker before and after a hook that fails, two
waiters besides `run`, every server starting while it is stopped, and a connection that ends
while another is being upgraded.

What the runs of the three newest modules show. An archive job loses no row of a partition
that nobody writes to, whatever stops it and even with two jobs at once; with late writers
it loses only rows inserted between its count and its `DROP PARTITION`, as long as jobs run
one at a time and no restore meets one. The last condition is needed: without it TLC finds,
with one job, ClickHouse, five ids, chunks of two, one fault and one restore, that a job which
began before the reset and writes its state row after it leaves a row behind a gap. The next
walk counts the rows of that chunk twice, and the count makes up for late rows that were never
copied, although `archive.rs:373` takes a row outside the cursor to show as a difference.

A migration keeps
reads by key right at every moment, a scatter query after the cutover, and can be finished
from any state that crashes and rollbacks leave, within the exclusions above. A wait never
reports a running worker as ended, and a signal leads to the end of `run`, unless a server
was stopped before it had started. Its Ok means that workers, server tasks and drained
connections are down; a WebSocket connection can be left in three ways only: its upgrade was
under way when `stop` locked the set, the drain ran into its deadline, or the serve loop had
failed. The rows of a dropped partition are found by a query over the boundary; while a
retried write has left further copies, only by a page that ends after all of them.

`CHECK_DEADLOCK FALSE` is set for 2PC (a resolved transaction with no crash left) and
the saga (a terminal row): both may stop for good.

### Where the code and its comments disagree

Each of these runs checks what a comment or document says, and TLC finds a behaviour of
the code that does otherwise.

| Run | Says | Does |
|---|---|---|
| `saga_lost_compensation` | `saga.rs:143`: the steps that are Done are compensated | a step skipped by a resumed `forward` leaves `current_step` behind; after a second stop compensation starts below it, and the saga ends `Compensated` with a Done step |
| `saga_skipped_failure` | `saga.rs:143`, `docs/data-layer-scaleout.md:211`: a failed compensation stops and needs a person | a stop between `set_step(Failed)` and `save` lets `resume` pass over it and report `Compensated` |
| `outbox_late_mark` | `outbox.rs:275`, `outbox.rs:290`: a late mark does nothing | it turns a row Done, or Failed and due, that another relay has claimed since |
| `tiering_range` | `query.rs:17`, `query.rs:57`: a query returns the rows in `[from, to]` | a range that ends before the boundary leaves out the rows at `to` (`query/clickhouse.rs:96`); one that reaches the hot tier has them |

Two more disagree with a comment and have no run of their own:

* a response that `classify` takes for a failure, which `tower.rs:23` says counts as one,
  closes a half-open breaker and clears the window it was counted in (`breaker.rs:209`);
* `ecat-transport-ws/src/lib.rs:72` says that `stop()` can wait for all connections to end:
  one whose upgrade is under way, or that is aborted at the deadline, is not waited for.

Three more limits showed while modelling, about which no comment says otherwise: the stop of
`saga_lost_compensation` also loses the step's result from the context that later steps
get; a permit of an earlier half-open period, dropped in a later one, frees a place
there, so that one probe more than `half_open_probes` can be out; and the restart of an
id generator, above.

The newer modules showed more limits, and the properties are stated beside them:

* Migration. A full copy has moves from a shard onto itself (`plan.rs:72`): a write between
  the read and the upsert of such a row is lost, and verify compares the row with itself. A
  hash table that grows in place never passes verify, as rows copied to a shard that is also
  a source are met there again. Rows changed after they were copied, or behind the cursor
  after a rollback, make the source differ from the job for good: verify keeps refusing,
  which is safe. `verify`, `cutover` and `rollback` take no
  fence. A write that began after a cutover and ends after a rollback and a new backfill
  is overwritten. `reload` is per process. Before the cutover a scatter query may return a
  copy that the backfill has just made in place of the row that is written.
* Tiering. Rows that are older than `hot_days` and not archived yet are returned by no query
  (`query.rs:103`). A retried `write_chunk` leaves rows twice in ClickHouse
  (`sink/clickhouse.rs:193`), and queries read them without `FINAL`: a range in the cold tier
  alone returns them twice, and pages over the boundary can miss rows. With the copies 1, 1, 2
  cold and 3 hot and pages of two, the first page is 1 and 3 and the second is 3.
  `release` of a lock that is somebody
  else's by now is an Ok.
* Lifecycle. `stop` of a server that has not stored its sender yet is lost, and `run` waits
  for its task for ever (a comment at `ecat-transport-grpc/src/lib.rs:318` knows). A start
  hook that fails leaves the workers before it running; a stop hook that fails skips the
  hooks after it and every `server.stop()`. A `wait` between the spawn of a worker and
  `set_task` returns Ok at once.

The passing properties are stated so as to hold beside these: `CompensatedOrFlagged`
speaks of the steps up to the `current_step` of the row and excepts the ones whose row
says Failed; `NoPermitLeak` bounds the count from the side that the stale permit does
not reach; `DoneIsFinal` holds whoever marks.

### Fairness

* `TwoPhase!FairSpec`: the process is restarted and recovery runs to its end before it
  serves; databases notice lost connections. Nothing is assumed of callers, and
  statements may fail as long as the fault budget lasts: `RecoveryResolves` is about
  crashes after that.
* `Saga!FairSpec`: a stopped saga is resumed, as the owner of a saga has to do, and a
  running one goes on.
* `CircuitBreaker!FairSpec`: time passes, callers keep calling, a call that is not
  cancelled ends.
* `Outbox!FairSpec`: time passes; `run_until` polls for ever, and is started again after
  a crash or a database error.

* `Tiering!Spec`: `run_until` starts a run every minute, and its worker is started again;
  days pass; an operator who has exchanged a partition goes on to the reset.
* `Migration!Spec`: a call that was made goes on; operators call `backfill`, `verify` and
  `cutover` again and again, which is strong fairness, as a call may find the fence taken or
  the jobs not ready; a write that was bound is sent; the TTL of a token nobody has passes.
* `Lifecycle!Spec`: the runtime polls every task, tokio's mutex is fair (strong fairness of
  taking it), and a worker that has seen the signal stops. HTTP and gRPC requests under way
  and the serve loop of a WebSocket server end once they are told to stop (`Serve`,
  `EndServe`): the code has no deadline for them. A user that holds a wait polls it
  (`UserJoin`) or drops it; one that kept a wait unpolled would keep the slot's lock from
  `run`. Nothing is assumed of WebSocket connections, for which there is the deadline.

Cancellation, crashes, faults, clock rollbacks, appends, writes, rollbacks, restores and
signals are never fair.

## Proofs

For all values of the constants, under the assumptions named in each module (`ASSUME`):

* **`TwoPhaseProofs`**: `TypeCorrect`, `AtomicityHolds`, `FinalLogHolds`,
  `CallerIsToldHolds`, `DecisionStableHolds`, `Implementation`. None of these is
  inductive: whether a commit may go on depends on what the row says, on what every
  branch has answered so far, and on which rows recoverers hold. The inductive
  invariant `IInv` is `TypeOK /\ LogOK /\ TaskOK /\ RecOK`. `LogOK` ties each status of
  the row to what the branches can be (`prepared` and `committing`: every branch
  prepared or committed; the rollback side: none committed). `TaskOK` says for each
  position of the future which branches are already done and what the row can be, a
  written row whose answer was lost included. `RecOK` says that a row read by a recoverer
  still determines the same decision, however late it is replayed. The refinement maps
  each branch to the resource manager of `AtomicCommit`; each action is a step of one
  branch or a stutter.
* **`CircuitBreakerProofs`**: `TypeCorrect`, `NoPermitLeakHolds`,
  `OpensOnFreshEvidenceHolds`. `IInv` adds `Evident`: while the breaker is closed the
  window holds no more results than were recorded since it closed. Cardinality lemmas
  relate the count to the set of permit holders.
* **`SnowflakeProofs`**: `TypeCorrect`, `UniqueHolds`, `IncreasingHolds`,
  `NoFalseRollbackHolds`. `IInv` adds `SwapRaises` (what a thread is about to store is larger
  than what it loaded) and `Covered` (every issued id is at or below its worker's state), and
  that `issued` is finite with `count` elements. Lemmas about packing, order and splitting of
  ids carry the arithmetic. For the last theorem `NotAhead` says that, while no clock has gone
  back, neither the state nor what a thread has loaded or will store is ahead of its clock.
* **`SagaProofs`**: `TypeCorrect`, for any number of processes; `CompletedIsAppliedHolds`,
  `CompensatedOrFlaggedHolds` and `EffectsInOrderHolds` under `OneRunner`, one process at a
  time, without which they are false: the store has neither lock nor version. `IInv` ties the
  two tables to each other and to the effects (`RowInv`: by the status of the saga, what the
  steps up to `current_step` and their rows can be) and says for each position of the future
  what it has loaded, and which of a pair of writes it has made (`RunnerInv`).
* **`OutboxProofs`**: `TypeCorrect`, `LeaseExclusiveHolds`, `DoneIsFinalHolds`, for any number
  of records and relays. `IInv` has `Types` (with: the queue lists the pending and failed rows
  once each, and is sorted by the wait that is left), `Delivery` (a relay marks Done only what
  its handler returned Ok for) and `Leases` (while no lease ran out under a relay, a row in its
  batch is processing, is its own, and as old as the time the relay has held it). That
  `Claim`, `Append` and the marks keep the order of the queue rests on lemmas about `Keep`.
* **`TieringProofs`**: `OneJobPerLockHolds`, `QuietRowsKeptHolds`, `DroppedRowsFoundHolds`,
  `TypeCorrect`, `RestoredIsVerifiedAgainHolds`, `CountedIsArchivedHolds`.
  For the first, a job at work has the lock or is known to have lost it. For the next two, the rows nobody writes to are cut into the same
  chunks by every walk (`Piece`): each state row, S3 object and walk is about its piece, and a
  walk that has passed a chunk leaves its piece in cold storage (`RowOK`, `JobOK`), however many
  jobs there are and whatever was restored; one that reads an empty chunk has passed them all.
  `PagesExact` is a lemma about `QueryRange` for any rows, range, limit and offset: the first
  `limit + offset` rows of each tier have the page of both (`MergedPage`), and a prefix that
  has all copies is, deduplicated, the rows (`FoldedPage`). `Renewed` is the invariant for the fifth.
  `CountedIsArchivedHolds` is about partitions with late rows, where a Pending chunk that is
  read anew may hold other rows than its state row says and an S3 key may have the object of
  another chunk. The job compares two numbers, and a sum does not say which rows it is made
  of; so the invariant `Tally` bounds it. There is a running total `t` of what the state rows
  count, and while the objects of the chunks before `c` are the ones their rows were taken
  over, `t[c]` is at most the number of archived rows up to the high id before `c`
  (`RowFits`). `JobFits` says the same of a job at each position of its walk, with what it has
  read, written or is about to verify. A count that equals the partition's then leaves no row
  outside of cold storage. The hard step is a Pending chunk on S3 whose object is already
  there: by `SameRead` two reads of the lowest rows above the same id, neither of which found
  a lower row outside of the other, are the same. `Restored` (between `EXCHANGE` and the reset
  the partition has every archived row) starts the argument anew after a restore. The types,
  `RestoredIsVerifiedAgainHolds` and this one assume `[]Walks`: no walk meets more chunks than
  the model has numbers for, a bound of the model that is not in the code. The run checks it
  as part of `TypeOK`.
* **`MigrationProofs`**: `PlanExact`, `PlanIsExactHolds`, `LateRowsBoundedHolds`,
  `TypeCorrect`, `RoutedIsLatestHolds`, `ScatterAgreesHolds`.
  `PlanExact` is about `diff` alone: between any two valid catalogs the plan carries every row that changes its shard in exactly one move, to the shard that the router
  will look for it on. The invariant of the loop of `range_moves` is `Moved`: the moves made so
  far are disjoint and cover just the keys below the present interval that change their shard.
  `LateRowsBounded` follows from `FInv`: who has the fence (`Fenced`), and that the rows a
  backfill copied without it and the ones left in its batch are no more than a chunk (`Late`).
  `TInv` adds that a job has counted no more rows than there are keys up to its cursor.
  `RoutedIsLatest` and `ScatterAgrees` need `Copies` and `Fresh`. `Copies` says where a row can
  be at all: on the shards that the old and the new catalog look for it on, and a batch in
  memory has rows of its move's target. `Fresh` says which of the two copies is what the
  application wrote, or will be once the mirror write on its way arrives: the old one always,
  the new one on every target that somebody may read from (`Sure`: the router has changed, all
  jobs of the target have passed verify, or a process has just compared it). Between verify's
  two checksums the claim is `Seen`: the source's checksum has a row that the target lacks, so
  that the comparison will fail, even when writes, upserts or a rollback come in between. What
  the XOR over the moves of a target contains is a lemma about the fold (`TotalHas`); that
  different rows have different checksums is the model's abstraction of the hash.
  A scatter query then agrees because no third copy exists and the two that do are the same.
* **`LifecycleProofs`**: `TypeCorrect`, `WaitMeansEndedHolds`, `OkMeansDownHolds`, for any
  hooks, workers, users and servers. `WorkerInv` says who holds the lock of a slot and what an
  empty slot means (the worker was not started or has ended), and that each stop hook that
  `run` has passed left its worker down; `ServerInv` follows sender, task,
  handle and connections of each kind of server through `start` and `stop`, and that a set which
  `stop` left empty stays empty.

What is assumed, besides that bounds are numbers: at least one step, participant, probe and
row per chunk, as the code's builders enforce; a valid catalog on both sides of a plan, as
`validate` demands (`SetupsAssumption`, `CatalogsAssumption`); finite sets of ids, times and
callers; names such as `Free` and `Orphan` that are no holder's (`HoldersAssumption`,
`NamesAssumption`); a worker and a server are registered once, since registering moves them
(`OnceAssumption`); the times queried span more than a second (`SpanAssumption`). TLC
evaluates each of these in the runs.

Recursion. The induction theorems of the library take an operator as parameter, which the
provers cannot instantiate. Where a recursive function had to be reasoned about (`Keep`,
`Factor`, the pieces of a partition, the loop of `range_moves`, the XOR over a set of moves)
the proofs use induction for a set of numbers, proved from the well-foundedness of `<`.

Only model-checked:

* All liveness (`RecoveryResolves`, `Terminates`, `Recovers`, `EventuallyDone`,
  `QuietPartitionDropped`, `QuietMigrationFinishes`, `SignalEndsRun`): beyond the prover.
* The bound on chunk numbers in `Tiering` (`Walks`, part of its `TypeOK`). It is a hypothesis
  of the theorems because it is a bound of the model: a restore that meets a job can leave
  state rows behind that make a later walk longer, so it has to grow with the restores allowed.

## Plan

Done: the modules above, and a theorem for every invariant and every action property of the
runs. Left:

1. An abstract specification for the outbox (each record delivered at least once, Done once)
   that `Outbox` implements.
2. The parts listed below.

## Not modelled

The map covers a small share of the repository's lines, and a larger one is not to be had
from models: of the fifty-five thousand lines most are adapters for databases, brokers,
registries and workflow engines, transports, TLS, ORM, codecs, telemetry, authentication,
command lines and examples: request building, parsing and formatting around libraries, with
no protocol of their own. A test against the real service says more about them than a model
of it would.

Of the framework's own logic:

* `ecat-data`: routing and timeout executors pass statements on; the breaker executor is
  `CircuitBreaker` around them. `ecat-data-sharding`: topology sources, proxy, health checks,
  the schema check before a migration, deletes and concurrent dual writes of one row (two
  may be applied in different orders on the two sides; nothing in the code orders them).
* Scheduler, events, mq, registry, client, config, middleware, health: one table or counter
  behind one lock each, or no state between two calls. Every operation is atomic, and unit
  tests reach what can go wrong; the one exception, `subscribe` of the event bus, is noted in
  `PROJECT.json`.
* Two processes on one saga, recovery in a process that serves, and a restart of an id
  generator: the code rules them out in comments or not at all, and the properties would not
  hold.
* Data races and memory ordering: the one lock-free structure, `Snowflake`, uses
  acquire/release on a single word, for which interleaving is exact.
