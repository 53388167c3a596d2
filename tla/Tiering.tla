------------------------------- MODULE Tiering -------------------------------
(***************************************************************************)
(* ecat-data-tiering: the archive job (archive.rs) that copies a partition *)
(* of a hot MySQL table to a cold sink (sink/s3.rs, sink/clickhouse.rs) in *)
(* chunks, verifies them and drops the partition; its state table          *)
(* (state.rs); and the restore of a dropped partition (partition.rs). The  *)
(* job takes the Redis lock of module RedisLock; the rows it has moved are *)
(* read through TieredQuery.                                               *)
(*                                                                         *)
(* One table with one partition: run_once walks its partitions one after   *)
(* the other and they share nothing but the time budget. A row is its id,  *)
(* a checksum is the set of rows it was taken over, and every call of the  *)
(* database, the sink or the lock is a step; verify_chunk is one step with *)
(* the advance that follows it. Only inserts touch a partition that is old *)
(* enough to be archived.                                                  *)
(***************************************************************************)
EXTENDS Naturals, FiniteSets, FiniteSetsExt, RedisLock, TieredQuery

CONSTANTS
  Ids,          \* row ids
  InitRows,     \* the partition at the start
  Matching,     \* the rows that TableTieringConfig::filter selects
  Configs,      \* the configurations: sink, sample, filter, dryRun
  Batch,        \* batch_size
  Retain,       \* retain_s3_days
  MaxFaults,    \* bound: crashes, failed calls, lost answers, budgets that run
                \* out, locks that expire under their holder
  MaxRestores,  \* bound: restores of the partition
  MaxCopies     \* bound: further copies of a row in the ClickHouse table

ASSUME RowsAssumption ==
  /\ Ids \subseteq Nat \ {0} /\ IsFiniteSet(Ids)
  /\ InitRows \subseteq Ids /\ Matching \subseteq Ids
ASSUME BoundsAssumption ==
  /\ Batch \in Nat \ {0}   \* run_once refuses batch_size = 0
  /\ Retain \in Nat /\ MaxFaults \in Nat /\ MaxRestores \in Nat
  /\ MaxCopies \in Nat
ASSUME ConfigsAssumption ==
  Configs \subseteq [sink : {"s3", "clickhouse"}, sample : BOOLEAN,
                     filter : BOOLEAN, dryRun : BOOLEAN]
\* The times queried span more than one second.
ASSUME SpanAssumption == Min(QTimes) < FmtTime(Max(QTimes))

VARIABLES
  conf,     \* the configuration, fixed
  exists,   \* the partition is there
  hot,      \* its rows
  old,      \* no row of it is younger than hot_days
  st,       \* tier_archive_jobs: the state row of each chunk
  objects,  \* S3: the chunk objects; {} is no object
  table,    \* ClickHouse: the rows of the cold table
  again,    \* ClickHouse: the rows inserted more than once
  meta,     \* the manifest (S3) or checksum row (ClickHouse) of each chunk
  pc, loc,  \* the archive jobs and their local variables
  restore,  \* the operator: idle, or between EXCHANGE and reset_partition
  restores,
  known,    \* history: every row the partition ever held
  fresh,    \* history: the chunks verified since the last EXCHANGE
  lapsed,   \* history: jobs whose lock ran out under them
  overlap,  \* history: two jobs have been at work at once
  torn,     \* history: a restore met a job at work, or died before its reset
  faults

vars == <<lock, conf, exists, hot, old, st, objects, table, again, meta,
          pc, loc, restore, restores, known, fresh, lapsed, overlap, torn, faults>>
part   == <<exists, hot, old>>
cold   == <<objects, table, again, meta>>
oper   == <<restore, restores, torn>>
ghosts == <<known, fresh, lapsed, overlap>>

Runners == Holders
Chunks == 0..(2 * Cardinality(Ids))
Phases == {"none", "pending", "copied", "verified", "dropped"}
NoRow == [phase |-> "none", high |-> 0, rows |-> 0, sum |-> {}, age |-> 0]

\* The variables of archive_partition; verified_at is kept as the days since.
Start == [chunk |-> 0, cursor |-> 0, allVerified |-> TRUE, copiedAny |-> FALSE,
          archived |-> 0, age |-> Retain, rows |-> {}, seed |-> FALSE, mark |-> 0]

Init ==
  /\ lock = Free
  /\ conf \in Configs
  /\ exists = TRUE /\ hot = InitRows /\ old = FALSE
  /\ st = [c \in Chunks |-> NoRow]
  /\ objects = [c \in Chunks |-> {}] /\ meta = [c \in Chunks |-> {}]
  /\ table = {} /\ again = {}
  /\ pc = [r \in Runners |-> "idle"] /\ loc = [r \in Runners |-> Start]
  /\ restore = "idle" /\ restores = 0 /\ torn = FALSE
  /\ known = InitRows /\ fresh = {} /\ lapsed = {} /\ overlap = FALSE
  /\ faults = 0

Fault == faults < MaxFaults /\ faults' = faults + 1
Working(r) == pc[r] # "idle"
To(r, p) == pc' = [pc EXCEPT ![r] = p]
Set(r, l) == loc' = [loc EXCEPT ![r] = l]

\* run_once goes on to the release of the lock, with a result or an error.
Leave(r) == To(r, "release") /\ Set(r, Start)

-----------------------------------------------------------------------------
(* The cold sink                                                           *)

Archived == (UNION {objects[c] : c \in Chunks}) \cup table

\* The data half of write_chunk: an S3 object is put unless its key exists.
S3Write(c, rows) ==
  /\ conf.sink = "s3"
  /\ objects' = IF objects[c] = {} THEN [objects EXCEPT ![c] = rows] ELSE objects
  /\ UNCHANGED <<table, again>>

\* ClickHouse inserts the rows, also those that a failed attempt has left there.
ClickhouseInsert(rows) ==
  /\ conf.sink = "clickhouse"
  /\ table' = table \cup rows
  /\ again' = again \cup (table \cap rows)
  /\ UNCHANGED objects

\* Mutant: the first row is left out of the VALUES list.
ClickhouseWriteShort(c, rows) == ClickhouseInsert(rows \ {Min(rows)})
ClickhouseWrite(c, rows) == ClickhouseInsert(rows)

\* verify_chunk against the checksum `sum`. S3 hashes the object and looks at
\* the manifest only to sample.
S3Verify(c, sum) ==
  /\ conf.sink = "s3"
  /\ objects[c] = sum
  /\ conf.sample => meta[c] = sum

\* ClickHouse compares the stored checksum, and reads the rows between the
\* first and the last id back only to sample, with FINAL: without further copies.
InRange(S) == {i \in table : Min(S) <= i /\ i <= Max(S)}
ClickhouseVerify(c, sum) ==
  /\ conf.sink = "clickhouse"
  /\ meta[c] = sum
  /\ conf.sample => InRange(sum) = sum

VerifyChunk(c, sum) == S3Verify(c, sum) \/ ClickhouseVerify(c, sum)

-----------------------------------------------------------------------------
(* The state table                                                         *)

Predecessor(p) ==
  CASE p = "copied" -> "pending" [] p = "verified" -> "copied" [] p = "dropped" -> "verified"

\* advance: one conditional UPDATE; in any other phase it is an error.
CanAdvance(c, p) == st[c].phase = Predecessor(p)
Advanced(c, p) == [st[c] EXCEPT !.phase = p, !.age = 0]

\* reset_partition. Mutant: only rows not yet verified are deleted.
ResetUnverified ==
  [c \in Chunks |-> IF st[c].phase \in {"verified", "dropped"} THEN st[c] ELSE NoRow]
ResetPartition == [c \in Chunks |-> NoRow]

-----------------------------------------------------------------------------
(* run_once: the lock                                                      *)

\* acquire. A job that finds the lock taken is skipped and changes nothing,
\* like one outside of its window.
Begin(r) ==
  /\ pc[r] = "idle"
  /\ Acquire(r)
  /\ To(r, "select")
  /\ overlap' = (overlap \/ \E q \in Runners \ {r} : Working(q))
  /\ torn' = (torn \/ restore = "exchanged")
  /\ UNCHANGED <<conf, part, st, cold, loc, restore, restores, known, fresh, lapsed, faults>>

\* acquire fails although the key was set: run_once returns the error.
BeginLost(r) ==
  /\ pc[r] = "idle" /\ AcquireLost /\ Fault
  /\ UNCHANGED <<conf, part, st, cold, pc, loc, oper, ghosts>>

\* release, whose own failure is ignored.
End(r) ==
  /\ pc[r] = "release"
  /\ \/ Release(r) /\ UNCHANGED faults
     \/ Forget(r) /\ lock = r /\ Fault
  /\ To(r, "idle") /\ lapsed' = lapsed \ {r}
  /\ UNCHANGED <<conf, part, st, cold, loc, oper, known, fresh, overlap>>

\* archive_tables: the partition is listed, and its young rows are counted.
Select(r) ==
  /\ pc[r] = "select"
  /\ To(r, IF exists /\ old THEN "load" ELSE "release")
  /\ UNCHANGED <<lock, conf, part, st, cold, loc, oper, ghosts, faults>>

-----------------------------------------------------------------------------
(* archive_partition                                                       *)

\* The chunk is done with: on to the next.
NextChunk(l) == [l EXCEPT !.chunk = @ + 1, !.rows = {}, !.seed = FALSE]

\* What a chunk that was copied before adds to the walk.
Count(l, s) == [l EXCEPT !.archived = @ + s.rows, !.copiedAny = TRUE, !.cursor = s.high]

\* verified_at: the latest of the chunks. Mutant: the time of this run.
VerifiedNow(l, s) == 0
VerifiedAge(l, s) == Min({l.age, s.age})

\* run_timeout: the walk breaks off, and is not complete.
Budget(r) ==
  /\ pc[r] = "load" /\ Leave(r) /\ Fault
  /\ UNCHANGED <<lock, conf, part, st, cold, oper, ghosts>>

\* load, and what archive_partition does with each phase.
Load(r) ==
  LET l == loc[r]
      s == st[l.chunk]
  IN
  /\ pc[r] = "load"
  /\ \/ s.phase = "dropped" /\ Leave(r)
     \/ /\ s.phase = "verified"
        /\ Set(r, NextChunk([Count(l, s) EXCEPT !.age = VerifiedAge(l, s)]))
        /\ UNCHANGED pc
     \/ /\ s.phase = "copied" /\ conf.dryRun
        /\ Set(r, NextChunk([l EXCEPT !.cursor = s.high])) /\ UNCHANGED pc
     \/ /\ s.phase = "copied" /\ ~conf.dryRun
        /\ Set(r, [Count(l, s) EXCEPT !.rows = s.sum]) /\ To(r, "verify")
     \/ /\ s.phase \in {"none", "pending"}
        /\ Set(r, [l EXCEPT !.seed = (s.phase = "none")]) /\ To(r, "read")
  /\ UNCHANGED <<lock, conf, part, st, cold, oper, ghosts, faults>>

\* read_chunk: id > cursor, the filter, ORDER BY id LIMIT batch_size.
\* Mutant: id >= cursor.
ReadChunkAgain(cursor) ==
  LET after == {i \in hot : i >= cursor /\ (conf.filter => i \in Matching)}
  IN  {i \in after : Cardinality({j \in after : j < i}) < Batch}
ReadChunk(cursor) ==
  LET after == {i \in hot : i > cursor /\ (conf.filter => i \in Matching)}
  IN  {i \in after : Cardinality({j \in after : j < i}) < Batch}

\* A dry run only counts; an empty chunk ends the walk.
Read(r) ==
  LET l == loc[r]
      rows == ReadChunk(l.cursor)
  IN
  /\ pc[r] = "read"
  /\ \/ ~exists /\ Leave(r)
     \/ exists /\ rows = {} /\ To(r, "count") /\ UNCHANGED loc
     \/ /\ exists /\ rows # {} /\ conf.dryRun
        /\ Set(r, NextChunk([l EXCEPT !.cursor = Max(rows)])) /\ To(r, "load")
     \/ /\ exists /\ rows # {} /\ ~conf.dryRun
        /\ Set(r, [l EXCEPT !.rows = rows]) /\ To(r, "data")
  /\ UNCHANGED <<lock, conf, part, st, cold, oper, ghosts, faults>>

\* write_chunk: first the data, then the manifest or checksum row.
WriteRows(r) ==
  /\ pc[r] = "data"
  /\ S3Write(loc[r].chunk, loc[r].rows) \/ ClickhouseWrite(loc[r].chunk, loc[r].rows)
  /\ To(r, "meta")
  /\ UNCHANGED <<lock, conf, part, st, meta, loc, oper, ghosts, faults>>

WriteMeta(r) ==
  /\ pc[r] = "meta"
  /\ meta' = [meta EXCEPT ![loc[r].chunk] = loc[r].rows]
  /\ To(r, IF loc[r].seed THEN "seed" ELSE "copied")
  /\ UNCHANGED <<lock, conf, part, st, objects, table, again, loc, oper, ghosts, faults>>

\* upsert of the Pending row, for a chunk that had none when it was loaded;
\* it overwrites whatever is there by now.
Seed(r) ==
  LET rows == loc[r].rows IN
  /\ pc[r] = "seed"
  /\ st' = [st EXCEPT ![loc[r].chunk] =
              [phase |-> "pending", high |-> Max(rows), rows |-> Cardinality(rows),
               sum |-> rows, age |-> 0]]
  /\ To(r, "copied")
  /\ UNCHANGED <<lock, conf, part, cold, loc, oper, ghosts, faults>>

\* advance to Copied, with the checksum: a Pending row keeps its high_id and
\* rows although the chunk may have been read anew.
Copy(r) ==
  LET l == loc[r] IN
  /\ pc[r] = "copied"
  /\ \/ /\ CanAdvance(l.chunk, "copied")
        /\ st' = [st EXCEPT ![l.chunk] = [Advanced(l.chunk, "copied") EXCEPT !.sum = l.rows]]
        /\ Set(r, [l EXCEPT !.archived = @ + Cardinality(l.rows), !.copiedAny = TRUE,
                            !.cursor = Max(l.rows)])
        /\ To(r, "verify")
     \/ ~CanAdvance(l.chunk, "copied") /\ Leave(r) /\ UNCHANGED st
  /\ UNCHANGED <<lock, conf, part, cold, oper, ghosts, faults>>

\* verify_chunk and the advance to Verified, for a chunk copied now or by an
\* earlier run.
Verify(r) ==
  LET l == loc[r] IN
  /\ pc[r] = "verify"
  /\ \/ /\ VerifyChunk(l.chunk, l.rows) /\ CanAdvance(l.chunk, "verified")
        /\ st' = [st EXCEPT ![l.chunk] = Advanced(l.chunk, "verified")]
        /\ fresh' = fresh \cup {l.chunk}
        /\ Set(r, NextChunk([l EXCEPT !.age = 0])) /\ To(r, "load")
     \/ /\ VerifyChunk(l.chunk, l.rows) /\ ~CanAdvance(l.chunk, "verified")
        /\ Leave(r) /\ UNCHANGED <<st, fresh>>
     \/ /\ ~VerifyChunk(l.chunk, l.rows)
        /\ Set(r, NextChunk([l EXCEPT !.allVerified = FALSE])) /\ To(r, "load")
        /\ UNCHANGED <<st, fresh>>
  /\ UNCHANGED <<lock, conf, part, cold, oper, known, lapsed, overlap, faults>>

\* The walk is complete: what has to hold before the partition is dropped.
\* Mutant: the number of rows is not compared.
DroppableUncounted(l) ==
  l.allVerified /\ l.copiedAny /\ ~conf.filter /\ ~conf.dryRun /\ l.age >= Retain
Droppable(l) ==
  /\ l.allVerified /\ l.copiedAny
  /\ ~conf.filter /\ ~conf.dryRun
  /\ l.age >= Retain                 \* retention_passed
  /\ Cardinality(hot) = l.archived   \* row_count_matches

CountRows(r) ==
  /\ pc[r] = "count"
  /\ \/ exists /\ Droppable(loc[r]) /\ To(r, "drop") /\ Set(r, [loc[r] EXCEPT !.rows = hot])
     \/ ~(exists /\ Droppable(loc[r])) /\ Leave(r)
  /\ UNCHANGED <<lock, conf, part, st, cold, oper, ghosts, faults>>

\* DROP PARTITION, an error when the partition is gone.
Drop(r) ==
  /\ pc[r] = "drop"
  /\ \/ exists /\ exists' = FALSE /\ hot' = {} /\ To(r, "mark") /\ UNCHANGED loc
     \/ ~exists /\ Leave(r) /\ UNCHANGED <<exists, hot>>
  /\ UNCHANGED <<lock, conf, old, st, cold, oper, ghosts, faults>>

\* One chunk after the other is advanced to Dropped.
Mark(r) ==
  LET n == loc[r].mark IN
  /\ pc[r] = "mark"
  /\ \/ n = loc[r].chunk /\ Leave(r) /\ UNCHANGED st
     \/ /\ n < loc[r].chunk /\ CanAdvance(n, "dropped")
        /\ st' = [st EXCEPT ![n] = Advanced(n, "dropped")]
        /\ Set(r, [loc[r] EXCEPT !.mark = n + 1]) /\ UNCHANGED pc
     \/ n < loc[r].chunk /\ ~CanAdvance(n, "dropped") /\ Leave(r) /\ UNCHANGED st
  /\ UNCHANGED <<lock, conf, part, cold, oper, ghosts, faults>>

-----------------------------------------------------------------------------
(* Faults                                                                  *)

\* A call to the database or the sink fails: the error ends the run. A call
\* that took effect and lost its answer is the same error one step later.
Fail(r) ==
  /\ pc[r] \notin {"idle", "release"} /\ Leave(r) /\ Fault
  /\ UNCHANGED <<lock, conf, part, st, cold, oper, ghosts>>

\* The process stops anywhere; it starts again without its token.
Crash(r) ==
  /\ Working(r) /\ Forget(r) /\ Fault
  /\ To(r, "idle") /\ Set(r, Start) /\ lapsed' = lapsed \ {r}
  /\ UNCHANGED <<conf, part, st, cold, oper, known, fresh, overlap>>

\* LOCK_TTL passes: over a token nobody has, or under a slow job.
Lapse ==
  /\ Expire
  /\ \/ lock = Orphan /\ UNCHANGED <<lapsed, faults>>
     \/ lock \in Runners /\ lapsed' = lapsed \cup {lock} /\ Fault
  /\ UNCHANGED <<conf, part, st, cold, pc, loc, oper, known, fresh, overlap>>

-----------------------------------------------------------------------------
(* The surroundings                                                        *)

\* The application inserts a late row.
Insert(i) ==
  /\ exists /\ i \notin known
  /\ hot' = hot \cup {i} /\ known' = known \cup {i}
  /\ UNCHANGED <<lock, conf, exists, old, st, cold, pc, loc, oper, fresh, lapsed, overlap, faults>>

\* The rows pass hot_days.
Age ==
  /\ ~old /\ old' = TRUE
  /\ UNCHANGED <<lock, conf, exists, hot, st, cold, pc, loc, oper, ghosts, faults>>

Older(n) == IF n < Retain THEN n + 1 ELSE n
Aged == [c \in Chunks |-> IF st[c].phase = "none" THEN st[c] ELSE [st[c] EXCEPT !.age = Older(@)]]

\* A day passes.
Day ==
  /\ Aged # st
  /\ st' = Aged
  /\ loc' = [r \in Runners |-> IF pc[r] \in {"idle", "release"} THEN loc[r]
                               ELSE [loc[r] EXCEPT !.age = Older(@)]]
  /\ UNCHANGED <<lock, conf, part, cold, pc, oper, ghosts, faults>>

\* prepare_staging, the load of the staging table from the cold tier and the
\* EXCHANGE of restore_partition, for a partition that was dropped and added
\* again; an empty staging table is refused.
Exchange ==
  /\ restore = "idle" /\ restores < MaxRestores
  /\ ~exists /\ Archived # {}
  /\ exists' = TRUE /\ hot' = Archived
  /\ restore' = "exchanged" /\ restores' = restores + 1
  /\ torn' = (torn \/ \E r \in Runners : Working(r))
  /\ fresh' = {}
  /\ UNCHANGED <<lock, conf, old, st, cold, pc, loc, known, lapsed, overlap, faults>>

\* The reset of restore_partition; a job may be at work by now.
Reset ==
  /\ restore = "exchanged"
  /\ st' = ResetPartition
  /\ restore' = "idle"
  /\ UNCHANGED <<lock, conf, part, cold, pc, loc, restores, torn, ghosts, faults>>

\* The operator's process dies before the reset.
RestoreDies ==
  /\ restore = "exchanged" /\ Fault
  /\ restore' = "idle" /\ torn' = TRUE
  /\ UNCHANGED <<lock, conf, part, st, cold, pc, loc, restores, ghosts>>

-----------------------------------------------------------------------------
Step(r) ==
  \/ Begin(r) \/ Select(r) \/ Load(r) \/ Read(r) \/ WriteRows(r) \/ WriteMeta(r)
  \/ Seed(r) \/ Copy(r) \/ Verify(r) \/ CountRows(r) \/ Drop(r) \/ Mark(r) \/ End(r)

Next ==
  \/ \E r \in Runners : Step(r) \/ BeginLost(r) \/ Budget(r) \/ Fail(r) \/ Crash(r)
  \/ \E i \in Ids : Insert(i)
  \/ Lapse \/ Age \/ Day \/ Exchange \/ Reset \/ RestoreDies

\* run_until starts a run every minute and a failed worker is started again;
\* time passes, a TTL with it; an operator finishes a restore it began.
Fairness ==
  /\ \A r \in Runners : WF_vars(Step(r))
  /\ WF_vars(Lapse /\ lock = Orphan) /\ WF_vars(Age) /\ WF_vars(Day) /\ WF_vars(Reset)

Spec == Init /\ [][Next]_vars /\ Fairness

-----------------------------------------------------------------------------
(* Properties                                                              *)

Rows == [phase : Phases, high : {0} \cup Ids, rows : 0..Cardinality(Ids),
         sum : SUBSET Ids, age : 0..Retain]
Locals == [chunk : Chunks, cursor : {0} \cup Ids, allVerified : BOOLEAN,
           copiedAny : BOOLEAN, archived : Nat, age : 0..Retain,
           rows : SUBSET Ids, seed : BOOLEAN, mark : Chunks]

\* The types; and no walk runs past the chunk numbers of the model, however often
\* a walk is cut short, a chunk is read anew or the partition is restored: the
\* cursor goes past the rows of every chunk (archive.rs:225-365).
TypeOK ==
  /\ LockTypeOK
  /\ conf \in Configs /\ exists \in BOOLEAN /\ hot \subseteq Ids /\ old \in BOOLEAN
  /\ st \in [Chunks -> Rows]
  /\ objects \in [Chunks -> SUBSET Ids] /\ table \subseteq Ids
  /\ again \subseteq table /\ meta \in [Chunks -> SUBSET Ids]
  /\ pc \in [Runners -> {"idle", "select", "load", "read", "data", "meta", "seed",
                         "copied", "verify", "count", "drop", "mark", "release"}]
  /\ loc \in [Runners -> Locals]
  /\ restore \in {"idle", "exchanged"} /\ restores \in 0..MaxRestores
  /\ known \subseteq Ids /\ fresh \subseteq Chunks /\ lapsed \subseteq Runners
  /\ overlap \in BOOLEAN /\ torn \in BOOLEAN /\ faults \in 0..MaxFaults

\* A row of a partition nobody writes to is never lost: it is in the hot table
\* or in the cold tier, whatever fails, also with two jobs at work and over a
\* restore that was cut short (archive.rs, archive_partition).
QuietRowsKept == known = InitRows => InitRows \subseteq hot \cup Archived

\* With late inserts, one job at a time, and no restore that met a job or died
\* before its reset: every row the dropping job counted is in the cold tier, so
\* that only a row inserted between the count and DROP PARTITION is lost. A
\* Pending row whose chunk was read anew and an S3 object of an older chunk of
\* that number do not add up to a drop (archive.rs:358-376). Without ~torn it
\* fails: a job that begins before the reset and seeds its chunk after it leaves
\* a state row behind a gap, and the next walk counts that chunk's rows twice.
CountedIsArchived ==
  \A r \in Runners :
    pc[r] = "drop" /\ ~overlap /\ ~torn => loc[r].rows \subseteq Archived

\* Two jobs are at work at once only when the TTL ran out under one of them:
\* a late release does not take the lock of the next job away
\* (archive.rs:128-151, ecat-data-redis lib.rs:497-517).
OneJobPerLock ==
  \A r, q \in Runners : r # q /\ Working(r) /\ Working(q) => r \in lapsed \/ q \in lapsed

\* Restored rows are dropped again only after they were archived and verified
\* anew: state rows of the first archive, which a stop between DROP PARTITION
\* and the last advance leaves Verified, do not survive a restore
\* (partition.rs:168-171, state.rs:311-315).
RestoredIsVerifiedAgain ==
  \A r \in Runners :
    pc[r] = "drop" /\ ~overlap /\ ~torn => 0..(loc[r].chunk - 1) \subseteq fresh

\* What a query finds in the cold table, whose rows are all of one time: of a row
\* inserted more than once the further copies that ReplacingMergeTree, which does
\* so at a time of its own, has not folded yet.
Copies == {f \in [table -> 0..MaxCopies] : \A i \in table \ again : f[i] = 0}
RowCopy(i, n) == [id |-> i, time |-> Min(QTimes), copy |-> n]
Stored(further) == UNION {{RowCopy(i, n) : n \in 0..further[i]} : i \in table}
AsRows(S) == {RowCopy(i, 0) : i \in S}

\* A query returns exactly its page of the rows in its range, however the pages
\* fall over the boundary between the tiers, and a row that is in both tiers,
\* because it was restored or waits for its retention, once (PagesAreExact,
\* which depends on no state: TLC evaluates it in the initial ones).
\* So the rows of a dropped partition nobody wrote to are all found by a query
\* that spans the boundary: page by page once the copies of retried writes are
\* merged, and before that by a page that ends after all the copies
\* (query.rs:87-177, sink/clickhouse.rs:193-194, archive.rs:366-390).
DroppedRowsFound ==
  /\ Init => PagesAreExact
  /\ ~exists /\ known = InitRows /\ conf.sink = "clickhouse" =>
       \A further \in Copies, limit, offset \in QSizes :
         \/ \A i \in table : further[i] = 0
         \/ limit + offset >= Cardinality(Stored(further))
         => QueryRange({}, Stored(further), Max(QTimes), Min(QTimes), Max(QTimes), limit, offset)
              = Slice(AsRows(InitRows), limit, offset)

\* A query for [from, to] returns the rows of a dropped partition nobody wrote to
\* that are in it, both ends included, for ends on a whole second and once the
\* copies are merged: what query.rs:17 and 57 say. A range in the cold tier alone
\* leaves out the rows at its upper end (query/clickhouse.rs:96).
RangeIsClosed ==
  ~exists /\ known = InitRows /\ conf.sink = "clickhouse" =>
    \A from, to \in {t \in QTimes : FmtTime(t) = t}, limit \in QSizes :
      from <= to =>
        QueryRange({}, AsRows(table), Max(QTimes), from, to, limit, 0)
          = Slice(Between(AsRows(InitRows), from, to), limit, 0)

\* A partition that may be dropped and that nobody writes to is dropped in the
\* end, however the runs before were cut short: a run goes on where the last
\* one stopped (archive.rs:99-111, 246-300).
QuietPartitionDropped ==
  exists /\ ~conf.filter /\ ~conf.dryRun ~> ~exists \/ known # InitRows \/ torn
=============================================================================
