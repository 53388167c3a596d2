------------------------------ MODULE Migration ------------------------------
(***************************************************************************)
(* Online migration between two shard catalogs (ecat-data-sharding,        *)
(* migrate/): ShardMigrator's backfill, verify, cutover and rollback, the  *)
(* router they reload, the fence of module RedisLock that a backfill runs  *)
(* under, and an application that writes through DualWrite all the while.  *)
(*                                                                         *)
(* A row is its key, which is also its primary key, and a version. A row's *)
(* checksum is the row, and the XOR of checksums a set under symmetric     *)
(* difference: a row that is met twice cancels. Every statement sent to a  *)
(* shard or to the job table is a step, except that a scan of verify is    *)
(* one step per side, verify and cutover load their jobs in one step, and  *)
(* ensure_job is one.                                                      *)
(* Writes are whole rows, of one row at a time. preflight_schema,          *)
(* ensure_schema and the client checks only refuse and change nothing.     *)
(***************************************************************************)
EXTENDS Catalog, RedisLock

CONSTANTS
  Setups,       \* the migrations to check: the catalogs old and new, the
                \* operators ops, and the bounds writes (of the application),
                \* rollbacks (calls) and faults (crashes, failed calls, lost
                \* answers, a fence that expires under its holder)
  InitKeys,     \* the keys that have a row at the start
  ChunkSize     \* chunk_size

ASSUME SetupsAssumption ==
  \A t \in Setups : /\ Valid(t.old) /\ Valid(t.new) /\ t.ops \subseteq Holders
                    /\ t.writes \in Nat /\ t.rollbacks \in Nat /\ t.faults \in Nat
ASSUME ChunkAssumption ==
  InitKeys \subseteq Keys /\ ChunkSize \in Nat \ {0}  \* with_chunk_size raises 0 to 1

VARIABLES
  setup,      \* the catalogs, the operators and the bounds
  plan,       \* the moves between them
  data,       \* data[s][k]: the version of row k on shard s, 0 if there is none
  job,        \* shard_migration_jobs, one per move of the plan
  router,     \* the catalog the router has: "old" or "new"
  pc, loc,    \* the operators' processes and their local variables
  app,        \* the write in flight
  latest,     \* history: the version the application last committed
  behind,     \* history: keys whose mirror write failed where no later verify
              \* compares it
  lapsed,     \* history: backfills whose fence ran out under them
  late,       \* history: rows upserted by such a backfill since
  overlap,    \* history: a row was copied by a backfill that was not alone
  writes, rollbacks, faults

fixed == <<setup, plan>>
vars == <<lock, fixed, data, job, router, pc, loc, app, latest, behind, lapsed,
          late, overlap, writes, rollbacks, faults>>
history == <<latest, behind, lapsed, late, overlap>>
counts  == <<writes, rollbacks, faults>>

Ops == setup.ops
Shards == UNION {ToSet(t.old.shards) \cup ToSet(t.new.shards) : t \in Setups}
MoveIds == DOMAIN plan
Current == IF router = "old" THEN setup.old ELSE setup.new

NoJob == [phase |-> "none", cursor |-> MinKey - 1, rows |-> 0, sum |-> {}]
Local == [move |-> 1, job |-> NoJob, batch |-> {}, last |-> MinKey - 1,
          jobs |-> <<>>, rows |-> 0, sum |-> {}]
NoWrite == [pc |-> "idle", key |-> MinKey, primary |-> "", mirror |-> ""]

Init ==
  /\ lock = Free
  /\ setup \in Setups /\ plan = Diff(setup.old, setup.new)
  /\ data = [s \in Shards |-> [k \in Keys |->
               IF k \in InitKeys /\ ShardFor(setup.old, k) = s THEN 1 ELSE 0]]
  /\ job = [m \in MoveIds |-> NoJob]
  /\ router = "old"
  /\ pc = [o \in Holders |-> "idle"] /\ loc = [o \in Holders |-> Local]
  /\ app = NoWrite
  /\ latest = [k \in Keys |-> IF k \in InitKeys THEN 1 ELSE 0]
  /\ behind = {} /\ lapsed = {} /\ late = [o \in Holders |-> 0] /\ overlap = FALSE
  /\ writes = 0 /\ rollbacks = 0 /\ faults = 0

InBackfill(o) == pc[o] \in {"open", "reopen", "check", "scan", "copy", "release"}

Fault == faults < setup.faults /\ faults' = faults + 1
To(o, p) == pc' = [pc EXCEPT ![o] = p]
Set(o, l) == loc' = [loc EXCEPT ![o] = l]
Return(o) == To(o, "idle") /\ Set(o, Local)
Xor(A, B) == (A \ B) \cup (B \ A)

\* scan_chunk: pk > cursor, the key range, ORDER BY pk LIMIT chunk_size; and
\* all of it, as the loops of verify read it.
Scan(s, mv, cursor) ==
  {k \in Keys : data[s][k] # 0 /\ k > cursor /\ InRange(mv, k)}
Chunk(s, mv, cursor) ==
  LET S == Scan(s, mv, cursor)
  IN  {k \in S : Cardinality({j \in S : j < k}) < ChunkSize}

-----------------------------------------------------------------------------
(* backfill                                                                *)

\* acquire_fence; a caller that finds the fence taken returns an error.
Backfill(o) ==
  /\ pc[o] = "idle"
  /\ Acquire(o)
  /\ To(o, "open")
  /\ UNCHANGED <<fixed, data, job, router, loc, app, history, counts>>

BackfillLost(o) ==
  /\ pc[o] = "idle" /\ AcquireLost /\ Fault
  /\ UNCHANGED <<fixed, data, job, router, pc, loc, app, history, writes, rollbacks>>

\* Where a move goes on once its job is loaded.
\* Mutant: one that was rolled back is not marked as backfilling again.
AfterOpenCheck(j) == "check"
AfterOpen(j) == IF j.phase = "rolled_back" THEN "reopen" ELSE "check"

\* ensure_job: the row is inserted unless it is there. A verified or finished
\* move is passed over.
OpenMove(o) ==
  LET m == loc[o].move IN
  /\ pc[o] = "open"
  /\ \/ m \notin MoveIds /\ To(o, "release") /\ UNCHANGED <<loc, job>>
     \/ /\ m \in MoveIds /\ job[m].phase \in {"verified", "done"}
        /\ Set(o, [loc[o] EXCEPT !.move = m + 1]) /\ UNCHANGED <<pc, job>>
     \/ /\ m \in MoveIds /\ job[m].phase \notin {"verified", "done"}
        /\ job' = [job EXCEPT ![m].phase = IF @ = "none" THEN "pending" ELSE @]
        /\ Set(o, [loc[o] EXCEPT !.job = job'[m]]) /\ To(o, AfterOpen(job'[m]))
  /\ UNCHANGED <<lock, fixed, data, router, app, history, counts>>

\* A move that was rolled back goes on at the cursor it had.
Reopen(o) ==
  LET j == [loc[o].job EXCEPT !.phase = "backfilling"] IN
  /\ pc[o] = "reopen"
  /\ job' = [job EXCEPT ![loc[o].move] = j]
  /\ Set(o, [loc[o] EXCEPT !.job = j]) /\ To(o, "check")
  /\ UNCHANGED <<lock, fixed, data, router, app, history, counts>>

\* check_fence, before every chunk: renew or stop.
CheckFence(o) ==
  /\ pc[o] = "check"
  /\ To(o, IF Renews(o) THEN "scan" ELSE "release")
  /\ UNCHANGED <<lock, fixed, data, job, router, loc, app, history, counts>>

\* scan_chunk: the rows are in memory from here on; an empty chunk ends the move.
ScanChunk(o) ==
  LET l == loc[o]
      mv == plan[l.move]
      keys == Chunk(mv.from, mv, l.job.cursor)
  IN
  /\ pc[o] = "scan"
  /\ \/ keys = {} /\ Set(o, [Local EXCEPT !.move = l.move + 1]) /\ To(o, "open")
     \/ /\ keys # {}
        /\ Set(o, [l EXCEPT !.last = CHOOSE k \in keys : \A j \in keys : j <= k,
                            !.batch = {<<k, data[mv.from][k]>> :
                                         k \in {j \in keys : RoutesTo(setup.new, mv, j)}}])
        /\ To(o, "copy")
  /\ UNCHANGED <<lock, fixed, data, job, router, app, history, counts>>

\* The single executor that the documentation asks for: the fence is held, the
\* move is not verified, nobody verifies or switches meanwhile, and no write is
\* in flight that began after a cutover, with the new topology first. Only
\* backfill takes the fence: nothing in the code enforces the rest.
Alone(o) ==
  /\ o \notin lapsed /\ router = "old"
  /\ job[loc[o].move].phase \notin {"verified", "done"}
  /\ \A p \in Ops \ {o} : pc[p] = "idle"
  /\ app.pc = "idle" \/ app.primary = ShardFor(setup.old, app.key)

\* upsert_row on the target, and the row's part of rows and checksum.
CopyRow(o) ==
  LET l == loc[o]
      row == CHOOSE r \in l.batch : \A q \in l.batch : r[1] <= q[1]
  IN
  /\ pc[o] = "copy" /\ l.batch # {}
  /\ data' = [data EXCEPT ![plan[l.move].to][row[1]] = row[2]]
  /\ Set(o, [l EXCEPT !.batch = @ \ {row}, !.job.rows = @ + 1, !.job.sum = Xor(@, {row})])
  /\ late' = IF o \in lapsed THEN [late EXCEPT ![o] = @ + 1] ELSE late
  /\ overlap' = (overlap \/ ~Alone(o))
  /\ UNCHANGED <<lock, fixed, job, router, pc, app, latest, behind, lapsed, counts>>

\* save_job once the chunk is copied: whatever the row is by now, it becomes
\* what this backfill knows.
\* Mutant: the cursor stays.
CopiedNoCursor(l) == [l.job EXCEPT !.phase = "backfilling"]
Copied(l) == [l.job EXCEPT !.phase = "backfilling", !.cursor = l.last]

SaveChunk(o) ==
  LET l == loc[o]
      j == Copied(l)
  IN
  /\ pc[o] = "copy" /\ l.batch = {}
  /\ job' = [job EXCEPT ![l.move] = j]
  /\ Set(o, [l EXCEPT !.job = j, !.last = MinKey - 1]) /\ To(o, "check")
  /\ UNCHANGED <<lock, fixed, data, router, app, history, counts>>

\* release_fence, with the result or the error of the backfill.
EndBackfill(o) ==
  /\ pc[o] = "release"
  /\ \/ Release(o) /\ UNCHANGED faults
     \/ Forget(o) /\ lock = o /\ Fault
  /\ Return(o)
  /\ lapsed' = lapsed \ {o} /\ late' = [late EXCEPT ![o] = 0]
  /\ UNCHANGED <<fixed, data, job, router, app, latest, behind, overlap, writes, rollbacks>>

-----------------------------------------------------------------------------
(* verify: target shard by target shard, without the fence                 *)

\* The groups of moves with the same target, which share nothing: in the order
\* of the plan here, by name in the BTreeMap. loc.move counts them.
Targets == LET seen == {m \in MoveIds : \A n \in 1..(m - 1) : plan[n].to # plan[m].to}
           IN  [i \in 1..Cardinality(seen) |->
                  plan[CHOOSE m \in seen : Cardinality({n \in seen : n <= m}) = i].to]
Group(t) == {m \in MoveIds : plan[m].to = t}

StartVerify(o) ==
  /\ pc[o] = "idle" /\ To(o, "load")
  /\ UNCHANGED <<lock, fixed, data, job, router, loc, app, history, counts>>

\* The rows of the source that a move would pick up: a bag, as one row may be
\* met by several moves of the group.
SourceRows(m) ==
  {<<k, data[plan[m].from][k]>> :
     k \in {j \in Scan(plan[m].from, plan[m], MinKey - 1) : RoutesTo(setup.new, plan[m], j)}}

\* row_in_any_scope, over all rows of the target.
TargetRows(t) ==
  {<<k, data[t][k]>> : k \in {j \in Keys : data[t][j] # 0 /\
     \E m \in Group(t) : IF plan[m].full THEN RoutesTo(setup.new, plan[m], j)
                         ELSE InRange(plan[m], j)}}

TotalRows(rows, G) == FoldFunctionOnSet(+, 0, rows, G)
TotalSum(sums, G) == FoldFunctionOnSet(Xor, {}, sums, G)

\* The jobs of the group are loaded.
VerifyLoad(o) ==
  LET g == Group(Targets[loc[o].move]) IN
  /\ pc[o] = "load"
  /\ \/ loc[o].move > Len(Targets) /\ Return(o)
     \/ /\ loc[o].move <= Len(Targets)
        /\ \/ (\E m \in g : job[m].phase = "none") /\ Return(o)
           \/ /\ \A m \in g : job[m].phase \in {"done", "rolled_back"}
              /\ Set(o, [Local EXCEPT !.move = loc[o].move + 1]) /\ UNCHANGED pc
           \/ /\ \A m \in g : job[m].phase # "none"
              /\ \E m \in g : job[m].phase \notin {"done", "rolled_back"}
              /\ Set(o, [loc[o] EXCEPT !.jobs = job]) /\ To(o, "source")
  /\ UNCHANGED <<lock, fixed, data, job, router, app, history, counts>>

VerifySource(o) ==
  LET g == Group(Targets[loc[o].move]) IN
  /\ pc[o] = "source"
  /\ Set(o, [loc[o] EXCEPT !.rows = TotalRows([m \in g |-> Cardinality(SourceRows(m))], g),
                           !.sum = TotalSum([m \in g |-> SourceRows(m)], g)])
  /\ To(o, "target")
  /\ UNCHANGED <<lock, fixed, data, job, router, app, history, counts>>

\* The comparisons of verify: source with jobs, source with target.
\* Mutant: only the number of rows is compared.
AgreeByCount(l, g, target) ==
  /\ l.rows = TotalRows([m \in g |-> l.jobs[m].rows], g)
  /\ l.rows = Cardinality(target)
Agree(l, g, target) ==
  /\ l.rows = TotalRows([m \in g |-> l.jobs[m].rows], g)
  /\ l.sum = TotalSum([m \in g |-> l.jobs[m].sum], g)
  /\ l.rows = Cardinality(target) /\ l.sum = target

VerifyTarget(o) ==
  LET t == Targets[loc[o].move] IN
  /\ pc[o] = "target"
  /\ IF Agree(loc[o], Group(t), TargetRows(t))
     THEN Set(o, [loc[o] EXCEPT !.batch = Group(t), !.rows = 0, !.sum = {}]) /\ To(o, "verified")
     ELSE Return(o)
  /\ UNCHANGED <<lock, fixed, data, job, router, app, history, counts>>

\* The jobs as they were loaded are saved as Verified, one after the other.
SaveVerified(o) ==
  LET l == loc[o] IN
  /\ pc[o] = "verified"
  /\ IF l.batch = {}
     THEN Set(o, [Local EXCEPT !.move = l.move + 1]) /\ To(o, "load") /\ UNCHANGED job
     ELSE LET m == CHOOSE n \in l.batch : \A i \in l.batch : n <= i
          IN  /\ job' = [job EXCEPT ![m] = [l.jobs[m] EXCEPT !.phase = "verified"]]
              /\ Set(o, [l EXCEPT !.batch = @ \ {m}]) /\ UNCHANGED pc
  /\ UNCHANGED <<lock, fixed, data, router, app, history, counts>>

-----------------------------------------------------------------------------
(* cutover and rollback                                                    *)

\* Every job has to be there, Verified or Done.
\* Mutant: a job in any phase will do.
ReadyAnyPhase == \A m \in MoveIds : job[m].phase # "none"
Ready == \A m \in MoveIds : job[m].phase \in {"verified", "done"}

Cutover(o) ==
  /\ pc[o] = "idle" /\ Ready /\ To(o, "reload")
  /\ UNCHANGED <<lock, fixed, data, job, router, loc, app, history, counts>>

\* ShardRouter::reload: both catalogs are valid and have their clients.
Reload(o) ==
  /\ pc[o] = "reload"
  /\ router' = "new" /\ To(o, "done")
  /\ UNCHANGED <<lock, fixed, data, job, loc, app, history, counts>>

Rollback(o) ==
  /\ pc[o] = "idle" /\ rollbacks < setup.rollbacks
  /\ rollbacks' = rollbacks + 1
  /\ router' = "old" /\ To(o, "rolled_back")
  /\ UNCHANGED <<lock, fixed, data, job, loc, app, history, writes, faults>>

\* After the reload each job there is is loaded, and saved in its last phase.
SaveFinal(o) ==
  LET m == loc[o].move
      j == loc[o].job
  IN
  /\ pc[o] \in {"done", "rolled_back"}
  /\ \/ m \notin MoveIds /\ Return(o) /\ UNCHANGED job
     \/ /\ m \in MoveIds /\ j = NoJob
        /\ Set(o, IF job[m] = NoJob THEN [loc[o] EXCEPT !.move = m + 1]
                  ELSE [loc[o] EXCEPT !.job = job[m]])
        /\ UNCHANGED <<pc, job>>
     \/ /\ m \in MoveIds /\ j # NoJob
        /\ job' = [job EXCEPT ![m] = [j EXCEPT !.phase = pc[o]]]
        /\ Set(o, [Local EXCEPT !.move = m + 1]) /\ UNCHANGED pc
  /\ UNCHANGED <<lock, fixed, data, router, app, history, counts>>

-----------------------------------------------------------------------------
(* The application: DualWrite                                              *)

\* for_key: the old topology is the primary before the cutover and the mirror
\* after it. The clients are bound here, whatever reload does later; one and
\* the same client needs no mirror.
BindWrite(k) ==
  LET oldShard == ShardFor(setup.old, k)
      newShard == ShardFor(setup.new, k)
  IN
  /\ app.pc = "idle" /\ writes < setup.writes
  /\ app' = [pc |-> "primary", key |-> k,
             primary |-> IF router = "old" THEN oldShard ELSE newShard,
             mirror |-> IF router = "old" THEN newShard ELSE oldShard]
  /\ UNCHANGED <<lock, fixed, data, job, router, pc, loc, history, counts>>

WritePrimary ==
  /\ app.pc = "primary"
  /\ latest' = [latest EXCEPT ![app.key] = @ + 1] /\ writes' = writes + 1
  /\ data' = [data EXCEPT ![app.primary][app.key] = latest'[app.key]]
  /\ app' = IF app.primary = app.mirror THEN NoWrite ELSE [app EXCEPT !.pc = "mirror"]
  /\ UNCHANGED <<lock, fixed, job, router, pc, loc, behind, lapsed, late, overlap, rollbacks, faults>>

\* Mutant: the mirror is written with the primary's client.
MirrorShardPrimary == app.primary
MirrorShard == app.mirror

WriteMirror ==
  /\ app.pc = "mirror"
  /\ data' = [data EXCEPT ![MirrorShard][app.key] = latest[app.key]]
  /\ app' = NoWrite
  /\ UNCHANGED <<lock, fixed, job, router, pc, loc, history, counts>>

\* The mirror write fails, which the caller is told, or the application stops.
\* Before verify has begun it is for verify to find the row that is behind.
MirrorFails ==
  LET checked == \/ router = "new" \/ app.primary # ShardFor(setup.old, app.key)
                 \/ \E m \in MoveIds : job[m].phase \in {"verified", "done"}
                 \/ \E o \in Ops : pc[o] # "idle" /\ ~InBackfill(o)
  IN
  /\ app.pc = "mirror" /\ Fault
  /\ behind' = IF checked THEN behind \cup {app.key} ELSE behind
  /\ app' = NoWrite
  /\ UNCHANGED <<lock, fixed, data, job, router, pc, loc, latest, lapsed, late, overlap, writes, rollbacks>>

-----------------------------------------------------------------------------
(* Faults                                                                  *)

\* A call fails: backfill releases the fence, the others just return.
Fail(o) ==
  /\ pc[o] \notin {"idle", "release"} /\ Fault
  /\ IF InBackfill(o) THEN To(o, "release") /\ Set(o, Local) ELSE Return(o)
  /\ UNCHANGED <<lock, fixed, data, job, router, app, history, writes, rollbacks>>

\* The process stops; its token is lost.
Crash(o) ==
  /\ InBackfill(o) /\ Forget(o) /\ Fault /\ Return(o)
  /\ lapsed' = lapsed \ {o} /\ late' = [late EXCEPT ![o] = 0]
  /\ UNCHANGED <<fixed, data, job, router, app, latest, behind, overlap, writes, rollbacks>>

Lapse ==
  /\ Expire
  /\ \/ lock = Orphan /\ UNCHANGED <<lapsed, faults>>
     \/ lock \in Ops /\ lapsed' = lapsed \cup {lock} /\ Fault
  /\ UNCHANGED <<fixed, data, job, router, pc, loc, app, latest, behind, late, overlap, writes, rollbacks>>

-----------------------------------------------------------------------------
Step(o) ==
  \/ OpenMove(o) \/ Reopen(o) \/ CheckFence(o) \/ ScanChunk(o) \/ CopyRow(o) \/ SaveChunk(o)
  \/ EndBackfill(o) \/ VerifyLoad(o) \/ VerifySource(o) \/ VerifyTarget(o) \/ SaveVerified(o)
  \/ Reload(o) \/ SaveFinal(o)

Next ==
  \/ \E o \in Ops : \/ Backfill(o) \/ StartVerify(o) \/ Cutover(o) \/ Rollback(o)
                    \/ Step(o) \/ BackfillLost(o) \/ Fail(o) \/ Crash(o)
  \/ \E k \in Keys : BindWrite(k)
  \/ WritePrimary \/ WriteMirror \/ MirrorFails \/ Lapse

\* A call that was made goes on; the operators call backfill, verify and
\* cutover again and again; a TTL passes.
Fairness ==
  /\ \A o \in Holders : WF_vars(o \in Ops /\ Step(o))
  /\ SF_vars(\E o \in Ops : Backfill(o))
  /\ SF_vars(\E o \in Ops : StartVerify(o))
  /\ SF_vars(\E o \in Ops : Cutover(o))
  /\ WF_vars(Lapse /\ lock = Orphan)
  /\ WF_vars(WritePrimary) /\ WF_vars(WriteMirror)

Spec == Init /\ [][Next]_vars /\ Fairness

-----------------------------------------------------------------------------
(* Properties                                                              *)

Version == 0..(1 + setup.writes)
JobType == [phase : {"none", "pending", "backfilling", "verified", "done", "rolled_back"},
            cursor : (MinKey - 1)..MaxKey, rows : 0..Cardinality(Keys),
            sum : SUBSET (Keys \X Version)]

\* The types; and a move never counts more rows than there are keys, whatever
\* is copied again after a crash, a rollback or a second backfill
\* (backfill.rs:59-83).
TypeOK ==
  /\ LockTypeOK
  /\ setup \in Setups
  /\ data \in [Shards -> [Keys -> Version]]
  /\ \A m \in MoveIds : job[m] \in JobType
  /\ router \in {"old", "new"}
  /\ \A o \in Ops : loc[o].job \in JobType /\ Cardinality(loc[o].batch) <= ChunkSize + Len(plan)
  /\ app.pc \in {"idle", "primary", "mirror"}
  /\ latest \in [Keys -> Version] /\ behind \subseteq Keys
  /\ lapsed \subseteq Ops /\ late \in [Holders -> Nat] /\ overlap \in BOOLEAN

\* The plan of this migration, and every plan between two catalogs of
\* PlanCatalogs, carries each row that changes its shard once, to where the new
\* catalog routes it: plan and router, which compute the shard of a key
\* independently, agree (plan.rs:28-161, catalog.rs:195-219).
PlanIsExact == ExactPlan(plan, setup.old, setup.new) /\ AllPlansExact

\* A full copy that takes a row from its shard onto the same shard.
SelfCopied(k) ==
  \E m \in MoveIds : /\ plan[m].from = ShardFor(setup.old, k) /\ plan[m].to = plan[m].from
                     /\ RoutesTo(setup.new, plan[m], k)

Calm == {k \in Keys : k # app.key \/ app.pc = "idle"} \ behind
Routed(k) == data[ShardFor(Current, k)][k]

\* A read by key through the router finds what the application last wrote,
\* before, during and after a migration and a rollback, for every row with no
\* write in flight and no failed mirror write that verify could not have seen,
\* if backfills run alone (Alone) and the row is not copied onto itself: there a
\* write between the read and the upsert is lost, which verify cannot see
\* (backfill.rs, verify.rs:49-71, cutover.rs:8-39, dual_write.rs).
RoutedIsLatest ==
  ~overlap => \A k \in Calm : SelfCopied(k) \/ Routed(k) = latest[k]

\* What scatter's merge keeps of row k under ORDER BY pk: the copy on the first
\* shard of the catalog that has one.
Merged(k) ==
  LET has == {i \in DOMAIN Current.shards : data[Current.shards[i]][k] # 0}
  IN  IF has = {} THEN 0
      ELSE data[Current.shards[CHOOSE i \in has : \A j \in has : i <= j]][k]

\* After the cutover a scatter query returns each row as a read by key does,
\* although the copies on the old shards stay and may come first in the
\* catalog: the mirror writes keep them up to date (scatter.rs:105-148,
\* cutover.rs:1-2).
ScatterAgrees ==
  router = "new" /\ ~overlap => \A k \in Calm : Merged(k) = Routed(k)

\* Two backfills run at once only after a fence ran out under one of them, and
\* a backfill whose fence ran out stops at its next check: it copies no more
\* than the chunk it has in memory (mod.rs:321-356, backfill.rs:56).
LateRowsBounded ==
  /\ \A o, p \in Ops : o # p /\ InBackfill(o) /\ InBackfill(p) => {o, p} \cap lapsed # {}
  /\ \A o \in Ops : late[o] <= ChunkSize

\* A full copy that takes a row to another shard of the old catalog.
InPlace(k) ==
  LET to == ShardFor(setup.new, k) IN
  plan # <<>> /\ plan[1].full /\ to # ShardFor(setup.old, k) /\ to \in ToSet(setup.old.shards)

\* Without writes a migration that is tried again and again is finished, from
\* whatever state crashes, lost fences, rollbacks and overlapping calls left
\* the jobs in; except for a full copy in place, whose rows verify meets as
\* their own source (backfill.rs:42-83, verify.rs:51-71, cutover.rs).
QuietMigrationFinishes ==
  <>[](router = "new") \/ <>(writes > 0) \/ (\E k \in InitKeys : InPlace(k))
=============================================================================
