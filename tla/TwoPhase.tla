------------------------------ MODULE TwoPhase ------------------------------
(***************************************************************************)
(* The XA two-phase-commit coordinator of ecat-data-2pc: DistributedTx     *)
(* (coordinator.rs), start-up recovery (recovery.rs) and the sqlx          *)
(* participant (xa.rs), with process crashes and failing statements.       *)
(*                                                                         *)
(* One service process runs the transactions of Tx over the participants   *)
(* 1..N (their order is the order given to begin).  Every awaited log      *)
(* write and every XA statement is a step of its own, so a crash, or a     *)
(* caller that drops the future, can fall between any two.  A statement    *)
(* may answer Ok, fail without effect, or take effect and lose its answer. *)
(*                                                                         *)
(* Assumed of the database (external): a prepared branch survives its      *)
(* connection, an unprepared one is rolled back when its connection is     *)
(* lost, a statement in flight at a crash takes effect before recovery     *)
(* starts or never, and COMMIT/ROLLBACK of an unknown xid answers "no such *)
(* xid", which the participant reports as Ok.                              *)
(***************************************************************************)
EXTENDS Integers

CONSTANTS Tx,          \* transaction ids (one uuid per begin)
          N,           \* number of participants of each transaction
          Recoverers,  \* concurrent recover() calls (no fence, or it expired)
          MaxFaults,   \* bound: failing statements
          MaxCrashes   \* bound: process crashes

ASSUME NAssumption == N \in Nat \ {0}
ASSUME BoundsAssumption == MaxFaults \in Nat /\ MaxCrashes \in Nat

VARIABLES
  phase,    \* of the service process: "down", "recovering", "serving"
  log,      \* rows of distributed_tx: status and decision
  branch,   \* the branch of each participant, in its database
  pin,      \* the participant's conns map: none / unprepared / prepared
  task,     \* the future running begin, commit or rollback
  rec,      \* the recover() calls
  faults, crashes

vars == <<phase, log, branch, pin, task, rec, faults, crashes>>

P == 1..N

Statuses    == {"none", "started", "prepared", "committing", "committed",
                "rolling_back", "rolled_back"}
Recoverable == {"started", "prepared", "committing", "rolling_back"}
Decisions   == {"none", "commit", "rollback"}
Rows        == [status : Statuses, decision : Decisions]
Branches    == {"none", "active", "prepared", "committed", "rolledback"}
Pins        == {"none", "unprepared", "prepared"}

Ops     == {"none", "begin", "commit", "rollback"}
Running == {"insert", "start", "status", "end", "prepare", "log_prepared",
            "log_committing", "commit", "log_committed", "log_rolling",
            "undo", "log_rolledback"}
Pcs     == Running \cup {"idle", "open", "ok", "err", "lost"}
Tasks   == [op : Ops, pc : Pcs, i : 0..N]

RecPcs  == {"idle", "loop", "commit", "rollback", "log_committed",
            "log_rolledback", "done"}
RecRows == [tx : Tx, status : Recoverable, decision : Decisions]

Init ==
  /\ phase  = "down"
  /\ log    = [t \in Tx |-> [status |-> "none", decision |-> "none"]]
  /\ branch = [t \in Tx |-> [p \in P |-> "none"]]
  /\ pin    = [t \in Tx |-> [p \in P |-> "none"]]
  /\ task   = [t \in Tx |-> [op |-> "none", pc |-> "idle", i |-> 0]]
  /\ rec    = [r \in Recoverers |->
                 [pc |-> "idle", rows |-> {}, tx |-> "none", i |-> 0]]
  /\ faults = 0
  /\ crashes = 0

-----------------------------------------------------------------------------
(* What a statement may do to a branch: before b, after c, answered ok.    *)

\* A failing statement draws on the fault budget; a successful one does not.
Answer(ok) == \/ ok = TRUE  /\ faults' = faults
              \/ ok = FALSE /\ faults < MaxFaults /\ faults' = faults + 1

\* The statement takes effect and answers, takes effect and loses its
\* answer, or fails without effect.
Effect(b, c, ok, done) == c = done \/ (ok = FALSE /\ c = b)

XaStart(b, c, ok) == Effect(b, c, ok, "active")

XaPrepare(b, c, ok) ==
  \/ b = "active" /\ Effect(b, c, ok, "prepared")
  \/ b = "active" /\ ok = FALSE /\ c = "rolledback"
  \/ b # "active" /\ ok = FALSE /\ c = b

\* An unknown xid is Ok: the branch is believed to be resolved already.
XaCommit(b, c, ok) ==
  \/ b = "prepared" /\ Effect(b, c, ok, "committed")
  \/ b # "prepared" /\ c = b

\* Through a pin that never saw PREPARE succeed the plain ROLLBACK goes to
\* the pinned connection; had PREPARE taken effect and its answer been lost,
\* that connection is broken and the statement fails.  Without a pin the
\* statement names the xid on a pooled connection and reaches prepared
\* branches only.
XaRollback(b, c, ok, pinned) ==
  \/ /\ \/ b = "prepared" /\ pinned # "unprepared"
        \/ b = "active" /\ pinned # "none"
     /\ Effect(b, c, ok, "rolledback")
  \/ b = "prepared" /\ pinned = "unprepared" /\ ok = FALSE /\ c = b
  \/ b = "active" /\ pinned = "none" /\ c = b
  \/ b \notin {"prepared", "active"} /\ c = b

\* set_log / insert_log: the row is written and answered, written with the
\* answer lost, or not written.
SetLog(t, st, dec, ok) ==
  /\ Answer(ok)
  /\ \/ log' = [log EXCEPT ![t] = [status |-> st, decision |-> dec]]
     \/ ok = FALSE /\ log' = log

\* at = <<pc, i>>: where the future stands next.
Goto(t, at) ==
  task' = [task EXCEPT ![t] = [op |-> task[t].op, pc |-> at[1], i |-> at[2]]]

-----------------------------------------------------------------------------
(* DistributedTx: begin, commit, rollback and abort.                       *)

\* begin: the participant checks pass, the row `started` is inserted.
BeginLog(t) ==
  /\ phase = "serving" /\ task[t].pc = "idle"
  /\ \E ok \in BOOLEAN :
       /\ SetLog(t, "started", "none", ok)
       /\ task' = [task EXCEPT ![t] = [op |-> "begin", i |-> 1,
                                       pc |-> IF ok THEN "start" ELSE "err"]]
  /\ UNCHANGED <<phase, branch, pin, rec, crashes>>

\* begin: xa_start of participant i; on failure its END and ROLLBACK are
\* tried (no pin: they reach nothing) and the started ones are undone.
BeginStart(t) ==
  /\ task[t].pc = "start"
  /\ LET i == task[t].i IN
     \E c \in Branches, ok \in BOOLEAN :
       /\ XaStart(branch[t][i], c, ok) /\ Answer(ok)
       /\ branch' = [branch EXCEPT ![t][i] = c]
       /\ pin' = IF ok THEN [pin EXCEPT ![t][i] = "unprepared"] ELSE pin
       /\ Goto(t, CASE ok /\ i < N  -> <<"start", i + 1>>
                    [] ok /\ i = N  -> <<"open", 0>>
                    [] ~ok /\ i > 1 -> <<"undo", i - 1>>
                    [] ~ok /\ i = 1 -> <<"log_rolledback", 0>>)
  /\ UNCHANGED <<phase, log, rec, crashes>>

\* The caller, done with its statements, calls commit() or rollback().
Finish(t, op) ==
  /\ phase = "serving" /\ task[t].pc = "open"
  /\ task' = [task EXCEPT ![t] = [op |-> op, pc |-> "status", i |-> 0]]
  /\ UNCHANGED <<phase, log, branch, pin, rec, faults, crashes>>

\* The status query that commit() and rollback() start with.
AfterStatus(op, st) ==
  CASE st = "committed"   -> IF op = "commit" THEN "ok" ELSE "err"
    [] st = "rolled_back" -> IF op = "commit" THEN "err" ELSE "ok"
    [] OTHER              -> IF op = "commit" THEN "end" ELSE "log_rolling"

CheckStatus(t) ==
  /\ task[t].pc = "status"
  /\ \E ok \in BOOLEAN :
       /\ Answer(ok)
       /\ Goto(t, <<IF ok THEN AfterStatus(task[t].op, log[t].status) ELSE "err", 1>>)
  /\ UNCHANGED <<phase, log, branch, pin, rec, crashes>>

\* commit: xa_end of participant i (ACTIVE to IDLE is not told apart).
CommitEnd(t) ==
  /\ task[t].pc = "end"
  /\ LET i == task[t].i IN
     \E ok \in BOOLEAN :
       /\ Answer(ok)
       /\ Goto(t, IF ~ok THEN <<"log_rolling", 0>>
                  ELSE IF i = N THEN <<"prepare", 1>> ELSE <<"end", i + 1>>)
  /\ UNCHANGED <<phase, log, branch, pin, rec, crashes>>

\* commit: xa_prepare of participant i; any failure aborts.
\* Mutants: the last participant is forgotten; a failure is not noticed.
AfterPrepareForgetsLast(i, ok) ==
  IF ~ok THEN <<"log_rolling", 0>>
  ELSE IF i >= N - 1 THEN <<"log_prepared", 0>> ELSE <<"prepare", i + 1>>
AfterPrepareIgnoresError(i, ok) ==
  IF i = N THEN <<"log_prepared", 0>> ELSE <<"prepare", i + 1>>
AfterPrepare(i, ok) ==
  IF ~ok THEN <<"log_rolling", 0>>
  ELSE IF i = N THEN <<"log_prepared", 0>> ELSE <<"prepare", i + 1>>

CommitPrepare(t) ==
  /\ task[t].pc = "prepare"
  /\ LET i == task[t].i IN
     \E c \in Branches, ok \in BOOLEAN :
       /\ XaPrepare(branch[t][i], c, ok) /\ Answer(ok)
       /\ branch' = [branch EXCEPT ![t][i] = c]
       /\ pin' = IF ok THEN [pin EXCEPT ![t][i] = "prepared"] ELSE pin
       /\ Goto(t, AfterPrepare(i, ok))
  /\ UNCHANGED <<phase, log, rec, crashes>>

\* commit: the two log writes between PREPARE and COMMIT.
CommitLogPrepared(t) ==
  /\ task[t].pc = "log_prepared"
  /\ \E ok \in BOOLEAN :
       /\ SetLog(t, "prepared", "none", ok)
       /\ Goto(t, <<IF ok THEN "log_committing" ELSE "err", 0>>)
  /\ UNCHANGED <<phase, branch, pin, rec, crashes>>

CommitLogCommitting(t) ==
  /\ task[t].pc = "log_committing"
  /\ \E ok \in BOOLEAN :
       /\ SetLog(t, "committing", "commit", ok)
       /\ Goto(t, <<IF ok THEN "commit" ELSE "err", 1>>)
  /\ UNCHANGED <<phase, branch, pin, rec, crashes>>

\* commit: xa_commit of participant i (the pin is taken first); a failure
\* returns and leaves the row `committing` to recovery.
\* Mutant: the loop goes on after a failure.
AfterCommitIgnoresError(i, ok) ==
  IF i = N THEN <<"log_committed", 0>> ELSE <<"commit", i + 1>>
AfterCommit(i, ok) ==
  IF ~ok THEN <<"err", 0>>
  ELSE IF i = N THEN <<"log_committed", 0>> ELSE <<"commit", i + 1>>

CommitBranch(t) ==
  /\ task[t].pc = "commit"
  /\ LET i == task[t].i IN
     \E c \in Branches, ok \in BOOLEAN :
       /\ XaCommit(branch[t][i], c, ok) /\ Answer(ok)
       /\ branch' = [branch EXCEPT ![t][i] = c]
       /\ pin' = [pin EXCEPT ![t][i] = "none"]
       /\ Goto(t, AfterCommit(i, ok))
  /\ UNCHANGED <<phase, log, rec, crashes>>

CommitLogCommitted(t) ==
  /\ task[t].pc = "log_committed"
  /\ \E ok \in BOOLEAN :
       /\ SetLog(t, "committed", "commit", ok)
       /\ Goto(t, <<IF ok THEN "ok" ELSE "err", 0>>)
  /\ UNCHANGED <<phase, branch, pin, rec, crashes>>

\* rollback and abort: the row `rolling_back`, then END and ROLLBACK of the
\* participants in reverse, then the row `rolled_back`.
\* Mutant: the reverse iteration starts one too high.
LastBranchOffByOne == N + 1
LastBranch == N

UndoLogRolling(t) ==
  /\ task[t].pc = "log_rolling"
  /\ \E ok \in BOOLEAN :
       /\ SetLog(t, "rolling_back", "rollback", ok)
       /\ Goto(t, IF ok THEN <<"undo", LastBranch>> ELSE <<"err", 0>>)
  /\ UNCHANGED <<phase, branch, pin, rec, crashes>>

\* Also the loop of rollback_started, from the last started participant.
\* Mutant: a failed ROLLBACK is not noticed.
AfterUndoIgnoresError(i, ok) ==
  IF i = 1 THEN <<"log_rolledback", 0>> ELSE <<"undo", i - 1>>
AfterUndo(i, ok) ==
  IF ~ok THEN <<"err", 0>>
  ELSE IF i = 1 THEN <<"log_rolledback", 0>> ELSE <<"undo", i - 1>>

UndoBranch(t) ==
  /\ task[t].pc = "undo"
  /\ LET i == task[t].i IN
     \E c \in Branches, ok \in BOOLEAN :
       /\ XaRollback(branch[t][i], c, ok, pin[t][i]) /\ Answer(ok)
       /\ branch' = [branch EXCEPT ![t][i] = c]
       /\ pin' = [pin EXCEPT ![t][i] = "none"]
       /\ Goto(t, AfterUndo(i, ok))
  /\ UNCHANGED <<phase, log, rec, crashes>>

\* Only rollback() answers Ok; abort and begin report the original failure.
UndoLogRolledBack(t) ==
  /\ task[t].pc = "log_rolledback"
  /\ \E ok \in BOOLEAN :
       /\ SetLog(t, "rolled_back", "rollback", ok)
       /\ Goto(t, <<IF ok /\ task[t].op = "rollback" THEN "ok" ELSE "err", 0>>)
  /\ UNCHANGED <<phase, branch, pin, rec, crashes>>

\* The caller drops the future or the DistributedTx: there is no Drop, the
\* pins stay in the participants.
Cancel(t) ==
  /\ phase = "serving" /\ task[t].pc \in Running \cup {"open"}
  /\ Goto(t, <<"lost", 0>>)
  /\ UNCHANGED <<phase, log, branch, pin, rec, faults, crashes>>

-----------------------------------------------------------------------------
(* recover(), before the process accepts work.                             *)

\* Mutant: `prepared` is taken for undecided and rolled back.
ShouldCommitOnlyDecided(st, dec) == st = "committing"
ShouldCommit(st, dec) ==
  \/ st = "prepared" /\ dec # "rollback"
  \/ st = "committing"

\* recoverable_logs: the rows are read once, at the start.
\* Mutant: interrupted rollbacks are left out of the scan.
ScannedStatusesNoRollback == {"started", "prepared", "committing"}
ScannedStatuses == {"started", "prepared", "committing", "rolling_back"}

RecoverScan(r) ==
  /\ phase = "recovering" /\ rec[r].pc = "idle"
  /\ \E ok \in BOOLEAN :
       /\ Answer(ok)
       /\ rec' = [rec EXCEPT ![r] =
            [pc |-> IF ok THEN "loop" ELSE "done", tx |-> "none", i |-> 0,
             rows |-> IF ~ok THEN {}
                      ELSE {[tx |-> t, status |-> log[t].status,
                             decision |-> log[t].decision] :
                            t \in {u \in Tx : log[u].status \in ScannedStatuses}}]]
  /\ UNCHANGED <<phase, log, branch, pin, task, crashes>>

\* The next row of the scan: skipped when a participant is not registered.
RecoverRow(r) ==
  /\ rec[r].pc = "loop"
  /\ \E row \in rec[r].rows, ok \in BOOLEAN :
       /\ Answer(ok)
       /\ LET commit == ShouldCommit(row.status, row.decision) IN
          rec' = [rec EXCEPT ![r] =
            [pc |-> IF ~ok THEN "loop" ELSE IF commit THEN "commit" ELSE "rollback",
             tx |-> IF ok THEN row.tx ELSE "none",
             i  |-> IF ~ok THEN 0 ELSE IF commit THEN 1 ELSE N,
             rows |-> rec[r].rows \ {row}]]
  /\ UNCHANGED <<phase, log, branch, pin, task, crashes>>

\* recover_commit / recover_rollback at participant i.  The xa_recover cross
\* check skips a branch that is not prepared, for which the statement would
\* have answered Ok without effect.
RecoverAt(r, pc, t, i) ==
  rec' = [rec EXCEPT ![r] = [pc |-> pc, rows |-> rec[r].rows, tx |-> t, i |-> i]]
RecoverNext(r, pc, i) == RecoverAt(r, pc, rec[r].tx, i)
RecoverFail(r) == RecoverAt(r, "loop", "none", 0)

RecoverCommit(r) ==
  /\ rec[r].pc = "commit"
  /\ LET t == rec[r].tx
         i == rec[r].i IN
     \E c \in Branches, ok \in BOOLEAN :
       /\ XaCommit(branch[t][i], c, ok) /\ Answer(ok)
       /\ branch' = [branch EXCEPT ![t][i] = c]
       /\ IF ~ok THEN RecoverFail(r)
          ELSE IF i = N THEN RecoverNext(r, "log_committed", 0)
                        ELSE RecoverNext(r, "commit", i + 1)
  /\ UNCHANGED <<phase, log, pin, task, crashes>>

RecoverRollback(r) ==
  /\ rec[r].pc = "rollback"
  /\ LET t == rec[r].tx
         i == rec[r].i IN
     \E c \in Branches, ok \in BOOLEAN :
       /\ XaRollback(branch[t][i], c, ok, pin[t][i]) /\ Answer(ok)
       /\ branch' = [branch EXCEPT ![t][i] = c]
       /\ IF ~ok THEN RecoverFail(r)
          ELSE IF i = 1 THEN RecoverNext(r, "log_rolledback", 0)
                        ELSE RecoverNext(r, "rollback", i - 1)
  /\ UNCHANGED <<phase, log, pin, task, crashes>>

RecoverLog(r) ==
  /\ rec[r].pc \in {"log_committed", "log_rolledback"}
  /\ \E ok \in BOOLEAN :
       /\ IF rec[r].pc = "log_committed"
          THEN SetLog(rec[r].tx, "committed", "commit", ok)
          ELSE SetLog(rec[r].tx, "rolled_back", "rollback", ok)
       /\ RecoverFail(r)
  /\ UNCHANGED <<phase, branch, pin, task, crashes>>

RecoverEnd(r) ==
  /\ rec[r].pc = "loop" /\ rec[r].rows = {}
  /\ RecoverAt(r, "done", "none", 0)
  /\ UNCHANGED <<phase, log, branch, pin, task, faults, crashes>>

-----------------------------------------------------------------------------
(* The process and the databases.                                          *)

Restart ==
  /\ phase = "down"
  /\ phase' = "recovering"
  /\ UNCHANGED <<log, branch, pin, task, rec, faults, crashes>>

\* recover() has returned, and no other call is still at work.
Serve ==
  /\ phase = "recovering"
  /\ \E r \in Recoverers : rec[r].pc = "done"
  /\ \A r \in Recoverers : rec[r].pc \in {"idle", "done"}
  /\ phase' = "serving"
  /\ UNCHANGED <<log, branch, pin, task, rec, faults, crashes>>

\* The process dies: its futures and its pinned connections are gone.
Crash ==
  /\ phase # "down" /\ crashes < MaxCrashes
  /\ crashes' = crashes + 1
  /\ phase' = "down"
  /\ pin' = [t \in Tx |-> [p \in P |-> "none"]]
  /\ task' = [t \in Tx |-> IF task[t].pc \in Running \cup {"open"}
                           THEN [op |-> task[t].op, pc |-> "lost", i |-> 0]
                           ELSE task[t]]
  /\ rec' = [r \in Recoverers |->
               [pc |-> "idle", rows |-> {}, tx |-> "none", i |-> 0]]
  /\ UNCHANGED <<log, branch, faults>>

\* A database rolls back the unprepared branch of a lost connection: after
\* the process has gone, or, as a fault, under a living one.
DbRollback(t, p) ==
  /\ branch[t][p] = "active"
  /\ Answer(pin[t][p] = "none")
  /\ branch' = [branch EXCEPT ![t][p] = "rolledback"]
  /\ UNCHANGED <<phase, log, pin, task, rec, crashes>>

TaskStep(t) ==
  \/ BeginLog(t) \/ BeginStart(t) \/ \E op \in {"commit", "rollback"} : Finish(t, op)
  \/ CheckStatus(t) \/ CommitEnd(t) \/ CommitPrepare(t)
  \/ CommitLogPrepared(t) \/ CommitLogCommitting(t) \/ CommitBranch(t)
  \/ CommitLogCommitted(t) \/ UndoLogRolling(t) \/ UndoBranch(t)
  \/ UndoLogRolledBack(t)

RecoverStep(r) ==
  \/ RecoverScan(r) \/ RecoverRow(r) \/ RecoverCommit(r) \/ RecoverRollback(r)
  \/ RecoverLog(r) \/ RecoverEnd(r)

Next ==
  \/ \E t \in Tx : TaskStep(t) \/ Cancel(t)
  \/ \E r \in Recoverers : RecoverStep(r)
  \/ Restart \/ Serve \/ Crash
  \/ \E t \in Tx, p \in P : DbRollback(t, p)

Spec == Init /\ [][Next]_vars

\* The process is restarted after a crash and runs recover() to its end
\* before it serves; a database notices a lost connection.  Nothing is
\* assumed of the callers, of crashes, or that a statement succeeds.
Fairness ==
  /\ WF_vars(Restart)
  /\ \A r \in Recoverers : WF_vars(RecoverStep(r))
  /\ \A t \in Tx, p \in P : WF_vars(DbRollback(t, p))

FairSpec == Spec /\ Fairness

-----------------------------------------------------------------------------
(* Properties.                                                             *)

TypeOK ==
  /\ phase \in {"down", "recovering", "serving"}
  /\ log \in [Tx -> Rows]
  /\ branch \in [Tx -> [P -> Branches]]
  /\ pin \in [Tx -> [P -> Pins]]
  /\ task \in [Tx -> Tasks]
  /\ rec \in [Recoverers -> [pc : RecPcs, rows : SUBSET RecRows,
                             tx : Tx \cup {"none"}, i : 0..N]]
  /\ faults \in 0..MaxFaults
  /\ crashes \in 0..MaxCrashes

\* No transaction has one branch committed and another rolled back, whatever
\* crashed, failed or was recovered twice (commit, abort, recover_locked).
Atomicity ==
  \A t \in Tx, p, q \in P :
    ~(branch[t][p] = "committed" /\ branch[t][q] = "rolledback")

\* A final row of distributed_tx tells the truth for good: `committed` only
\* when every branch is, `rolled_back` only when no branch is committed or
\* still in doubt, so that no recovery is needed for it any more.
FinalLogIsTrue ==
  \A t \in Tx :
    /\ log[t].status = "committed"   => \A p \in P : branch[t][p] = "committed"
    /\ log[t].status = "rolled_back" =>
         \A p \in P : branch[t][p] \notin {"committed", "prepared"}

\* The caller was told the truth: after commit() = Ok every branch is
\* committed, after rollback() = Ok none is or will be.
CallerIsTold ==
  \A t \in Tx : task[t].pc = "ok" =>
    IF task[t].op = "commit"
    THEN \A p \in P : branch[t][p] = "committed"
    ELSE \A p \in P : branch[t][p] \notin {"committed", "prepared"}

\* The decision is durable: once the row says `prepared` no later writer,
\* coordinator or recovery, ever turns it into a rollback, and a row that
\* says `rolling_back` never becomes a commit.
CommitSide   == {"prepared", "committing", "committed"}
RollbackSide == {"rolling_back", "rolled_back"}
DecisionStable ==
  [][\A t \in Tx :
       /\ log[t].status \in CommitSide   => log'[t].status \in CommitSide
       /\ log[t].status \in RollbackSide => log'[t].status \in RollbackSide]_vars

\* TwoPhase implements AtomicCommit.
RmState(b) == CASE b \in {"none", "active"} -> "working"
                [] b = "rolledback"         -> "aborted"
                [] OTHER                    -> b
Abs == INSTANCE AtomicCommit WITH
         Participants <- P,
         rm <- [t \in Tx |-> [p \in P |-> RmState(branch[t][p])]]
ImplementsAtomicCommit == Abs!Spec

\* Once statements stop failing, the next restart resolves every transaction
\* its crash left behind: the row becomes final and no branch stays in doubt
\* (recover: every recoverable status is replayed and completed).
RecoveryResolves ==
  \A t \in Tx :
    (phase = "down" /\ faults = MaxFaults /\ log[t].status \in Recoverable)
      ~> /\ log[t].status \in {"committed", "rolled_back"}
         /\ \A p \in P : branch[t][p] \notin {"active", "prepared"}
=============================================================================
