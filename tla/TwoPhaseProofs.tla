--------------------------- MODULE TwoPhaseProofs ---------------------------
(***************************************************************************)
(* Proofs about TwoPhase, for every set of transactions and recoverers,    *)
(* every number of participants and every number of faults and crashes.    *)
(***************************************************************************)
EXTENDS TwoPhase, TLAPS

\* What the row of a transaction says of its branches.
LogOK(t) ==
  /\ log[t].status \notin CommitSide => \A p \in P : branch[t][p] # "committed"
  /\ log[t].status \in {"prepared", "committing"} =>
       \A p \in P : branch[t][p] \in {"prepared", "committed"}
  /\ log[t].status = "committed"   => \A p \in P : branch[t][p] = "committed"
  /\ log[t].status = "rolled_back" => \A p \in P : branch[t][p] # "prepared"
  /\ log[t].status = "prepared" => log[t].decision # "rollback"

\* What the position of the future says of the row and the branches.
TaskOK(t) ==
  LET pc == task[t].pc
      i  == task[t].i
      st == log[t].status
  IN
  /\ pc \in Running \cup {"open"} => phase = "serving"
  /\ pc \in {"start", "end", "prepare", "commit", "undo"} => i \in P
  /\ pc \in {"start", "open", "status", "end", "prepare", "log_prepared", "log_rolling"}
       => st = "started"
  /\ pc \in {"idle", "start"} => \A p \in P : branch[t][p] # "prepared"
  /\ pc = "idle" => \A p \in P : branch[t][p] = "none"
  /\ pc = "start" => \A p \in P : p >= i => branch[t][p] = "none"
  /\ pc = "idle" => st = "none"
  /\ pc = "prepare" => \A p \in P : p < i => branch[t][p] = "prepared"
  /\ pc = "log_prepared" => \A p \in P : branch[t][p] = "prepared"
  /\ pc = "log_committing" => st = "prepared"
  /\ pc \in {"commit", "log_committed"} => st = "committing"
  /\ pc = "commit" => \A p \in P : p < i => branch[t][p] = "committed"
  /\ pc = "log_committed" => \A p \in P : branch[t][p] = "committed"
  /\ pc \in {"undo", "log_rolledback"} => st \in {"started", "rolling_back"}
  /\ pc = "undo" => \A p \in P : p > i => branch[t][p] # "prepared"
  /\ pc = "log_rolledback" => \A p \in P : branch[t][p] # "prepared"
  /\ pc \in {"status", "end", "log_prepared", "log_committing", "commit",
             "log_committed", "ok"} => task[t].op \in {"commit", "rollback"}
  /\ pc \in {"end", "prepare", "log_prepared", "log_committing", "commit",
             "log_committed"} => task[t].op = "commit"
  /\ pc = "ok" => st = IF task[t].op = "commit" THEN "committed" ELSE "rolled_back"

\* What the position of a recovery says: the decision it took from its scan
\* is still the side the row is on.
UndoSide == {"started", "rolling_back", "rolled_back"}
RecOK(r) ==
  LET pc == rec[r].pc
      t  == rec[r].tx
      i  == rec[r].i
  IN
  /\ pc \notin {"idle", "done"} => phase = "recovering"
  /\ phase = "down" => pc = "idle"
  /\ \A row \in rec[r].rows :
       log[row.tx].status \in IF ShouldCommit(row.status, row.decision)
                              THEN CommitSide ELSE UndoSide
  /\ pc \in {"commit", "rollback"} => i \in P
  /\ pc \in {"commit", "log_committed"} => t \in Tx /\ log[t].status \in CommitSide
  /\ pc = "commit" => \A p \in P : p < i => branch[t][p] = "committed"
  /\ pc = "log_committed" => \A p \in P : branch[t][p] = "committed"
  /\ pc \in {"rollback", "log_rolledback"} => t \in Tx /\ log[t].status \in UndoSide
  /\ pc = "rollback" => \A p \in P : p > i => branch[t][p] # "prepared"
  /\ pc = "log_rolledback" => \A p \in P : branch[t][p] # "prepared"
  /\ pc \in {"idle", "done"} => rec[r].rows = {}

IInv ==
  /\ TypeOK
  /\ \A t \in Tx : LogOK(t)
  /\ \A t \in Tx : TaskOK(t)
  /\ \A r \in Recoverers : RecOK(r)

-----------------------------------------------------------------------------
(* Frames: what a step that leaves a transaction or a recovery alone keeps. *)

\* A transaction whose row, branches and future a step leaves alone keeps
\* its part of the invariant.
LEMMA TaskFrame ==
  ASSUME IInv, NEW u \in Tx, phase' = phase,
         log'[u] = log[u], branch'[u] = branch[u], task'[u] = task[u]
  PROVE  LogOK(u)' /\ TaskOK(u)'
  BY DEF IInv, LogOK, TaskOK, P, CommitSide

\* While the process serves no recovery is at work.
LEMMA RecAtRest ==
  ASSUME IInv, phase = "serving", phase' = phase, rec' = rec
  PROVE  \A r \in Recoverers : RecOK(r)'
  BY DEF IInv, TypeOK, RecOK, RecPcs

\* A recovery is not disturbed by a step that commits no branch back, puts
\* none in doubt and leaves every row on its side.
LEMMA RecFrame ==
  ASSUME IInv, NEW s \in Recoverers, phase' = phase, rec'[s] = rec[s],
         \A u \in Tx, p \in P :
            /\ branch[u][p] = "committed" => branch'[u][p] = "committed"
            /\ branch[u][p] # "prepared" => branch'[u][p] # "prepared",
         \A u \in Tx :
            /\ log[u].status \in CommitSide => log'[u].status \in CommitSide
            /\ log[u].status \in UndoSide => log'[u].status \in UndoSide
  PROVE  RecOK(s)'
  BY DEF IInv, TypeOK, RecOK, RecRows

\* While the process recovers every future has returned, is lost or was
\* never started; its claims survive if rows keep absent or final states.
LEMMA TaskAtRest ==
  ASSUME IInv, NEW u \in Tx, phase = "recovering", phase' = phase, task' = task,
         log[u].status \in {"none", "committed", "rolled_back"}
            => log'[u].status = log[u].status,
         \A p \in P : /\ branch[u][p] # "prepared" => branch'[u][p] # "prepared"
                      /\ branch[u][p] = "none" => branch'[u][p] = "none"
  PROVE  TaskOK(u)'
  <1>1. task[u].pc \notin Running \cup {"open"}
    BY DEF IInv, TaskOK
  <1> QED BY <1>1 DEF IInv, TaskOK, TypeOK, Tasks, Pcs, Ops, Running

\* A log write leaves a typed row, and every other row alone.
LEMMA SetLogTyped ==
  ASSUME TypeOK, NEW t \in Tx, NEW st \in Statuses, NEW dec \in Decisions,
         NEW ok \in BOOLEAN, SetLog(t, st, dec, ok)
  PROVE  /\ log' \in [Tx -> Rows]
         /\ faults' \in 0..MaxFaults
         /\ log'[t].status = st \/ log'[t] = log[t]
         /\ ok => log'[t].status = st
         /\ \A u \in Tx : u # t => log'[u] = log[u]
  <1> DEFINE row == [status |-> st, decision |-> dec]
  <1>1. row \in Rows /\ row.status = st
    BY DEF Rows
  <1>2. faults' \in 0..MaxFaults
    BY BoundsAssumption DEF SetLog, Answer, TypeOK
  <1>3. log' = [log EXCEPT ![t] = row] \/ (ok = FALSE /\ log' = log)
    BY DEF SetLog
  <1> HIDE DEF row
  <1> QED BY <1>1, <1>2, <1>3 DEF TypeOK

-----------------------------------------------------------------------------
(* One lemma per action of a transaction.                                  *)

\* BeginLog: the row of a fresh transaction says nothing of its branches, which do not exist.
LEMMA BeginLogStep ==
  ASSUME NEW t \in Tx, IInv, BeginLog(t)
  PROVE  IInv'
  <1> USE NAssumption, BoundsAssumption
  <1>1. TypeOK'
    <2>1. PICK ok \in BOOLEAN :
            /\ SetLog(t, "started", "none", ok)
            /\ task' = [task EXCEPT ![t] = [op |-> "begin", i |-> 1,
                                          pc |-> IF ok THEN "start" ELSE "err"]]
      BY DEF BeginLog
    <2>2. log' \in [Tx -> Rows] /\ faults' \in 0..MaxFaults
      BY <2>1, SetLogTyped DEF IInv, Statuses, Decisions
    <2>3. task' \in [Tx -> Tasks]
      <3>1. CASE ok = TRUE
        BY <2>1, <3>1 DEF IInv, TypeOK, Goto, Tasks, Pcs, Running, Ops
      <3>2. CASE ok = FALSE
        BY <2>1, <3>2 DEF IInv, TypeOK, Goto, Tasks, Pcs, Running, Ops
      <3> QED BY <3>1, <3>2
    <2> QED BY <2>2, <2>3 DEF IInv, TypeOK, BeginLog
  <1>2. \A r \in Recoverers : RecOK(r)'
    <2>1. phase = "serving" /\ phase' = phase /\ rec' = rec
      BY DEF IInv, BeginLog, Answer, SetLog, TaskOK, Running
    <2> QED BY <2>1, RecAtRest
  <1>3. ASSUME NEW u \in Tx, u # t
        PROVE  LogOK(u)' /\ TaskOK(u)'
    <2>1. /\ phase' = phase /\ log'[u] = log[u]
          /\ branch'[u] = branch[u] /\ task'[u] = task[u]
      BY <1>3 DEF IInv, BeginLog, Answer, SetLog, TypeOK, Rows, Statuses, Decisions, Branches, Pins, Tasks, Pcs, Running, Ops, RecPcs, RecRows, Recoverable, P
    <2> QED BY <2>1, TaskFrame
  <1>4. LogOK(t)'
    <2>1. log[t].status = "none" /\ branch' = branch
      BY DEF IInv, BeginLog, TaskOK
    <2>2. log'[t].status = "started" \/ log'[t] = log[t]
      BY SetLogTyped DEF IInv, BeginLog, Statuses, Decisions
    <2>3. \A p \in P : branch[t][p] # "committed"
      BY <2>1 DEF IInv, LogOK, CommitSide
    <2> QED BY <2>1, <2>2, <2>3 DEF LogOK, CommitSide
  <1>5. TaskOK(t)'
    BY DEF IInv, BeginLog, Answer, SetLog, TaskOK, LogOK, CommitSide, TypeOK, Rows, Statuses, Decisions, Branches, Pins, Tasks, Pcs, Running, Ops, RecPcs, RecRows, Recoverable, P
  <1> QED BY <1>1, <1>2, <1>3, <1>4, <1>5 DEF IInv

\* BeginStart: no branch is prepared while branches are still being started.
LEMMA BeginStartStep ==
  ASSUME NEW t \in Tx, IInv, BeginStart(t)
  PROVE  IInv'
  <1> USE NAssumption, BoundsAssumption
  <1>1. TypeOK'
    BY DEF IInv, BeginStart, Answer, XaStart, Effect, Goto, TaskOK, TypeOK, Rows, Statuses, Decisions, Branches, Pins, Tasks, Pcs, Running, Ops, RecPcs, RecRows, Recoverable, P
  <1>2. \A r \in Recoverers : RecOK(r)'
    <2>1. phase = "serving" /\ phase' = phase /\ rec' = rec
      BY DEF IInv, BeginStart, Answer, XaStart, Effect, Goto, TaskOK, Running
    <2> QED BY <2>1, RecAtRest
  <1>3. ASSUME NEW u \in Tx, u # t
        PROVE  LogOK(u)' /\ TaskOK(u)'
    <2>1. /\ phase' = phase /\ log'[u] = log[u]
          /\ branch'[u] = branch[u] /\ task'[u] = task[u]
      BY <1>3 DEF IInv, BeginStart, Answer, XaStart, Effect, Goto, TypeOK, Rows, Statuses, Decisions, Branches, Pins, Tasks, Pcs, Running, Ops, RecPcs, RecRows, Recoverable, P
    <2> QED BY <2>1, TaskFrame
  <1>4. LogOK(t)'
    BY DEF IInv, BeginStart, Answer, XaStart, Effect, Goto, TaskOK, LogOK, CommitSide, TypeOK, Rows, Statuses, Decisions, Branches, Pins, Tasks, Pcs, Running, Ops, RecPcs, RecRows, Recoverable, P
  <1>5. TaskOK(t)'
    BY DEF IInv, BeginStart, Answer, XaStart, Effect, Goto, TaskOK, LogOK, CommitSide, TypeOK, Rows, Statuses, Decisions, Branches, Pins, Tasks, Pcs, Running, Ops, RecPcs, RecRows, Recoverable, P
  <1> QED BY <1>1, <1>2, <1>3, <1>4, <1>5 DEF IInv

\* CheckStatus: the row is still `started`, so the checks of a final row never apply.
LEMMA CheckStatusStep ==
  ASSUME NEW t \in Tx, IInv, CheckStatus(t)
  PROVE  IInv'
  <1> USE NAssumption, BoundsAssumption
  <1>1. TypeOK'
    BY DEF IInv, CheckStatus, Answer, AfterStatus, Goto, TaskOK, TypeOK, Rows, Statuses, Decisions, Tasks, Pcs, Running, Ops
  <1>2. \A r \in Recoverers : RecOK(r)'
    <2>1. phase = "serving" /\ phase' = phase /\ rec' = rec
      BY DEF IInv, CheckStatus, Answer, AfterStatus, Goto, TaskOK, Running
    <2> QED BY <2>1, RecAtRest
  <1>3. ASSUME NEW u \in Tx, u # t
        PROVE  LogOK(u)' /\ TaskOK(u)'
    <2>1. /\ phase' = phase /\ log'[u] = log[u]
          /\ branch'[u] = branch[u] /\ task'[u] = task[u]
      BY <1>3 DEF IInv, CheckStatus, Answer, AfterStatus, Goto, TypeOK, Rows, Statuses, Decisions, Branches, Pins, Tasks, Pcs, Running, Ops, RecPcs, RecRows, Recoverable, P
    <2> QED BY <2>1, TaskFrame
  <1>4. LogOK(t)'
    BY DEF IInv, CheckStatus, Answer, AfterStatus, Goto, TaskOK, LogOK, CommitSide, TypeOK, Rows, Statuses, Decisions, Branches, Pins, Tasks, Pcs, Running, Ops, RecPcs, RecRows, Recoverable, P
  <1>5. TaskOK(t)'
    BY DEF IInv, CheckStatus, Answer, AfterStatus, Goto, TaskOK, LogOK, CommitSide, TypeOK, Rows, Statuses, Decisions, Branches, Pins, Tasks, Pcs, Running, Ops, RecPcs, RecRows, Recoverable, P
  <1> QED BY <1>1, <1>2, <1>3, <1>4, <1>5 DEF IInv

\* CommitEnd: no row or branch changes.
LEMMA CommitEndStep ==
  ASSUME NEW t \in Tx, IInv, CommitEnd(t)
  PROVE  IInv'
  <1> USE NAssumption, BoundsAssumption
  <1>1. TypeOK'
    <2>1. PICK ok \in BOOLEAN :
            /\ Answer(ok)
            /\ Goto(t, IF ~ok THEN <<"log_rolling", 0>>
                       ELSE IF task[t].i = N THEN <<"prepare", 1>>
                       ELSE <<"end", task[t].i + 1>>)
      BY DEF CommitEnd
    <2>2. task[t].i \in P
      BY DEF IInv, CommitEnd, TaskOK
    <2>3. task' \in [Tx -> Tasks]
      <3>1. CASE ok = FALSE
        BY <2>1, <3>1 DEF IInv, TypeOK, Goto, Tasks, Pcs, Running
      <3>2. CASE ok = TRUE
        BY <2>1, <2>2, <3>2 DEF IInv, TypeOK, Goto, Tasks, Pcs, Running, P
      <3> QED BY <3>1, <3>2
    <2>4. faults' \in 0..MaxFaults
      BY <2>1 DEF IInv, TypeOK, Answer
    <2> QED BY <2>3, <2>4 DEF IInv, TypeOK, CommitEnd
  <1>2. \A r \in Recoverers : RecOK(r)'
    <2>1. phase = "serving" /\ phase' = phase /\ rec' = rec
      BY DEF IInv, CommitEnd, Answer, Goto, TaskOK, Running
    <2> QED BY <2>1, RecAtRest
  <1>3. ASSUME NEW u \in Tx, u # t
        PROVE  LogOK(u)' /\ TaskOK(u)'
    <2>1. /\ phase' = phase /\ log'[u] = log[u]
          /\ branch'[u] = branch[u] /\ task'[u] = task[u]
      BY <1>3 DEF IInv, CommitEnd, Answer, Goto, TypeOK, Rows, Statuses, Decisions, Branches, Pins, Tasks, Pcs, Running, Ops, RecPcs, RecRows, Recoverable, P
    <2> QED BY <2>1, TaskFrame
  <1>4. LogOK(t)'
    BY DEF IInv, CommitEnd, Answer, Goto, TaskOK, LogOK, CommitSide, TypeOK, Rows, Statuses, Decisions, Branches, Pins, Tasks, Pcs, Running, Ops, RecPcs, RecRows, Recoverable, P
  <1>5. TaskOK(t)'
    BY DEF IInv, CommitEnd, Answer, Goto, TaskOK, LogOK, CommitSide, TypeOK, Rows, Statuses, Decisions, Branches, Pins, Tasks, Pcs, Running, Ops, RecPcs, RecRows, Recoverable, P
  <1> QED BY <1>1, <1>2, <1>3, <1>4, <1>5 DEF IInv

\* CommitPrepare: the branches below i are prepared.
LEMMA CommitPrepareStep ==
  ASSUME NEW t \in Tx, IInv, CommitPrepare(t)
  PROVE  IInv'
  <1> USE NAssumption, BoundsAssumption
  <1>1. TypeOK'
    BY DEF IInv, CommitPrepare, Answer, XaPrepare, Effect, AfterPrepare, Goto, TaskOK, TypeOK, Rows, Statuses, Decisions, Branches, Pins, Tasks, Pcs, Running, Ops, RecPcs, RecRows, Recoverable, P
  <1>2. \A r \in Recoverers : RecOK(r)'
    <2>1. phase = "serving" /\ phase' = phase /\ rec' = rec
      BY DEF IInv, CommitPrepare, Answer, XaPrepare, Effect, AfterPrepare, Goto, TaskOK, Running
    <2> QED BY <2>1, RecAtRest
  <1>3. ASSUME NEW u \in Tx, u # t
        PROVE  LogOK(u)' /\ TaskOK(u)'
    <2>1. /\ phase' = phase /\ log'[u] = log[u]
          /\ branch'[u] = branch[u] /\ task'[u] = task[u]
      BY <1>3 DEF IInv, CommitPrepare, Answer, XaPrepare, Effect, AfterPrepare, Goto, TypeOK, Rows, Statuses, Decisions, Branches, Pins, Tasks, Pcs, Running, Ops, RecPcs, RecRows, Recoverable, P
    <2> QED BY <2>1, TaskFrame
  <1>4. LogOK(t)'
    BY DEF IInv, CommitPrepare, Answer, XaPrepare, Effect, AfterPrepare, Goto, TaskOK, LogOK, CommitSide, TypeOK, Rows, Statuses, Decisions, Branches, Pins, Tasks, Pcs, Running, Ops, RecPcs, RecRows, Recoverable, P
  <1>5. TaskOK(t)'
    BY DEF IInv, CommitPrepare, Answer, XaPrepare, Effect, AfterPrepare, Goto, TaskOK, LogOK, CommitSide, TypeOK, Rows, Statuses, Decisions, Branches, Pins, Tasks, Pcs, Running, Ops, RecPcs, RecRows, Recoverable, P
  <1> QED BY <1>1, <1>2, <1>3, <1>4, <1>5 DEF IInv

\* CommitLogPrepared: every branch is prepared when the row says so.
LEMMA CommitLogPreparedStep ==
  ASSUME NEW t \in Tx, IInv, CommitLogPrepared(t)
  PROVE  IInv'
  <1> USE NAssumption, BoundsAssumption
  <1>1. TypeOK'
    <2>1. PICK ok \in BOOLEAN :
            /\ SetLog(t, "prepared", "none", ok)
            /\ Goto(t, <<IF ok THEN "log_committing" ELSE "err", 0>>)
      BY DEF CommitLogPrepared
    <2>2. log' \in [Tx -> Rows] /\ faults' \in 0..MaxFaults
      BY <2>1, SetLogTyped DEF IInv, Statuses, Decisions
    <2>3. task' \in [Tx -> Tasks]
      <3>1. CASE ok = TRUE
        BY <2>1, <3>1 DEF IInv, TypeOK, Goto, Tasks, Pcs, Running
      <3>2. CASE ok = FALSE
        BY <2>1, <3>2 DEF IInv, TypeOK, Goto, Tasks, Pcs, Running
      <3> QED BY <3>1, <3>2
    <2> QED BY <2>2, <2>3 DEF IInv, TypeOK, CommitLogPrepared
  <1>2. \A r \in Recoverers : RecOK(r)'
    <2>1. phase = "serving" /\ phase' = phase /\ rec' = rec
      BY DEF IInv, CommitLogPrepared, Answer, SetLog, Goto, TaskOK, Running
    <2> QED BY <2>1, RecAtRest
  <1>3. ASSUME NEW u \in Tx, u # t
        PROVE  LogOK(u)' /\ TaskOK(u)'
    <2>1. /\ phase' = phase /\ log'[u] = log[u]
          /\ branch'[u] = branch[u] /\ task'[u] = task[u]
      BY <1>3 DEF IInv, CommitLogPrepared, Answer, SetLog, Goto, TypeOK, Rows, Statuses, Decisions, Branches, Pins, Tasks, Pcs, Running, Ops, RecPcs, RecRows, Recoverable, P
    <2> QED BY <2>1, TaskFrame
  <1>4. LogOK(t)'
    BY DEF IInv, CommitLogPrepared, Answer, SetLog, Goto, TaskOK, LogOK, CommitSide, TypeOK, Rows, Statuses, Decisions, Branches, Pins, Tasks, Pcs, Running, Ops, RecPcs, RecRows, Recoverable, P
  <1>5. TaskOK(t)'
    BY DEF IInv, CommitLogPrepared, Answer, SetLog, Goto, TaskOK, LogOK, CommitSide, TypeOK, Rows, Statuses, Decisions, Branches, Pins, Tasks, Pcs, Running, Ops, RecPcs, RecRows, Recoverable, P
  <1> QED BY <1>1, <1>2, <1>3, <1>4, <1>5 DEF IInv

\* CommitLogCommitting: the row was `prepared`.
LEMMA CommitLogCommittingStep ==
  ASSUME NEW t \in Tx, IInv, CommitLogCommitting(t)
  PROVE  IInv'
  <1> USE NAssumption, BoundsAssumption
  <1>1. TypeOK'
    <2>1. PICK ok \in BOOLEAN :
            /\ SetLog(t, "committing", "commit", ok)
            /\ Goto(t, <<IF ok THEN "commit" ELSE "err", 1>>)
      BY DEF CommitLogCommitting
    <2>2. log' \in [Tx -> Rows] /\ faults' \in 0..MaxFaults
      BY <2>1, SetLogTyped DEF IInv, Statuses, Decisions
    <2>3. task' \in [Tx -> Tasks]
      <3>1. CASE ok = TRUE
        BY <2>1, <3>1 DEF IInv, TypeOK, Goto, Tasks, Pcs, Running, Ops
      <3>2. CASE ok = FALSE
        BY <2>1, <3>2 DEF IInv, TypeOK, Goto, Tasks, Pcs, Running, Ops
      <3> QED BY <3>1, <3>2
    <2> QED BY <2>2, <2>3 DEF IInv, TypeOK, CommitLogCommitting
  <1>2. \A r \in Recoverers : RecOK(r)'
    <2>1. phase = "serving" /\ phase' = phase /\ rec' = rec
      BY DEF IInv, CommitLogCommitting, Answer, SetLog, Goto, TaskOK, Running
    <2> QED BY <2>1, RecAtRest
  <1>3. ASSUME NEW u \in Tx, u # t
        PROVE  LogOK(u)' /\ TaskOK(u)'
    <2>1. /\ phase' = phase /\ log'[u] = log[u]
          /\ branch'[u] = branch[u] /\ task'[u] = task[u]
      BY <1>3 DEF IInv, CommitLogCommitting, Answer, SetLog, Goto, TypeOK, Rows, Statuses, Decisions, Branches, Pins, Tasks, Pcs, Running, Ops, RecPcs, RecRows, Recoverable, P
    <2> QED BY <2>1, TaskFrame
  <1>4. LogOK(t)'
    BY DEF IInv, CommitLogCommitting, Answer, SetLog, Goto, TaskOK, LogOK, CommitSide, TypeOK, Rows, Statuses, Decisions, Branches, Pins, Tasks, Pcs, Running, Ops, RecPcs, RecRows, Recoverable, P
  <1>5. TaskOK(t)'
    BY DEF IInv, CommitLogCommitting, Answer, SetLog, Goto, TaskOK, LogOK, CommitSide, TypeOK, Rows, Statuses, Decisions, Branches, Pins, Tasks, Pcs, Running, Ops, RecPcs, RecRows, Recoverable, P
  <1> QED BY <1>1, <1>2, <1>3, <1>4, <1>5 DEF IInv

\* CommitBranch: the branches below i are committed.
LEMMA CommitBranchStep ==
  ASSUME NEW t \in Tx, IInv, CommitBranch(t)
  PROVE  IInv'
  <1> USE NAssumption, BoundsAssumption
  <1>1. TypeOK'
    BY DEF IInv, CommitBranch, Answer, XaCommit, Effect, AfterCommit, Goto, TaskOK, TypeOK, Rows, Statuses, Decisions, Branches, Pins, Tasks, Pcs, Running, Ops, RecPcs, RecRows, Recoverable, P
  <1>2. \A r \in Recoverers : RecOK(r)'
    <2>1. phase = "serving" /\ phase' = phase /\ rec' = rec
      BY DEF IInv, CommitBranch, Answer, XaCommit, Effect, AfterCommit, Goto, TaskOK, Running
    <2> QED BY <2>1, RecAtRest
  <1>3. ASSUME NEW u \in Tx, u # t
        PROVE  LogOK(u)' /\ TaskOK(u)'
    <2>1. /\ phase' = phase /\ log'[u] = log[u]
          /\ branch'[u] = branch[u] /\ task'[u] = task[u]
      BY <1>3 DEF IInv, CommitBranch, Answer, XaCommit, Effect, AfterCommit, Goto, TypeOK, Rows, Statuses, Decisions, Branches, Pins, Tasks, Pcs, Running, Ops, RecPcs, RecRows, Recoverable, P
    <2> QED BY <2>1, TaskFrame
  <1>4. LogOK(t)'
    BY DEF IInv, CommitBranch, Answer, XaCommit, Effect, AfterCommit, Goto, TaskOK, LogOK, CommitSide, TypeOK, Rows, Statuses, Decisions, Branches, Pins, Tasks, Pcs, Running, Ops, RecPcs, RecRows, Recoverable, P
  <1>5. TaskOK(t)'
    BY DEF IInv, CommitBranch, Answer, XaCommit, Effect, AfterCommit, Goto, TaskOK, LogOK, CommitSide, TypeOK, Rows, Statuses, Decisions, Branches, Pins, Tasks, Pcs, Running, Ops, RecPcs, RecRows, Recoverable, P
  <1> QED BY <1>1, <1>2, <1>3, <1>4, <1>5 DEF IInv

\* CommitLogCommitted: every branch is committed when the row says so.
LEMMA CommitLogCommittedStep ==
  ASSUME NEW t \in Tx, IInv, CommitLogCommitted(t)
  PROVE  IInv'
  <1> USE NAssumption, BoundsAssumption
  <1>1. TypeOK'
    <2>1. PICK ok \in BOOLEAN :
            /\ SetLog(t, "committed", "commit", ok)
            /\ Goto(t, <<IF ok THEN "ok" ELSE "err", 0>>)
      BY DEF CommitLogCommitted
    <2>2. log' \in [Tx -> Rows] /\ faults' \in 0..MaxFaults
      BY <2>1, SetLogTyped DEF IInv, Statuses, Decisions
    <2>3. task' \in [Tx -> Tasks]
      <3>1. CASE ok = TRUE
        BY <2>1, <3>1 DEF IInv, TypeOK, Goto, Tasks, Pcs, Running, Ops
      <3>2. CASE ok = FALSE
        BY <2>1, <3>2 DEF IInv, TypeOK, Goto, Tasks, Pcs, Running, Ops
      <3> QED BY <3>1, <3>2
    <2> QED BY <2>2, <2>3 DEF IInv, TypeOK, CommitLogCommitted
  <1>2. \A r \in Recoverers : RecOK(r)'
    <2>1. phase = "serving" /\ phase' = phase /\ rec' = rec
      BY DEF IInv, CommitLogCommitted, Answer, SetLog, Goto, TaskOK, Running
    <2> QED BY <2>1, RecAtRest
  <1>3. ASSUME NEW u \in Tx, u # t
        PROVE  LogOK(u)' /\ TaskOK(u)'
    <2>1. /\ phase' = phase /\ log'[u] = log[u]
          /\ branch'[u] = branch[u] /\ task'[u] = task[u]
      BY <1>3 DEF IInv, CommitLogCommitted, Answer, SetLog, Goto, TypeOK, Rows, Statuses, Decisions, Branches, Pins, Tasks, Pcs, Running, Ops, RecPcs, RecRows, Recoverable, P
    <2> QED BY <2>1, TaskFrame
  <1>4. LogOK(t)'
    BY DEF IInv, CommitLogCommitted, Answer, SetLog, Goto, TaskOK, LogOK, CommitSide, TypeOK, Rows, Statuses, Decisions, Branches, Pins, Tasks, Pcs, Running, Ops, RecPcs, RecRows, Recoverable, P
  <1>5. TaskOK(t)'
    BY DEF IInv, CommitLogCommitted, Answer, SetLog, Goto, TaskOK, LogOK, CommitSide, TypeOK, Rows, Statuses, Decisions, Branches, Pins, Tasks, Pcs, Running, Ops, RecPcs, RecRows, Recoverable, P
  <1> QED BY <1>1, <1>2, <1>3, <1>4, <1>5 DEF IInv

\* UndoLogRolling: the row was `started`: no branch is committed.
LEMMA UndoLogRollingStep ==
  ASSUME NEW t \in Tx, IInv, UndoLogRolling(t)
  PROVE  IInv'
  <1> USE NAssumption, BoundsAssumption
  <1>1. TypeOK'
    <2>1. PICK ok \in BOOLEAN :
            /\ SetLog(t, "rolling_back", "rollback", ok)
            /\ Goto(t, IF ok THEN <<"undo", N>> ELSE <<"err", 0>>)
      BY DEF UndoLogRolling, LastBranch
    <2>2. log' \in [Tx -> Rows] /\ faults' \in 0..MaxFaults
      BY <2>1, SetLogTyped DEF IInv, Statuses, Decisions
    <2>3. task' \in [Tx -> Tasks]
      <3>1. CASE ok = TRUE
        BY <2>1, <3>1 DEF IInv, TypeOK, Goto, Tasks, Pcs, Running
      <3>2. CASE ok = FALSE
        BY <2>1, <3>2 DEF IInv, TypeOK, Goto, Tasks, Pcs, Running
      <3> QED BY <3>1, <3>2
    <2> QED BY <2>2, <2>3 DEF IInv, TypeOK, UndoLogRolling
  <1>2. \A r \in Recoverers : RecOK(r)'
    <2>1. phase = "serving" /\ phase' = phase /\ rec' = rec
      BY DEF IInv, UndoLogRolling, Answer, SetLog, LastBranch, Goto, TaskOK, Running
    <2> QED BY <2>1, RecAtRest
  <1>3. ASSUME NEW u \in Tx, u # t
        PROVE  LogOK(u)' /\ TaskOK(u)'
    <2>1. /\ phase' = phase /\ log'[u] = log[u]
          /\ branch'[u] = branch[u] /\ task'[u] = task[u]
      BY <1>3 DEF IInv, UndoLogRolling, Answer, SetLog, LastBranch, Goto, TypeOK, Rows, Statuses, Decisions, Branches, Pins, Tasks, Pcs, Running, Ops, RecPcs, RecRows, Recoverable, P
    <2> QED BY <2>1, TaskFrame
  <1>4. LogOK(t)'
    <2>1. log'[t].status \in {"started", "rolling_back"} /\ branch' = branch
      BY DEF IInv, UndoLogRolling, TaskOK, SetLog, TypeOK
    <2>2. \A p \in P : branch[t][p] # "committed"
      BY DEF IInv, UndoLogRolling, TaskOK, LogOK, CommitSide
    <2> QED BY <2>1, <2>2 DEF LogOK, CommitSide
  <1>5. TaskOK(t)'
    BY DEF IInv, UndoLogRolling, Answer, SetLog, LastBranch, Goto, TaskOK, LogOK, CommitSide, TypeOK, Rows, Statuses, Decisions, Branches, Pins, Tasks, Pcs, Running, Ops, RecPcs, RecRows, Recoverable, P
  <1> QED BY <1>1, <1>2, <1>3, <1>4, <1>5 DEF IInv

\* UndoBranch: the branches above i are not prepared.
LEMMA UndoBranchStep ==
  ASSUME NEW t \in Tx, IInv, UndoBranch(t)
  PROVE  IInv'
  <1> USE NAssumption, BoundsAssumption
  <1>1. TypeOK'
    BY DEF IInv, UndoBranch, Answer, XaRollback, Effect, AfterUndo, Goto, TaskOK, TypeOK, Rows, Statuses, Decisions, Branches, Pins, Tasks, Pcs, Running, Ops, RecPcs, RecRows, Recoverable, P
  <1>2. \A r \in Recoverers : RecOK(r)'
    <2>1. phase = "serving" /\ phase' = phase /\ rec' = rec
      BY DEF IInv, UndoBranch, Answer, XaRollback, Effect, AfterUndo, Goto, TaskOK, Running
    <2> QED BY <2>1, RecAtRest
  <1>3. ASSUME NEW u \in Tx, u # t
        PROVE  LogOK(u)' /\ TaskOK(u)'
    <2>1. /\ phase' = phase /\ log'[u] = log[u]
          /\ branch'[u] = branch[u] /\ task'[u] = task[u]
      BY <1>3 DEF IInv, UndoBranch, Answer, XaRollback, Effect, AfterUndo, Goto, TypeOK, Rows, Statuses, Decisions, Branches, Pins, Tasks, Pcs, Running, Ops, RecPcs, RecRows, Recoverable, P
    <2> QED BY <2>1, TaskFrame
  <1>4. LogOK(t)'
    <2>1. log'[t].status \in {"started", "rolling_back"}
      BY DEF IInv, UndoBranch, TaskOK
    <2>2. \A p \in P : branch'[t][p] # "committed"
      <3>1. \A p \in P : branch[t][p] # "committed"
        BY <2>1 DEF IInv, UndoBranch, LogOK, CommitSide
      <3> QED BY <3>1 DEF IInv, UndoBranch, XaRollback, Effect, TypeOK, Branches
    <2> QED BY <2>1, <2>2 DEF LogOK, CommitSide
  <1>5. TaskOK(t)'
    BY DEF IInv, UndoBranch, Answer, XaRollback, Effect, AfterUndo, Goto, TaskOK, LogOK, CommitSide, TypeOK, Rows, Statuses, Decisions, Branches, Pins, Tasks, Pcs, Running, Ops, RecPcs, RecRows, Recoverable, P
  <1> QED BY <1>1, <1>2, <1>3, <1>4, <1>5 DEF IInv

\* UndoLogRolledBack: no branch is prepared or committed when the row says so.
LEMMA UndoLogRolledBackStep ==
  ASSUME NEW t \in Tx, IInv, UndoLogRolledBack(t)
  PROVE  IInv'
  <1> USE NAssumption, BoundsAssumption
  <1>1. TypeOK'
    <2>1. PICK ok \in BOOLEAN :
            /\ SetLog(t, "rolled_back", "rollback", ok)
            /\ Goto(t, <<IF ok /\ task[t].op = "rollback" THEN "ok" ELSE "err", 0>>)
      BY DEF UndoLogRolledBack
    <2>2. log' \in [Tx -> Rows] /\ faults' \in 0..MaxFaults
      BY <2>1, SetLogTyped DEF IInv, Statuses, Decisions
    <2>3. task' \in [Tx -> Tasks]
      <3>1. CASE ok = TRUE
        BY <2>1, <3>1 DEF IInv, TypeOK, Goto, Tasks, Pcs, Running
      <3>2. CASE ok = FALSE
        BY <2>1, <3>2 DEF IInv, TypeOK, Goto, Tasks, Pcs, Running
      <3> QED BY <3>1, <3>2
    <2> QED BY <2>2, <2>3 DEF IInv, TypeOK, UndoLogRolledBack
  <1>2. \A r \in Recoverers : RecOK(r)'
    <2>1. phase = "serving" /\ phase' = phase /\ rec' = rec
      BY DEF IInv, UndoLogRolledBack, Answer, SetLog, Goto, TaskOK, Running
    <2> QED BY <2>1, RecAtRest
  <1>3. ASSUME NEW u \in Tx, u # t
        PROVE  LogOK(u)' /\ TaskOK(u)'
    <2>1. /\ phase' = phase /\ log'[u] = log[u]
          /\ branch'[u] = branch[u] /\ task'[u] = task[u]
      BY <1>3 DEF IInv, UndoLogRolledBack, Answer, SetLog, Goto, TypeOK, Rows, Statuses, Decisions, Branches, Pins, Tasks, Pcs, Running, Ops, RecPcs, RecRows, Recoverable, P
    <2> QED BY <2>1, TaskFrame
  <1>4. LogOK(t)'
    <2>1. /\ log[t].status \in {"started", "rolling_back"} /\ branch' = branch
          /\ \A p \in P : branch[t][p] # "prepared"
      BY DEF IInv, UndoLogRolledBack, TaskOK
    <2>2. log'[t].status = "rolled_back" \/ log'[t] = log[t]
      BY SetLogTyped DEF IInv, UndoLogRolledBack, Statuses, Decisions
    <2>3. \A p \in P : branch[t][p] # "committed"
      BY <2>1 DEF IInv, LogOK, CommitSide
    <2> QED BY <2>1, <2>2, <2>3 DEF LogOK, CommitSide
  <1>5. TaskOK(t)'
    BY DEF IInv, UndoLogRolledBack, Answer, SetLog, Goto, TaskOK, LogOK, CommitSide, TypeOK, Rows, Statuses, Decisions, Branches, Pins, Tasks, Pcs, Running, Ops, RecPcs, RecRows, Recoverable, P
  <1> QED BY <1>1, <1>2, <1>3, <1>4, <1>5 DEF IInv

\* Cancel: only the future is lost.
LEMMA CancelStep ==
  ASSUME NEW t \in Tx, IInv, Cancel(t)
  PROVE  IInv'
  <1> USE NAssumption, BoundsAssumption
  <1>1. TypeOK'
    BY DEF IInv, Cancel, Goto, TaskOK, TypeOK, Rows, Statuses, Decisions, Tasks, Pcs, Running, Ops
  <1>2. \A r \in Recoverers : RecOK(r)'
    <2>1. phase = "serving" /\ phase' = phase /\ rec' = rec
      BY DEF IInv, Cancel, Goto, TaskOK, Running
    <2> QED BY <2>1, RecAtRest
  <1>3. ASSUME NEW u \in Tx, u # t
        PROVE  LogOK(u)' /\ TaskOK(u)'
    <2>1. /\ phase' = phase /\ log'[u] = log[u]
          /\ branch'[u] = branch[u] /\ task'[u] = task[u]
      BY <1>3 DEF IInv, Cancel, Goto, TypeOK, Rows, Statuses, Decisions, Branches, Pins, Tasks, Pcs, Running, Ops, RecPcs, RecRows, Recoverable, P
    <2> QED BY <2>1, TaskFrame
  <1>4. LogOK(t)'
    BY DEF IInv, Cancel, Goto, TaskOK, LogOK, CommitSide, TypeOK, Rows, Statuses, Decisions, Branches, Pins, Tasks, Pcs, Running, Ops, RecPcs, RecRows, Recoverable, P
  <1>5. TaskOK(t)'
    BY DEF IInv, Cancel, Goto, TaskOK, LogOK, CommitSide, TypeOK, Rows, Statuses, Decisions, Branches, Pins, Tasks, Pcs, Running, Ops, RecPcs, RecRows, Recoverable, P
  <1> QED BY <1>1, <1>2, <1>3, <1>4, <1>5 DEF IInv

-----------------------------------------------------------------------------
(* One lemma per action of a recovery.                                     *)

\* A recovery moves to a typed position.
LEMMA RecoverAtTyped ==
  ASSUME TypeOK, NEW r \in Recoverers, NEW pc \in RecPcs,
         NEW t \in Tx \cup {"none"}, NEW i \in 0..N, RecoverAt(r, pc, t, i)
  PROVE  rec' \in [Recoverers -> [pc : RecPcs, rows : SUBSET RecRows,
                                  tx : Tx \cup {"none"}, i : 0..N]]
  BY DEF TypeOK, RecoverAt

\* RecoverScan: each scanned row is on the side its replay will take.
LEMMA RecoverScanStep ==
  ASSUME NEW r \in Recoverers, IInv, RecoverScan(r)
  PROVE  IInv'
  <1> USE NAssumption, BoundsAssumption
  <1>1. TypeOK'
    BY DEF IInv, RecoverScan, Answer, ScannedStatuses, ShouldCommit, RecOK, TypeOK, Rows, Statuses, Decisions, Branches, Pins, Tasks, Pcs, Running, Ops, RecPcs, RecRows, Recoverable, P
  <1>2. phase = "recovering" /\ phase' = phase /\ task' = task
    BY DEF IInv, RecoverScan, Answer, ScannedStatuses, ShouldCommit, RecOK
  <1>3. /\ \A u \in Tx, p \in P :
             /\ branch[u][p] = "committed" => branch'[u][p] = "committed"
             /\ branch[u][p] # "prepared" => branch'[u][p] # "prepared"
             /\ branch[u][p] = "none" => branch'[u][p] = "none"
        /\ \A u \in Tx :
             /\ log[u].status \in CommitSide => log'[u].status \in CommitSide
             /\ log[u].status \in UndoSide => log'[u].status \in UndoSide
             /\ log[u].status \in {"none", "committed", "rolled_back"}
                  => log'[u].status = log[u].status
    BY DEF IInv, RecoverScan, Answer, ScannedStatuses, ShouldCommit, RecOK, CommitSide, UndoSide, TypeOK, Rows, Statuses, Decisions, Branches, Pins, Tasks, Pcs, Running, Ops, RecPcs, RecRows, Recoverable, P
  <1>4. \A u \in Tx : LogOK(u)'
    BY DEF IInv, RecoverScan, Answer, ScannedStatuses, ShouldCommit, RecOK, LogOK, CommitSide, UndoSide, TypeOK, Rows, Statuses, Decisions, Branches, Pins, Tasks, Pcs, Running, Ops, RecPcs, RecRows, Recoverable, P
  <1>5. \A u \in Tx : TaskOK(u)'
    BY <1>2, <1>3, TaskAtRest
  <1>6. ASSUME NEW s \in Recoverers, s # r
        PROVE  RecOK(s)'
    <2>1. rec'[s] = rec[s]
      BY <1>6 DEF IInv, RecoverScan, Answer, ScannedStatuses, ShouldCommit, TypeOK
    <2> QED BY <1>2, <1>3, <2>1, RecFrame
  <1>7. RecOK(r)'
    <2>1. phase' = "recovering" /\ log' = log
      BY DEF RecoverScan
    <2>2. rec'[r].pc \in {"loop", "done"} /\ (rec'[r].pc = "done" => rec'[r].rows = {})
      BY DEF RecoverScan, IInv, TypeOK
    <2>3. \A row \in rec'[r].rows :
            /\ row.tx \in Tx /\ row.status \in Recoverable
            /\ log[row.tx].status = row.status
            /\ log[row.tx].decision = row.decision
      BY DEF RecoverScan, IInv, TypeOK, ScannedStatuses, Recoverable
    <2>4. \A row \in rec'[r].rows :
            log[row.tx].status \in IF ShouldCommit(row.status, row.decision)
                                   THEN CommitSide ELSE UndoSide
      <3>1. SUFFICES ASSUME NEW row \in rec'[r].rows
                     PROVE  log[row.tx].status \in
                              IF ShouldCommit(row.status, row.decision)
                              THEN CommitSide ELSE UndoSide
        OBVIOUS
      <3>2. row.status = "prepared" => row.decision # "rollback"
        BY <2>3 DEF IInv, LogOK
      <3> QED BY <2>3, <3>2 DEF ShouldCommit, Recoverable, CommitSide, UndoSide
    <2> QED BY <2>1, <2>2, <2>4 DEF RecOK
  <1> QED BY <1>1, <1>4, <1>5, <1>6, <1>7 DEF IInv

\* RecoverRow: a row of the scan is still on its side.
LEMMA RecoverRowStep ==
  ASSUME NEW r \in Recoverers, IInv, RecoverRow(r)
  PROVE  IInv'
  <1> USE NAssumption, BoundsAssumption
  <1>1. TypeOK'
    BY DEF IInv, RecoverRow, Answer, ShouldCommit, RecOK, TypeOK, Rows, Statuses, Decisions, Branches, Pins, Tasks, Pcs, Running, Ops, RecPcs, RecRows, Recoverable, P
  <1>2. phase = "recovering" /\ phase' = phase /\ task' = task
    BY DEF IInv, RecoverRow, Answer, ShouldCommit, RecOK
  <1>3. /\ \A u \in Tx, p \in P :
             /\ branch[u][p] = "committed" => branch'[u][p] = "committed"
             /\ branch[u][p] # "prepared" => branch'[u][p] # "prepared"
             /\ branch[u][p] = "none" => branch'[u][p] = "none"
        /\ \A u \in Tx :
             /\ log[u].status \in CommitSide => log'[u].status \in CommitSide
             /\ log[u].status \in UndoSide => log'[u].status \in UndoSide
             /\ log[u].status \in {"none", "committed", "rolled_back"}
                  => log'[u].status = log[u].status
    BY DEF IInv, RecoverRow, Answer, ShouldCommit, RecOK, CommitSide, UndoSide, TypeOK, Rows, Statuses, Decisions, Branches, Pins, Tasks, Pcs, Running, Ops, RecPcs, RecRows, Recoverable, P
  <1>4. \A u \in Tx : LogOK(u)'
    BY DEF IInv, RecoverRow, Answer, ShouldCommit, RecOK, LogOK, CommitSide, UndoSide, TypeOK, Rows, Statuses, Decisions, Branches, Pins, Tasks, Pcs, Running, Ops, RecPcs, RecRows, Recoverable, P
  <1>5. \A u \in Tx : TaskOK(u)'
    BY <1>2, <1>3, TaskAtRest
  <1>6. ASSUME NEW s \in Recoverers, s # r
        PROVE  RecOK(s)'
    <2>1. rec'[s] = rec[s]
      BY <1>6 DEF IInv, RecoverRow, Answer, ShouldCommit, TypeOK
    <2> QED BY <1>2, <1>3, <2>1, RecFrame
  <1>7. RecOK(r)'
    BY DEF IInv, RecoverRow, Answer, ShouldCommit, RecOK, LogOK, CommitSide, UndoSide, TypeOK, Rows, Statuses, Decisions, Branches, Pins, Tasks, Pcs, Running, Ops, RecPcs, RecRows, Recoverable, P
  <1> QED BY <1>1, <1>4, <1>5, <1>6, <1>7 DEF IInv

\* RecoverCommit: the row is on the commit side, so every branch is prepared or committed.
LEMMA RecoverCommitStep ==
  ASSUME NEW r \in Recoverers, IInv, RecoverCommit(r)
  PROVE  IInv'
  <1> USE NAssumption, BoundsAssumption
  <1>1. TypeOK'
    <2>1. rec[r].tx \in Tx /\ rec[r].i \in P
      BY DEF IInv, RecoverCommit, RecOK
    <2>2. branch' \in [Tx -> [P -> Branches]]
      BY <2>1 DEF IInv, TypeOK, RecoverCommit
    <2>3. faults' \in 0..MaxFaults
      BY DEF IInv, TypeOK, RecoverCommit, Answer
    <2>4. rec' \in [Recoverers -> [pc : RecPcs, rows : SUBSET RecRows,
                                   tx : Tx \cup {"none"}, i : 0..N]]
      BY <2>1, RecoverAtTyped DEF IInv, RecoverCommit, RecoverNext, RecoverFail, RecPcs, P
    <2> QED BY <2>2, <2>3, <2>4 DEF IInv, TypeOK, RecoverCommit
  <1>2. phase = "recovering" /\ phase' = phase /\ task' = task
    BY DEF IInv, RecoverCommit, Answer, XaCommit, Effect, RecoverNext, RecoverFail, RecoverAt, RecOK
  <1>3. /\ \A u \in Tx, p \in P :
             /\ branch[u][p] = "committed" => branch'[u][p] = "committed"
             /\ branch[u][p] # "prepared" => branch'[u][p] # "prepared"
             /\ branch[u][p] = "none" => branch'[u][p] = "none"
        /\ \A u \in Tx :
             /\ log[u].status \in CommitSide => log'[u].status \in CommitSide
             /\ log[u].status \in UndoSide => log'[u].status \in UndoSide
             /\ log[u].status \in {"none", "committed", "rolled_back"}
                  => log'[u].status = log[u].status
    BY DEF IInv, RecoverCommit, Answer, XaCommit, Effect, RecoverNext, RecoverFail, RecoverAt, RecOK, CommitSide, UndoSide, TypeOK, Rows, Statuses, Decisions, Branches, Pins, Tasks, Pcs, Running, Ops, RecPcs, RecRows, Recoverable, P
  <1>4. \A u \in Tx : LogOK(u)'
    BY DEF IInv, RecoverCommit, Answer, XaCommit, Effect, RecoverNext, RecoverFail, RecoverAt, RecOK, LogOK, CommitSide, UndoSide, TypeOK, Rows, Statuses, Decisions, Branches, Pins, Tasks, Pcs, Running, Ops, RecPcs, RecRows, Recoverable, P
  <1>5. \A u \in Tx : TaskOK(u)'
    BY <1>2, <1>3, TaskAtRest
  <1>6. ASSUME NEW s \in Recoverers, s # r
        PROVE  RecOK(s)'
    <2>1. rec'[s] = rec[s]
      BY <1>6 DEF IInv, RecoverCommit, Answer, XaCommit, Effect, RecoverNext, RecoverFail, RecoverAt, TypeOK
    <2> QED BY <1>2, <1>3, <2>1, RecFrame
  <1>7. RecOK(r)'
    BY DEF IInv, RecoverCommit, Answer, XaCommit, Effect, RecoverNext, RecoverFail, RecoverAt, RecOK, LogOK, CommitSide, UndoSide, TypeOK, Rows, Statuses, Decisions, Branches, Pins, Tasks, Pcs, Running, Ops, RecPcs, RecRows, Recoverable, P
  <1> QED BY <1>1, <1>4, <1>5, <1>6, <1>7 DEF IInv

\* RecoverRollback: the row is on the undo side, so no branch is committed.
LEMMA RecoverRollbackStep ==
  ASSUME NEW r \in Recoverers, IInv, RecoverRollback(r)
  PROVE  IInv'
  <1> USE NAssumption, BoundsAssumption
  <1>1. TypeOK'
    <2>1. rec[r].tx \in Tx /\ rec[r].i \in P
      BY DEF IInv, RecoverRollback, RecOK
    <2>2. branch' \in [Tx -> [P -> Branches]]
      BY <2>1 DEF IInv, TypeOK, RecoverRollback
    <2>3. faults' \in 0..MaxFaults
      BY DEF IInv, TypeOK, RecoverRollback, Answer
    <2>4. rec' \in [Recoverers -> [pc : RecPcs, rows : SUBSET RecRows,
                                   tx : Tx \cup {"none"}, i : 0..N]]
      BY <2>1, RecoverAtTyped DEF IInv, RecoverRollback, RecoverNext, RecoverFail, RecPcs, P
    <2> QED BY <2>2, <2>3, <2>4 DEF IInv, TypeOK, RecoverRollback
  <1>2. phase = "recovering" /\ phase' = phase /\ task' = task
    BY DEF IInv, RecoverRollback, Answer, XaRollback, Effect, RecoverNext, RecoverFail, RecoverAt, RecOK
  <1>3. /\ \A u \in Tx, p \in P :
             /\ branch[u][p] = "committed" => branch'[u][p] = "committed"
             /\ branch[u][p] # "prepared" => branch'[u][p] # "prepared"
             /\ branch[u][p] = "none" => branch'[u][p] = "none"
        /\ \A u \in Tx :
             /\ log[u].status \in CommitSide => log'[u].status \in CommitSide
             /\ log[u].status \in UndoSide => log'[u].status \in UndoSide
             /\ log[u].status \in {"none", "committed", "rolled_back"}
                  => log'[u].status = log[u].status
    <2>1. rec[r].tx \in Tx /\ rec[r].i \in P /\ log[rec[r].tx].status \in UndoSide
      BY DEF IInv, RecoverRollback, RecOK
    <2>2. branch[rec[r].tx][rec[r].i] # "committed"
      BY <2>1 DEF IInv, LogOK, UndoSide, CommitSide
    <2> QED BY <2>1, <2>2 DEF IInv, RecoverRollback, XaRollback, Effect, TypeOK
  <1>4. \A u \in Tx : LogOK(u)'
    <2>1. /\ rec[r].tx \in Tx /\ rec[r].i \in P /\ log' = log
          /\ log[rec[r].tx].status \in UndoSide
      BY DEF IInv, RecoverRollback, RecOK
    <2>2. \A p \in P : branch[rec[r].tx][p] # "committed"
      BY <2>1 DEF IInv, LogOK, UndoSide, CommitSide
    <2>3. /\ \A p \in P : branch'[rec[r].tx][p] # "committed"
          /\ \A u \in Tx : u # rec[r].tx => branch'[u] = branch[u]
      BY <2>1, <2>2 DEF IInv, RecoverRollback, XaRollback, Effect, TypeOK
    <2> QED BY <1>3, <2>1, <2>3 DEF IInv, LogOK, UndoSide, CommitSide
  <1>5. \A u \in Tx : TaskOK(u)'
    BY <1>2, <1>3, TaskAtRest
  <1>6. ASSUME NEW s \in Recoverers, s # r
        PROVE  RecOK(s)'
    <2>1. rec'[s] = rec[s]
      BY <1>6 DEF IInv, RecoverRollback, Answer, XaRollback, Effect, RecoverNext, RecoverFail, RecoverAt, TypeOK
    <2> QED BY <1>2, <1>3, <2>1, RecFrame
  <1>7. RecOK(r)'
    <2>1. /\ rec[r].tx \in Tx /\ rec[r].i \in P /\ log' = log
          /\ log[rec[r].tx].status \in UndoSide
          /\ \A p \in P : p > rec[r].i => branch[rec[r].tx][p] # "prepared"
      BY DEF IInv, RecoverRollback, RecOK
    <2>2. PICK c \in Branches, ok \in BOOLEAN :
            /\ XaRollback(branch[rec[r].tx][rec[r].i], c, ok, pin[rec[r].tx][rec[r].i])
            /\ branch' = [branch EXCEPT ![rec[r].tx][rec[r].i] = c]
            /\ IF ~ok THEN RecoverFail(r)
               ELSE IF rec[r].i = 1 THEN RecoverNext(r, "log_rolledback", 0)
                             ELSE RecoverNext(r, "rollback", rec[r].i - 1)
      BY DEF RecoverRollback
    <2>3. \A row \in rec[r].rows : row.tx \in Tx
      BY DEF IInv, TypeOK, RecRows
    <2>4. CASE ok = FALSE
      <3>1. rec'[r] = [pc |-> "loop", rows |-> rec[r].rows, tx |-> "none", i |-> 0]
        BY <2>2, <2>4 DEF RecoverFail, RecoverAt, IInv, TypeOK
      <3> QED BY <1>2, <1>3, <2>3, <3>1 DEF IInv, RecOK
    <2>5. CASE ok = TRUE
      <3>1. c # "prepared"
        BY <2>2, <2>5 DEF XaRollback, Effect
      <3>2. \A p \in P : p >= rec[r].i => branch'[rec[r].tx][p] # "prepared"
        BY <2>1, <2>2, <3>1 DEF IInv, TypeOK, P
      <3>3. CASE rec[r].i = 1
        <4>1. rec'[r] = [pc |-> "log_rolledback", rows |-> rec[r].rows,
                         tx |-> rec[r].tx, i |-> 0]
          BY <2>2, <2>5, <3>3 DEF RecoverNext, RecoverAt, IInv, TypeOK
        <4> QED BY <1>2, <1>3, <2>1, <2>3, <3>2, <3>3, <4>1 DEF IInv, RecOK, P
      <3>4. CASE rec[r].i # 1
        <4>1. rec'[r] = [pc |-> "rollback", rows |-> rec[r].rows,
                         tx |-> rec[r].tx, i |-> rec[r].i - 1]
          BY <2>2, <2>5, <3>4 DEF RecoverNext, RecoverAt, IInv, TypeOK
        <4> QED BY <1>2, <1>3, <2>1, <2>3, <3>2, <3>4, <4>1 DEF IInv, RecOK, P
      <3> QED BY <3>3, <3>4
    <2> QED BY <2>4, <2>5
  <1> QED BY <1>1, <1>4, <1>5, <1>6, <1>7 DEF IInv

\* RecoverLog: the branches are what the final row will say.
LEMMA RecoverLogStep ==
  ASSUME NEW r \in Recoverers, IInv, RecoverLog(r)
  PROVE  IInv'
  <1> USE NAssumption, BoundsAssumption
  <1>1. TypeOK'
    <2>1. PICK ok \in BOOLEAN :
            IF rec[r].pc = "log_committed"
            THEN SetLog(rec[r].tx, "committed", "commit", ok)
            ELSE SetLog(rec[r].tx, "rolled_back", "rollback", ok)
      BY DEF RecoverLog
    <2>2. rec[r].tx \in Tx
      BY DEF IInv, RecoverLog, RecOK
    <2>3. log' \in [Tx -> Rows] /\ faults' \in 0..MaxFaults
      BY <2>1, <2>2, SetLogTyped DEF IInv, Statuses, Decisions
    <2>4. rec' \in [Recoverers -> [pc : RecPcs, rows : SUBSET RecRows,
                                   tx : Tx \cup {"none"}, i : 0..N]]
      BY RecoverAtTyped DEF IInv, RecoverLog, RecoverFail, RecPcs
    <2> QED BY <2>3, <2>4 DEF IInv, TypeOK, RecoverLog
  <1>2. phase = "recovering" /\ phase' = phase /\ task' = task
    BY DEF IInv, RecoverLog, Answer, SetLog, RecoverFail, RecoverAt, RecOK
  <1>3. /\ \A u \in Tx, p \in P :
             /\ branch[u][p] = "committed" => branch'[u][p] = "committed"
             /\ branch[u][p] # "prepared" => branch'[u][p] # "prepared"
             /\ branch[u][p] = "none" => branch'[u][p] = "none"
        /\ \A u \in Tx :
             /\ log[u].status \in CommitSide => log'[u].status \in CommitSide
             /\ log[u].status \in UndoSide => log'[u].status \in UndoSide
             /\ log[u].status \in {"none", "committed", "rolled_back"}
                  => log'[u].status = log[u].status
    <2>1. PICK ok \in BOOLEAN :
            IF rec[r].pc = "log_committed"
            THEN SetLog(rec[r].tx, "committed", "commit", ok)
            ELSE SetLog(rec[r].tx, "rolled_back", "rollback", ok)
      BY DEF RecoverLog
    <2>2. /\ rec[r].tx \in Tx
          /\ log[rec[r].tx].status \in
               IF rec[r].pc = "log_committed" THEN CommitSide ELSE UndoSide
      BY DEF IInv, RecoverLog, RecOK
    <2>3. /\ \A u \in Tx : u # rec[r].tx => log'[u] = log[u]
          /\ \/ log'[rec[r].tx].status =
                  IF rec[r].pc = "log_committed" THEN "committed" ELSE "rolled_back"
             \/ log'[rec[r].tx] = log[rec[r].tx]
      BY <2>1, <2>2, SetLogTyped DEF IInv, Statuses, Decisions
    <2>4. branch' = branch
      BY DEF RecoverLog
    <2> QED BY <2>2, <2>3, <2>4 DEF CommitSide, UndoSide
  <1>4. \A u \in Tx : LogOK(u)'
    <2>1. PICK ok \in BOOLEAN :
            IF rec[r].pc = "log_committed"
            THEN SetLog(rec[r].tx, "committed", "commit", ok)
            ELSE SetLog(rec[r].tx, "rolled_back", "rollback", ok)
      BY DEF RecoverLog
    <2>2. /\ rec[r].tx \in Tx /\ branch' = branch
          /\ rec[r].pc = "log_committed" =>
               \A p \in P : branch[rec[r].tx][p] = "committed"
          /\ rec[r].pc # "log_committed" =>
               /\ \A p \in P : branch[rec[r].tx][p] # "prepared"
               /\ log[rec[r].tx].status \in UndoSide
      BY DEF IInv, RecoverLog, RecOK
    <2>3. /\ \A u \in Tx : u # rec[r].tx => log'[u] = log[u]
          /\ \/ log'[rec[r].tx].status =
                  IF rec[r].pc = "log_committed" THEN "committed" ELSE "rolled_back"
             \/ log'[rec[r].tx] = log[rec[r].tx]
      BY <2>1, <2>2, SetLogTyped DEF IInv, Statuses, Decisions
    <2> QED BY <2>2, <2>3 DEF IInv, LogOK, CommitSide, UndoSide
  <1>5. \A u \in Tx : TaskOK(u)'
    BY <1>2, <1>3, TaskAtRest
  <1>6. ASSUME NEW s \in Recoverers, s # r
        PROVE  RecOK(s)'
    <2>1. rec'[s] = rec[s]
      BY <1>6 DEF IInv, RecoverLog, Answer, SetLog, RecoverFail, RecoverAt, TypeOK
    <2> QED BY <1>2, <1>3, <2>1, RecFrame
  <1>7. RecOK(r)'
    <2>1. rec'[r] = [pc |-> "loop", rows |-> rec[r].rows, tx |-> "none", i |-> 0]
      BY DEF RecoverLog, RecoverFail, RecoverAt, IInv, TypeOK
    <2>2. \A row \in rec[r].rows : row.tx \in Tx
      BY DEF IInv, TypeOK, RecRows
    <2> QED BY <1>2, <1>3, <2>1, <2>2 DEF IInv, RecOK
  <1> QED BY <1>1, <1>4, <1>5, <1>6, <1>7 DEF IInv

\* RecoverEnd: nothing but the position changes.
LEMMA RecoverEndStep ==
  ASSUME NEW r \in Recoverers, IInv, RecoverEnd(r)
  PROVE  IInv'
  <1> USE NAssumption, BoundsAssumption
  <1>1. TypeOK'
    BY DEF IInv, RecoverEnd, RecoverAt, RecOK, TypeOK, Rows, Statuses, Decisions, Branches, Pins, Tasks, Pcs, Running, Ops, RecPcs, RecRows, Recoverable, P
  <1>2. phase = "recovering" /\ phase' = phase /\ task' = task
    BY DEF IInv, RecoverEnd, RecoverAt, RecOK
  <1>3. /\ \A u \in Tx, p \in P :
             /\ branch[u][p] = "committed" => branch'[u][p] = "committed"
             /\ branch[u][p] # "prepared" => branch'[u][p] # "prepared"
             /\ branch[u][p] = "none" => branch'[u][p] = "none"
        /\ \A u \in Tx :
             /\ log[u].status \in CommitSide => log'[u].status \in CommitSide
             /\ log[u].status \in UndoSide => log'[u].status \in UndoSide
             /\ log[u].status \in {"none", "committed", "rolled_back"}
                  => log'[u].status = log[u].status
    BY DEF IInv, RecoverEnd, RecoverAt, RecOK, CommitSide, UndoSide, TypeOK, Rows, Statuses, Decisions, Branches, Pins, Tasks, Pcs, Running, Ops, RecPcs, RecRows, Recoverable, P
  <1>4. \A u \in Tx : LogOK(u)'
    BY DEF IInv, RecoverEnd, RecoverAt, RecOK, LogOK, CommitSide, UndoSide, TypeOK, Rows, Statuses, Decisions, Branches, Pins, Tasks, Pcs, Running, Ops, RecPcs, RecRows, Recoverable, P
  <1>5. \A u \in Tx : TaskOK(u)'
    BY <1>2, <1>3, TaskAtRest
  <1>6. ASSUME NEW s \in Recoverers, s # r
        PROVE  RecOK(s)'
    <2>1. rec'[s] = rec[s]
      BY <1>6 DEF IInv, RecoverEnd, RecoverAt, TypeOK
    <2> QED BY <1>2, <1>3, <2>1, RecFrame
  <1>7. RecOK(r)'
    BY DEF IInv, RecoverEnd, RecoverAt, RecOK, LogOK, CommitSide, UndoSide, TypeOK, Rows, Statuses, Decisions, Branches, Pins, Tasks, Pcs, Running, Ops, RecPcs, RecRows, Recoverable, P
  <1> QED BY <1>1, <1>4, <1>5, <1>6, <1>7 DEF IInv

-----------------------------------------------------------------------------
(* Callers, process and databases.                                         *)

\* Finish: the caller only chooses between commit and rollback.
LEMMA FinishStep ==
  ASSUME NEW t \in Tx, NEW op \in {"commit", "rollback"}, IInv, Finish(t, op)
  PROVE  IInv'
  <1> USE NAssumption, BoundsAssumption
  <1>1. TypeOK'
    BY DEF IInv, Finish, TypeOK, Tasks, Pcs, Running, Ops
  <1>2. \A r \in Recoverers : RecOK(r)'
    <2>1. phase = "serving" /\ phase' = phase /\ rec' = rec
      BY DEF Finish
    <2> QED BY <2>1, RecAtRest
  <1>3. ASSUME NEW u \in Tx, u # t
        PROVE  LogOK(u)' /\ TaskOK(u)'
    <2>1. /\ phase' = phase /\ log'[u] = log[u]
          /\ branch'[u] = branch[u] /\ task'[u] = task[u]
      BY <1>3 DEF IInv, Finish, TypeOK
    <2> QED BY <2>1, TaskFrame
  <1>4. LogOK(t)'
    BY DEF IInv, Finish, LogOK, CommitSide
  <1>5. TaskOK(t)'
    BY DEF IInv, Finish, TaskOK, TypeOK, Running
  <1> QED BY <1>1, <1>2, <1>3, <1>4, <1>5 DEF IInv

\* Restart: nothing runs in a process that is down.
LEMMA RestartStep ==
  ASSUME IInv, Restart
  PROVE  IInv'
  <1>1. TypeOK' /\ \A t \in Tx : LogOK(t)'
    BY DEF IInv, Restart, TypeOK, LogOK, CommitSide
  <1>2. \A t \in Tx : TaskOK(t)'
    BY DEF IInv, Restart, TypeOK, TaskOK, Running
  <1>3. \A r \in Recoverers : RecOK(r)'
    BY DEF IInv, Restart, TypeOK, RecOK
  <1> QED BY <1>1, <1>2, <1>3 DEF IInv

\* Serve: no recovery is at work any more.
LEMMA ServeStep ==
  ASSUME IInv, Serve
  PROVE  IInv'
  <1>1. TypeOK' /\ \A t \in Tx : LogOK(t)'
    BY DEF IInv, Serve, TypeOK, LogOK, CommitSide
  <1>2. \A t \in Tx : TaskOK(t)'
    BY DEF IInv, Serve, TypeOK, TaskOK, Running
  <1>3. \A r \in Recoverers : RecOK(r)'
    BY DEF IInv, Serve, TypeOK, RecOK
  <1> QED BY <1>1, <1>2, <1>3 DEF IInv

\* Crash: rows and branches are all that survives.
LEMMA CrashStep ==
  ASSUME IInv, Crash
  PROVE  IInv'
  <1> USE NAssumption, BoundsAssumption
  <1>1. \A t \in Tx : LogOK(t)'
    BY DEF IInv, Crash, LogOK, CommitSide
  <1>2. \A t \in Tx :
          /\ task'[t].pc \in {"idle", "ok", "err", "lost"}
          /\ task'[t].pc \in {"idle", "ok"} => task'[t] = task[t]
    BY DEF IInv, Crash, TypeOK, Tasks, Pcs
  <1>3. TypeOK'
    <2>1. task' \in [Tx -> Tasks]
      BY DEF IInv, Crash, TypeOK, Tasks, Pcs, Running
    <2>2. pin' \in [Tx -> [P -> Pins]]
      BY DEF Crash, Pins
    <2>3. rec' \in [Recoverers -> [pc : RecPcs, rows : SUBSET RecRows,
                                   tx : Tx \cup {"none"}, i : 0..N]]
      BY DEF Crash, RecPcs
    <2>4. phase' = "down" /\ crashes' \in 0..MaxCrashes
      BY DEF IInv, Crash, TypeOK
    <2> QED BY <2>1, <2>2, <2>3, <2>4 DEF IInv, Crash, TypeOK
  <1>4. \A t \in Tx : TaskOK(t)'
    BY <1>2 DEF IInv, Crash, TaskOK, Running
  <1>5. \A r \in Recoverers : RecOK(r)'
    BY DEF Crash, RecOK
  <1> QED BY <1>1, <1>3, <1>4, <1>5 DEF IInv

\* DbRollback: the branch was active, which no claim of the invariant needs.
LEMMA DbRollbackStep ==
  ASSUME NEW t \in Tx, NEW p \in P, IInv, DbRollback(t, p)
  PROVE  IInv'
  <1> USE BoundsAssumption
  <1>1. TypeOK'
    BY DEF IInv, DbRollback, TypeOK, Answer, Branches
  <1>2. \A u \in Tx, q \in P :
          branch'[u][q] = branch[u][q]
            \/ (branch[u][q] = "active" /\ branch'[u][q] = "rolledback")
    BY DEF IInv, DbRollback, TypeOK
  <1>3. phase' = phase /\ log' = log /\ task' = task /\ rec' = rec
    BY DEF DbRollback
  <1>4. \A u \in Tx : LogOK(u)'
    BY <1>2, <1>3 DEF IInv, LogOK, CommitSide
  <1>5. \A u \in Tx : TaskOK(u)'
    BY <1>2, <1>3 DEF IInv, TaskOK
  <1>6. \A r \in Recoverers : RecOK(r)'
    BY <1>2, <1>3, RecFrame
  <1> QED BY <1>1, <1>4, <1>5, <1>6 DEF IInv

-----------------------------------------------------------------------------
(* The invariant and what follows from it.                                 *)

\* The initial state satisfies the invariant.
LEMMA InitIInv == Init => IInv
  <1> SUFFICES ASSUME Init PROVE IInv
    OBVIOUS
  <1> USE NAssumption, BoundsAssumption
  <1>1. TypeOK
    BY DEF Init, TypeOK, Rows, Statuses, Decisions, Branches, Pins, Tasks, Pcs,
           Ops, RecPcs
  <1>2. \A t \in Tx : LogOK(t) /\ TaskOK(t)
    BY DEF Init, LogOK, TaskOK, CommitSide, Running
  <1>3. \A r \in Recoverers : RecOK(r)
    BY DEF Init, RecOK
  <1> QED BY <1>1, <1>2, <1>3 DEF IInv

\* Every step of the coordinator, of a recovery, of the process and of a
\* database preserves the invariant.
LEMMA StepIInv == IInv /\ [Next]_vars => IInv'
  <1> SUFFICES ASSUME IInv, [Next]_vars PROVE IInv'
    OBVIOUS
  <1>1. ASSUME NEW t \in Tx, TaskStep(t) \/ Cancel(t) PROVE IInv'
    BY <1>1, BeginLogStep, BeginStartStep, FinishStep, CheckStatusStep,
       CommitEndStep, CommitPrepareStep, CommitLogPreparedStep,
       CommitLogCommittingStep, CommitBranchStep, CommitLogCommittedStep,
       UndoLogRollingStep, UndoBranchStep, UndoLogRolledBackStep, CancelStep
       DEF TaskStep
  <1>2. ASSUME NEW r \in Recoverers, RecoverStep(r) PROVE IInv'
    BY <1>2, RecoverScanStep, RecoverRowStep, RecoverCommitStep,
       RecoverRollbackStep, RecoverLogStep, RecoverEndStep DEF RecoverStep
  <1>3. CASE UNCHANGED vars
    <2>1. TypeOK' /\ \A t \in Tx : LogOK(t)'
      BY <1>3 DEF vars, IInv, TypeOK, LogOK
    <2>2. \A t \in Tx : TaskOK(t)'
      BY <1>3 DEF vars, IInv, TaskOK
    <2>3. \A r \in Recoverers : RecOK(r)'
      BY <1>3 DEF vars, IInv, RecOK
    <2> QED BY <2>1, <2>2, <2>3 DEF IInv
  <1> QED BY <1>1, <1>2, <1>3, RestartStep, ServeStep, CrashStep, DbRollbackStep
          DEF Next

\* IInv is an invariant of the coordinator with its recovery.
THEOREM Invariance == Spec => []IInv
  BY InitIInv, StepIInv, PTL DEF Spec

\* Type correctness of the coordinator, its log, its branches and recovery.
THEOREM TypeCorrect == Spec => []TypeOK
  <1>1. IInv => TypeOK
    BY DEF IInv
  <1> QED BY <1>1, Invariance, PTL

\* No transaction ever has one branch committed and another rolled back,
\* for any number of participants, recoveries, failures and crashes: a
\* branch commits only on the commit side of its row, where no branch can
\* be rolled back.
THEOREM AtomicityHolds == Spec => []Atomicity
  <1>1. IInv => Atomicity
    BY DEF IInv, LogOK, Atomicity, TypeOK, Rows, Statuses, CommitSide
  <1> QED BY <1>1, Invariance, PTL

\* A final row of distributed_tx is true of every branch.
THEOREM FinalLogHolds == Spec => []FinalLogIsTrue
  <1>1. IInv => FinalLogIsTrue
    BY DEF IInv, LogOK, FinalLogIsTrue, CommitSide
  <1> QED BY <1>1, Invariance, PTL

\* commit() = Ok and rollback() = Ok tell the caller the truth.
THEOREM CallerIsToldHolds == Spec => []CallerIsTold
  <1>1. IInv => CallerIsTold
    BY DEF IInv, LogOK, TaskOK, CallerIsTold, CommitSide
  <1> QED BY <1>1, Invariance, PTL

\* The decision recorded in a row is never reversed, by the coordinator or
\* by a recovery that read the row earlier.
THEOREM DecisionStableHolds == Spec => DecisionStable
  <1> DEFINE Kept(t) ==
        /\ log[t].status \in CommitSide   => log'[t].status \in CommitSide
        /\ log[t].status \in RollbackSide => log'[t].status \in RollbackSide
  <1>1. ASSUME IInv, [Next]_vars
        PROVE  \A t \in Tx : Kept(t)
    <2>1. ASSUME NEW u \in Tx, NEW st \in Statuses, NEW dec \in Decisions,
                 NEW ok \in BOOLEAN, SetLog(u, st, dec, ok),
                 log[u].status \in CommitSide   => st \in CommitSide,
                 log[u].status \in RollbackSide => st \in RollbackSide
          PROVE  \A t \in Tx : Kept(t)
      BY <1>1, <2>1, SetLogTyped DEF IInv
    <2>2. ASSUME NEW t \in Tx, TaskStep(t) \/ Cancel(t)
          PROVE  \A u \in Tx : Kept(u)
      <3>1. CASE log' = log
        BY <3>1
      <3>2. CASE BeginLog(t) \/ CommitLogPrepared(t)
        <4>1. log[t].status \in {"none", "started"}
          BY <1>1, <3>2 DEF IInv, TaskOK, BeginLog, CommitLogPrepared
        <4> QED BY <2>1, <3>2, <4>1 DEF BeginLog, CommitLogPrepared, Statuses,
                   Decisions, CommitSide, RollbackSide
      <3>3. CASE CommitLogCommitting(t) \/ CommitLogCommitted(t)
        <4>1. log[t].status \in {"prepared", "committing"}
          BY <1>1, <3>3 DEF IInv, TaskOK, CommitLogCommitting, CommitLogCommitted
        <4> QED BY <2>1, <3>3, <4>1 DEF CommitLogCommitting, CommitLogCommitted,
                   Statuses, Decisions, CommitSide, RollbackSide
      <3>4. CASE UndoLogRolling(t) \/ UndoLogRolledBack(t)
        <4>1. log[t].status \in {"started", "rolling_back"}
          BY <1>1, <3>4 DEF IInv, TaskOK, UndoLogRolling, UndoLogRolledBack
        <4> QED BY <2>1, <3>4, <4>1 DEF UndoLogRolling, UndoLogRolledBack,
                   Statuses, Decisions, CommitSide, RollbackSide
      <3> QED BY <2>2, <3>1, <3>2, <3>3, <3>4
              DEF TaskStep, Cancel, Finish, BeginStart, CheckStatus, CommitEnd,
                  CommitPrepare, CommitBranch, UndoBranch
    <2>3. ASSUME NEW r \in Recoverers, RecoverStep(r)
          PROVE  \A u \in Tx : Kept(u)
      <3>1. CASE log' = log
        BY <3>1
      <3>2. CASE RecoverLog(r)
        <4>1. /\ rec[r].tx \in Tx
              /\ log[rec[r].tx].status \in
                   IF rec[r].pc = "log_committed" THEN CommitSide ELSE UndoSide
          BY <1>1, <3>2 DEF IInv, RecOK, RecoverLog
        <4> QED BY <2>1, <3>2, <4>1 DEF RecoverLog, Statuses, Decisions,
                   CommitSide, RollbackSide, UndoSide
      <3> QED BY <2>3, <3>1, <3>2
              DEF RecoverStep, RecoverScan, RecoverRow, RecoverCommit,
                  RecoverRollback, RecoverEnd
    <2>4. CASE UNCHANGED vars \/ Restart \/ Serve \/ Crash
               \/ \E t \in Tx, p \in P : DbRollback(t, p)
      BY <2>4 DEF vars, Restart, Serve, Crash, DbRollback
    <2> QED BY <1>1, <2>2, <2>3, <2>4 DEF Next
  <1> QED BY <1>1, Invariance, PTL DEF Spec, DecisionStable

-----------------------------------------------------------------------------
(* Refinement of AtomicCommit.                                             *)

Bar == [t \in Tx |-> [p \in P |-> RmState(branch[t][p])]]

\* A legal change of one branch is a step, or a stutter, of AtomicCommit.
LEMMA BranchMove ==
  ASSUME TypeOK, NEW t \in Tx, NEW p \in P, NEW c \in Branches,
         branch' = [branch EXCEPT ![t][p] = c],
         \/ RmState(c) = RmState(branch[t][p])
         \/ branch[t][p] = "active" /\ c = "prepared"
         \/ /\ branch[t][p] = "prepared" /\ c = "committed"
            /\ \A q \in P : branch[t][q] \in {"prepared", "committed"}
         \/ /\ branch[t][p] \in {"active", "prepared"} /\ c = "rolledback"
            /\ \A q \in P : branch[t][q] # "committed"
  PROVE  Abs!Next \/ Bar' = Bar
  <1>1. Bar' = [Bar EXCEPT ![t][p] = RmState(c)]
    BY DEF Bar, TypeOK
  <1>2. CASE RmState(c) = RmState(branch[t][p])
    BY <1>2 DEF Bar, TypeOK
  <1>3. CASE branch[t][p] = "active" /\ c = "prepared"
    BY <1>1, <1>3 DEF Abs!Next, Abs!Prepare, Bar, RmState
  <1>4. CASE /\ branch[t][p] = "prepared" /\ c = "committed"
             /\ \A q \in P : branch[t][q] \in {"prepared", "committed"}
    BY <1>1, <1>4 DEF Abs!Next, Abs!Commit, Abs!CanCommit, Bar, RmState
  <1>5. CASE /\ branch[t][p] \in {"active", "prepared"} /\ c = "rolledback"
             /\ \A q \in P : branch[t][q] # "committed"
    BY <1>1, <1>5 DEF Abs!Next, Abs!Abort, Abs!CanAbort, Bar, RmState, TypeOK, Branches
  <1> QED BY <1>2, <1>3, <1>4, <1>5

\* Every step of TwoPhase is a step or a stutter of AtomicCommit.
LEMMA StepSimulates ==
  ASSUME IInv, [Next]_vars
  PROVE  Abs!Next \/ Bar' = Bar
  <1> USE DEF RmState
  <1>1. CASE branch' = branch
    BY <1>1 DEF Bar
  <1>2. ASSUME NEW t \in Tx, BeginStart(t) PROVE Abs!Next \/ Bar' = Bar
    <2>1. task[t].i \in P /\ branch[t][task[t].i] = "none"
      BY <1>2 DEF IInv, TaskOK, BeginStart, P
    <2>2. PICK c \in Branches, ok \in BOOLEAN :
            /\ XaStart(branch[t][task[t].i], c, ok)
            /\ branch' = [branch EXCEPT ![t][task[t].i] = c]
      BY <1>2 DEF BeginStart
    <2>3. \/ c = branch[t][task[t].i]
          \/ RmState(c) = RmState(branch[t][task[t].i])
      BY <2>1, <2>2 DEF XaStart, Effect
    <2> QED BY <2>1, <2>2, <2>3, BranchMove DEF IInv
  <1>3. ASSUME NEW t \in Tx, CommitPrepare(t) PROVE Abs!Next \/ Bar' = Bar
    <2>1. task[t].i \in P /\ \A q \in P : branch[t][q] # "committed"
      BY <1>3 DEF IInv, TaskOK, LogOK, CommitSide, CommitPrepare
    <2>2. PICK c \in Branches, ok \in BOOLEAN :
            /\ XaPrepare(branch[t][task[t].i], c, ok)
            /\ branch' = [branch EXCEPT ![t][task[t].i] = c]
      BY <1>3 DEF CommitPrepare
    <2>3. \/ c = branch[t][task[t].i]
          \/ branch[t][task[t].i] = "active" /\ c = "prepared"
          \/ branch[t][task[t].i] \in {"active", "prepared"} /\ c = "rolledback"
      BY <2>1, <2>2 DEF XaPrepare, Effect
    <2> QED BY <2>1, <2>2, <2>3, BranchMove DEF IInv
  <1>4. ASSUME NEW t \in Tx, CommitBranch(t) PROVE Abs!Next \/ Bar' = Bar
    <2>1. task[t].i \in P /\ \A q \in P : branch[t][q] \in {"prepared", "committed"}
      BY <1>4 DEF IInv, TaskOK, LogOK, CommitBranch
    <2>2. PICK c \in Branches, ok \in BOOLEAN :
            /\ XaCommit(branch[t][task[t].i], c, ok)
            /\ branch' = [branch EXCEPT ![t][task[t].i] = c]
      BY <1>4 DEF CommitBranch
    <2>3. \/ c = branch[t][task[t].i]
          \/ branch[t][task[t].i] = "prepared" /\ c = "committed"
      BY <2>1, <2>2 DEF XaCommit, Effect
    <2> QED BY <2>1, <2>2, <2>3, BranchMove DEF IInv
  <1>5. ASSUME NEW t \in Tx, UndoBranch(t) PROVE Abs!Next \/ Bar' = Bar
    <2>1. task[t].i \in P /\ \A q \in P : branch[t][q] # "committed"
      BY <1>5 DEF IInv, TaskOK, LogOK, CommitSide, UndoBranch
    <2>2. PICK c \in Branches, ok \in BOOLEAN :
            /\ XaRollback(branch[t][task[t].i], c, ok, pin[t][task[t].i])
            /\ branch' = [branch EXCEPT ![t][task[t].i] = c]
      BY <1>5 DEF UndoBranch
    <2>3. \/ c = branch[t][task[t].i]
          \/ branch[t][task[t].i] \in {"active", "prepared"} /\ c = "rolledback"
      BY <2>1, <2>2 DEF XaRollback, Effect
    <2> QED BY <2>1, <2>2, <2>3, BranchMove DEF IInv
  <1>6. ASSUME NEW r \in Recoverers, RecoverCommit(r) PROVE Abs!Next \/ Bar' = Bar
    <2>1. /\ rec[r].tx \in Tx /\ rec[r].i \in P
          /\ \A q \in P : branch[rec[r].tx][q] \in {"prepared", "committed"}
      BY <1>6 DEF IInv, RecOK, LogOK, CommitSide, RecoverCommit
    <2>2. PICK c \in Branches, ok \in BOOLEAN :
            /\ XaCommit(branch[rec[r].tx][rec[r].i], c, ok)
            /\ branch' = [branch EXCEPT ![rec[r].tx][rec[r].i] = c]
      BY <1>6 DEF RecoverCommit
    <2>3. \/ c = branch[rec[r].tx][rec[r].i]
          \/ branch[rec[r].tx][rec[r].i] = "prepared" /\ c = "committed"
      BY <2>1, <2>2 DEF XaCommit, Effect
    <2> QED BY <2>1, <2>2, <2>3, BranchMove DEF IInv
  <1>7. ASSUME NEW r \in Recoverers, RecoverRollback(r) PROVE Abs!Next \/ Bar' = Bar
    <2>1. /\ rec[r].tx \in Tx /\ rec[r].i \in P
          /\ \A q \in P : branch[rec[r].tx][q] # "committed"
      BY <1>7 DEF IInv, RecOK, LogOK, CommitSide, UndoSide, RecoverRollback
    <2>2. PICK c \in Branches, ok \in BOOLEAN :
            /\ XaRollback(branch[rec[r].tx][rec[r].i], c, ok, pin[rec[r].tx][rec[r].i])
            /\ branch' = [branch EXCEPT ![rec[r].tx][rec[r].i] = c]
      BY <1>7 DEF RecoverRollback
    <2>3. \/ c = branch[rec[r].tx][rec[r].i]
          \/ branch[rec[r].tx][rec[r].i] \in {"active", "prepared"} /\ c = "rolledback"
      BY <2>1, <2>2 DEF XaRollback, Effect
    <2> QED BY <2>1, <2>2, <2>3, BranchMove DEF IInv
  <1>8. ASSUME NEW t \in Tx, NEW p \in P, DbRollback(t, p)
        PROVE  Abs!Next \/ Bar' = Bar
    <2>1. \A q \in P : branch[t][q] # "committed"
      <3>1. log[t].status \notin {"prepared", "committing", "committed"}
        BY <1>8 DEF IInv, LogOK, DbRollback
      <3> QED BY <3>1 DEF IInv, LogOK, CommitSide
    <2> QED BY <1>8, <2>1, BranchMove DEF IInv, DbRollback, Branches
  <1> QED BY <1>1, <1>2, <1>3, <1>4, <1>5, <1>6, <1>7, <1>8
          DEF Next, vars, TaskStep, Cancel, BeginLog, Finish, CheckStatus, CommitEnd,
              CommitLogPrepared, CommitLogCommitting, CommitLogCommitted,
              UndoLogRolling, UndoLogRolledBack, RecoverStep, RecoverScan,
              RecoverRow, RecoverLog, RecoverEnd, Restart, Serve, Crash

\* The coordinator with its recovery implements atomic commitment.
THEOREM Implementation == Spec => ImplementsAtomicCommit
  <1>1. Init => Abs!Init
    BY DEF Init, Abs!Init, RmState
  <1>2. IInv /\ [Next]_vars => [Abs!Next]_Bar
    BY StepSimulates
  <1> QED BY <1>1, <1>2, Invariance, PTL DEF Spec, ImplementsAtomicCommit, Abs!Spec, Bar
=============================================================================
