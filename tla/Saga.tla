-------------------------------- MODULE Saga --------------------------------
(***************************************************************************)
(* The saga engine of ecat-saga: Saga::run, resume, forward and compensate *)
(* (saga.rs) over a SagaStateStore (state.rs) whose rows survive crashes.  *)
(*                                                                         *)
(* Each await is a step of its own: a read or write of the store, an       *)
(* execute or a compensate.  A runner may stop between any two of them: a  *)
(* crash, a dropped future, or a store error returned with `?` (a write    *)
(* that failed was either applied or not: the runner stops after or before *)
(* it).  The step at 0-based index k of the code is k + 1 here, so that    *)
(* current_step is the number of steps left behind.                        *)
(***************************************************************************)
EXTENDS Integers

CONSTANTS N,        \* number of steps of the saga
          Runners,  \* processes that may run or resume it
          MaxStops  \* bound: crashes, cancellations and store errors

ASSUME NAssumption == N \in Nat \ {0}
ASSUME StopsAssumption == MaxStops \in Nat

\* The store takes no lock and compares no version (state.rs): the engine
\* relies on its caller to run an instance in one process at a time.
OneRunner == \A r, q \in Runners : r = q

VARIABLES
  inst,    \* the row of saga_instances: status, current_step, context
  step,    \* the rows of saga_steps
  effect,  \* what the services called by the steps really did
  runner,  \* the futures: position, loaded state, loop index
  stops

vars == <<inst, step, effect, runner, stops>>

Steps == 1..N

SagaStatuses == {"absent", "running", "compensating", "completed",
                 "compensated", "failed"}
Terminal     == {"completed", "compensated", "failed"}
StepStatuses == {"pending", "done", "compensated", "failed"}

\* context: the steps whose results it carries.
Instances == [status : SagaStatuses, current : 0..N, context : SUBSET Steps]

Pcs == {"off", "insert", "forward", "execute", "mark_done", "save_done",
        "mark_failed", "save_compensating", "save_completed",
        "undo", "compensate", "mark_undo_failed", "save_failed",
        "mark_undone", "save_undone", "save_compensated"}

Idle == [pc |-> "off", state |-> [status |-> "absent", current |-> 0, context |-> {}],
         i |-> 0]

Init ==
  /\ inst   = [status |-> "absent", current |-> 0, context |-> {}]
  /\ step   = [i \in Steps |-> "pending"]
  /\ effect = [i \in Steps |-> "none"]
  /\ runner = [r \in Runners |-> Idle]
  /\ stops  = 0

Goto(r, pc, st, i) == runner' = [runner EXCEPT ![r] = [pc |-> pc, state |-> st, i |-> i]]

\* save: the row becomes the runner's state.
Save(st) == inst' = st

\* set_step: the row of step i, whatever it said before.
SetStep(i, s) == step' = [step EXCEPT ![i] = s]

WithStatus(st, s) == [status |-> s, current |-> st.current, context |-> st.context]

-----------------------------------------------------------------------------
(* run and resume: load, then continue_state.                              *)

\* A fresh saga: run() found no row.
RunFresh(r) ==
  /\ runner[r].pc = "off" /\ inst.status = "absent"
  /\ Goto(r, "insert", [status |-> "running", current |-> 0, context |-> {}], 0)
  /\ UNCHANGED <<inst, step, effect, stops>>

RunInsert(r) ==
  /\ runner[r].pc = "insert"
  /\ Save(runner[r].state)
  /\ Goto(r, "forward", runner[r].state, 1)
  /\ UNCHANGED <<step, effect, stops>>

\* Mutant: `compensating` is not taken up again.
ResumableForward == {"running"}
Resumable        == {"running", "compensating"}

\* Where a resumed compensation starts.
\* Mutant: one step too low.
UndoFromOffByOne(st) == IF st.current = 0 THEN 0 ELSE st.current - 1
UndoFrom(st) == st.current

\* continue_state: `completed` and `compensated` return Ok, `failed` returns
\* InvalidState, with nothing left to do.
Continue(r) ==
  /\ runner[r].pc = "off" /\ inst.status \in Resumable
  /\ IF inst.status = "running"
     THEN Goto(r, "forward", inst, inst.current + 1)
     ELSE Goto(r, "undo", inst, UndoFrom(inst))
  /\ UNCHANGED <<inst, step, effect, stops>>

-----------------------------------------------------------------------------
(* forward                                                                 *)

\* Mutant: any step that was tried before is skipped.
SkipsTried(i) == step[i] # "pending"
Skips(i) == step[i] = "done"

\* The step that forward turns to next; a step already Done is skipped and
\* the runner's current_step stays behind.
ForwardCheck(r) ==
  LET i  == runner[r].i
      st == runner[r].state IN
  /\ runner[r].pc = "forward"
  /\ Goto(r, IF i > N THEN "save_completed"
             ELSE IF Skips(i) THEN "forward" ELSE "execute",
          st, IF i <= N /\ Skips(i) THEN i + 1 ELSE i)
  /\ UNCHANGED <<inst, step, effect, stops>>

\* execute: the service applies the step and its result is in the context,
\* or it reports an error and applies nothing.
Execute(r) ==
  LET i  == runner[r].i
      st == runner[r].state IN
  /\ runner[r].pc = "execute"
  /\ \/ /\ effect' = [effect EXCEPT ![i] = "applied"]
        /\ Goto(r, "mark_done", [status |-> st.status, current |-> st.current,
                              context |-> st.context \cup {i}], i)
     \/ /\ effect' = effect
        /\ Goto(r, "mark_failed", st, i)
  /\ UNCHANGED <<inst, step, stops>>

Advance(st, i) == [status |-> st.status, current |-> i, context |-> st.context]

MarkDone(r) ==
  LET i == runner[r].i IN
  /\ runner[r].pc = "mark_done"
  /\ SetStep(i, "done")
  /\ Goto(r, "save_done", Advance(runner[r].state, i), i)
  /\ UNCHANGED <<inst, effect, stops>>

SaveDone(r) ==
  /\ runner[r].pc = "save_done"
  /\ Save(runner[r].state)
  /\ Goto(r, "forward", runner[r].state, runner[r].i + 1)
  /\ UNCHANGED <<step, effect, stops>>

MarkFailed(r) ==
  LET i == runner[r].i IN
  /\ runner[r].pc = "mark_failed"
  /\ SetStep(i, "failed")
  /\ Goto(r, "save_compensating", WithStatus(runner[r].state, "compensating"), i)
  /\ UNCHANGED <<inst, effect, stops>>

\* The row says `compensating` before the first step is undone.
CompensatingRow(st) == Save(st)

\* Compensation starts below the failed step, whatever current_step says.
SaveCompensating(r) ==
  /\ runner[r].pc = "save_compensating"
  /\ CompensatingRow(runner[r].state)
  /\ Goto(r, "undo", runner[r].state, runner[r].i - 1)
  /\ UNCHANGED <<step, effect, stops>>

SaveCompleted(r) ==
  /\ runner[r].pc = "save_completed"
  /\ Save(WithStatus(runner[r].state, "completed"))
  /\ runner' = [runner EXCEPT ![r] = Idle]
  /\ UNCHANGED <<step, effect, stops>>

-----------------------------------------------------------------------------
(* compensate                                                              *)

\* Only Done steps are compensated, from the last one down.
\* Mutant: the loop stops before the first step.
UndoPositionOffByOne(i) == IF i <= 1 THEN "save_compensated"
                           ELSE IF step[i] = "done" THEN "compensate" ELSE "undo"
UndoPosition(i) == IF i = 0 THEN "save_compensated"
                   ELSE IF step[i] = "done" THEN "compensate" ELSE "undo"

UndoCheck(r) ==
  LET i == runner[r].i IN
  /\ runner[r].pc = "undo"
  /\ Goto(r, UndoPosition(i), runner[r].state,
          IF UndoPosition(i) = "undo" THEN i - 1 ELSE i)
  /\ UNCHANGED <<inst, step, effect, stops>>

Compensate(r) ==
  LET i == runner[r].i IN
  /\ runner[r].pc = "compensate"
  /\ \/ /\ effect' = [effect EXCEPT ![i] = "undone"]
        /\ Goto(r, "mark_undone", runner[r].state, i)
     \/ /\ effect' = effect
        /\ Goto(r, "mark_undo_failed", WithStatus(runner[r].state, "failed"), i)
  /\ UNCHANGED <<inst, step, stops>>

MarkUndoFailed(r) ==
  /\ runner[r].pc = "mark_undo_failed"
  /\ SetStep(runner[r].i, "failed")
  /\ Goto(r, "save_failed", runner[r].state, runner[r].i)
  /\ UNCHANGED <<inst, effect, stops>>

SaveFailed(r) ==
  /\ runner[r].pc = "save_failed"
  /\ Save(runner[r].state)
  /\ runner' = [runner EXCEPT ![r] = Idle]
  /\ UNCHANGED <<step, effect, stops>>

MarkUndone(r) ==
  /\ runner[r].pc = "mark_undone"
  /\ SetStep(runner[r].i, "compensated")
  /\ Goto(r, "save_undone", runner[r].state, runner[r].i)
  /\ UNCHANGED <<inst, effect, stops>>

SaveUndone(r) ==
  /\ runner[r].pc = "save_undone"
  /\ Save(runner[r].state)
  /\ Goto(r, "undo", runner[r].state, runner[r].i - 1)
  /\ UNCHANGED <<step, effect, stops>>

SaveCompensated(r) ==
  /\ runner[r].pc = "save_compensated"
  /\ Save(WithStatus(runner[r].state, "compensated"))
  /\ runner' = [runner EXCEPT ![r] = Idle]
  /\ UNCHANGED <<step, effect, stops>>

-----------------------------------------------------------------------------

\* A crash, a dropped future, or a store error.
Stop(r) ==
  /\ runner[r].pc # "off" /\ stops < MaxStops
  /\ stops' = stops + 1
  /\ runner' = [runner EXCEPT ![r] = Idle]
  /\ UNCHANGED <<inst, step, effect>>

Work(r) ==
  \/ RunInsert(r) \/ ForwardCheck(r) \/ Execute(r)
  \/ MarkDone(r) \/ SaveDone(r) \/ MarkFailed(r) \/ SaveCompensating(r)
  \/ SaveCompleted(r) \/ UndoCheck(r) \/ Compensate(r) \/ MarkUndoFailed(r)
  \/ SaveFailed(r) \/ MarkUndone(r) \/ SaveUndone(r) \/ SaveCompensated(r)

Next == \E r \in Runners : RunFresh(r) \/ Continue(r) \/ Work(r) \/ Stop(r)

Spec == Init /\ [][Next]_vars

\* A stopped saga is resumed by its owner, and a running one goes on.
FairSpec == Spec /\ \A r \in Runners : WF_vars(Continue(r) \/ Work(r))

-----------------------------------------------------------------------------
(* Properties.                                                             *)

TypeOK ==
  /\ inst \in Instances
  /\ step \in [Steps -> StepStatuses]
  /\ effect \in [Steps -> {"none", "applied", "undone"}]
  /\ runner \in [Runners -> [pc : Pcs, state : Instances, i : 0..N+1]]
  /\ stops \in 0..MaxStops

\* A completed saga has every step in effect, however often it was stopped
\* and resumed on the way (forward skips Done steps, re-executes others).
CompletedIsApplied ==
  inst.status = "completed" => \A i \in Steps : effect[i] = "applied"

\* A compensated saga has undone every step up to the current_step of its
\* row, but for the ones whose own row says that compensation failed.
CompensatedOrFlagged ==
  inst.status = "compensated" =>
    \A i \in Steps : i <= inst.current => effect[i] = "undone" \/ step[i] = "failed"

\* Steps take effect in order, and are undone in reverse. A step is executed
\* only while the row says `running` and every step before it is Done: nothing
\* runs forward once compensation has begun, whatever was lost between set_step
\* and save. A step is undone only when every later one recorded in the row is,
\* or has failed to be (forward, compensate, continue_state).
EffectsInOrder ==
  [][\A i \in Steps :
       /\ effect[i] # "applied" /\ effect'[i] = "applied" =>
            /\ inst.status = "running"
            /\ \A j \in Steps : j < i => step[j] = "done"
       /\ effect[i] # "undone" /\ effect'[i] = "undone" =>
            \A j \in Steps : i < j /\ j <= inst.current =>
              effect[j] = "undone" \/ step[j] = "failed"]_vars

\* A saga that has a row ends in a terminal one, as long as it is resumed.
Terminates == inst.status # "absent" ~> inst.status \in Terminal

\* "逆序补偿 0..before 中状态为 Done 的步骤" (saga.rs:143): when the saga is
\* compensated no step is left Done.
CompensatedLeavesNoDone ==
  inst.status = "compensated" => \A i \in Steps : step[i] # "done"

\* "补偿失败即停，不重试" (saga.rs:143), "`Failed` 状态不自动重试，需要人工处理"
\* (docs/data-layer-scaleout.md:211): a saga that ends as compensated has
\* undone every step it had recorded; a failed compensation is not passed
\* over.
FailedUndoIsNotSkipped ==
  inst.status = "compensated" =>
    \A i \in Steps : i <= inst.current => effect[i] = "undone"
=============================================================================
