----------------------------- MODULE SagaProofs -----------------------------
(***************************************************************************)
(* Proofs about Saga: type correctness for any runners, and, when one      *)
(* process at a time runs the instance, what its terminal rows promise and *)
(* the order in which steps take effect and are undone.                    *)
(***************************************************************************)
EXTENDS Saga, TLAPS

-----------------------------------------------------------------------------
(* Type correctness.                                                       *)

(* The positions that work on the step of their loop index.                *)
AtStep == {"execute", "mark_done", "save_done", "mark_failed", "save_compensating",
           "compensate", "mark_undo_failed", "save_failed", "mark_undone", "save_undone"}

Futures == [pc : Pcs, state : Instances, i : 0..N+1]

InBounds(x) ==
  /\ x.pc \in AtStep => x.i \in Steps
  /\ x.pc = "forward" => x.i >= 1
  /\ x.pc = "undo" => x.i <= N

TypeInv ==
  /\ TypeOK
  /\ \A r \in Runners : InBounds(runner[r])

LEMMA FutureIs ==
  ASSUME NEW pc \in Pcs, NEW st \in Instances, NEW i \in 0..N+1,
         pc \in AtStep => i \in Steps, pc = "forward" => i >= 1, pc = "undo" => i <= N
  PROVE  /\ [pc |-> pc, state |-> st, i |-> i] \in Futures
         /\ InBounds([pc |-> pc, state |-> st, i |-> i])
BY DEF Futures, InBounds

LEMMA IdleIs == Idle \in Futures /\ InBounds(Idle) /\ Idle.pc = "off"
BY NAssumption DEF Idle, Futures, InBounds, Instances, Pcs, SagaStatuses, AtStep

(* A step that gives one runner a new future and the rows values of their  *)
(* types keeps the types.                                                  *)
LEMMA StepTypes ==
  ASSUME TypeInv, NEW r \in Runners, NEW x \in Futures, InBounds(x),
         runner' = [runner EXCEPT ![r] = x],
         inst' \in Instances, step' \in [Steps -> StepStatuses],
         effect' \in [Steps -> {"none", "applied", "undone"}], stops' \in 0..MaxStops
  PROVE  TypeInv'
BY DEF TypeInv, TypeOK, Futures

LEMMA StatesAre ==
  ASSUME NEW st \in Instances
  PROVE  /\ st.current \in 0..N /\ st.context \subseteq Steps /\ st.status \in SagaStatuses
         /\ \A s \in SagaStatuses : WithStatus(st, s) \in Instances
         /\ \A i \in 0..N : Advance(st, i) \in Instances
         /\ \A i \in Steps : [status |-> st.status, current |-> st.current,
                              context |-> st.context \cup {i}] \in Instances
BY DEF Instances, WithStatus, Advance

LEMMA InitTypes == Init => TypeInv
<1> SUFFICES ASSUME Init PROVE TypeInv OBVIOUS
<1>1. [status |-> "absent", current |-> 0, context |-> {}] \in Instances
  BY NAssumption DEF Instances, SagaStatuses
<1> QED BY <1>1, IdleIs, NAssumption, StopsAssumption
     DEF Init, TypeInv, TypeOK, Futures, StepStatuses

LEMMA NextTypes == TypeInv /\ [Next]_vars => TypeInv'
<1> SUFFICES ASSUME TypeInv, [Next]_vars PROVE TypeInv' OBVIOUS
<1>1. CASE UNCHANGED vars BY <1>1 DEF vars, TypeInv, TypeOK
<1>2. ASSUME NEW r \in Runners, RunFresh(r) \/ Continue(r) \/ Work(r) \/ Stop(r)
      PROVE  TypeInv'
  <2> DEFINE i  == runner[r].i
             st == runner[r].state
  <2>1. /\ i \in 0..N+1 /\ st \in Instances /\ runner[r].pc \in Pcs /\ InBounds(runner[r])
        /\ inst \in Instances /\ step \in [Steps -> StepStatuses]
        /\ effect \in [Steps -> {"none", "applied", "undone"}] /\ stops \in 0..MaxStops
    BY DEF TypeInv, TypeOK
  <2>2. N \in Nat /\ N >= 1 BY NAssumption
  <2>3. runner[r].pc \in AtStep => i \in Steps BY <2>1 DEF InBounds
  <2> HIDE DEF i, st
  <2>4. ASSUME NEW pc \in Pcs, NEW s \in Instances, NEW k \in 0..N+1,
               pc \in AtStep => k \in Steps, pc = "forward" => k >= 1, pc = "undo" => k <= N,
               Goto(r, pc, s, k),
               inst' \in Instances, step' \in [Steps -> StepStatuses],
               effect' \in [Steps -> {"none", "applied", "undone"}], stops' \in 0..MaxStops
        PROVE  TypeInv'
    BY <2>4, FutureIs, StepTypes, Zenon DEF Goto
  <2>5. ASSUME runner' = [runner EXCEPT ![r] = Idle],
               inst' \in Instances, UNCHANGED <<step, effect>>, stops' \in 0..MaxStops
        PROVE  TypeInv'
    BY <2>1, <2>5, IdleIs, StepTypes
  <2>6. CASE RunFresh(r)
    <3>1. [status |-> "running", current |-> 0, context |-> {}] \in Instances
      BY <2>2 DEF Instances, SagaStatuses
    <3> QED BY <2>1, <2>2, <2>4, <2>6, <3>1 DEF RunFresh, Pcs, AtStep
  <2>7. CASE RunInsert(r)
    BY <2>1, <2>2, <2>4, <2>7 DEF RunInsert, Save, Pcs, AtStep, st
  <2>8. CASE Continue(r)
    <3>1. inst.current \in 0..N BY <2>1, StatesAre
    <3>2. inst.current + 1 \in 0..N+1 /\ inst.current + 1 >= 1 BY <3>1, <2>2
    <3>3. CASE inst.status = "running"
      BY <2>1, <2>2, <2>4, <2>8, <3>2, <3>3 DEF Continue, Pcs, AtStep
    <3>4. CASE inst.status # "running"
      BY <2>1, <2>2, <2>4, <2>8, <3>1, <3>4 DEF Continue, UndoFrom, Pcs, AtStep
    <3> QED BY <3>3, <3>4
  <2>9. CASE ForwardCheck(r)
    <3>0. i >= 1 BY <2>1, <2>9 DEF ForwardCheck, InBounds, i
    <3>1. CASE i > N
      <4>1. Goto(r, "save_completed", st, i) BY <2>1, <2>2, <2>9, <3>1 DEF ForwardCheck, i, st
      <4> QED BY <2>1, <2>2, <2>4, <2>9, <4>1 DEF ForwardCheck, Pcs, AtStep
    <3>2. CASE i <= N /\ Skips(i)
      <4>1. Goto(r, "forward", st, i + 1) BY <2>1, <2>2, <2>9, <3>2 DEF ForwardCheck, i, st
      <4>2. i + 1 \in 0..N+1 /\ i + 1 >= 1 BY <2>1, <2>2, <3>2
      <4> QED BY <2>1, <2>4, <2>9, <4>1, <4>2 DEF ForwardCheck, Pcs, AtStep
    <3>3. CASE i <= N /\ ~Skips(i)
      <4>1. Goto(r, "execute", st, i) BY <2>1, <2>2, <2>9, <3>3 DEF ForwardCheck, i, st
      <4>2. i \in Steps BY <2>1, <2>2, <3>0, <3>3 DEF Steps
      <4> QED BY <2>1, <2>4, <2>9, <4>1, <4>2 DEF ForwardCheck, Pcs, AtStep
    <3> QED BY <2>1, <2>2, <3>1, <3>2, <3>3
  <2>10. CASE Execute(r)
    <3>1. i \in Steps BY <2>3, <2>10 DEF Execute, AtStep
    <3>2. UNCHANGED <<inst, step, stops>> BY <2>10 DEF Execute
    <3>3. CASE /\ effect' = [effect EXCEPT ![i] = "applied"]
               /\ Goto(r, "mark_done", [status |-> st.status, current |-> st.current,
                                        context |-> st.context \cup {i}], i)
      <4>1. [status |-> st.status, current |-> st.current, context |-> st.context \cup {i}]
              \in Instances
        BY <2>1, <3>1, StatesAre
      <4>2. effect' \in [Steps -> {"none", "applied", "undone"}] BY <2>1, <3>3
      <4>3. "mark_done" \in Pcs /\ "mark_done" # "forward" /\ "mark_done" # "undo" BY DEF Pcs
      <4> QED BY <2>1, <2>4, <3>1, <3>2, <3>3, <4>1, <4>2, <4>3
    <3>4. CASE effect' = effect /\ Goto(r, "mark_failed", st, i)
      BY <2>1, <2>4, <3>1, <3>2, <3>4 DEF Pcs
    <3> QED BY <2>10, <3>3, <3>4 DEF Execute, i, st
  <2>11. CASE MarkDone(r)
    <3>1. i \in Steps BY <2>3, <2>11 DEF MarkDone, AtStep
    <3>2. i \in 0..N BY <2>2, <3>1 DEF Steps
    <3>3. Advance(st, i) \in Instances BY <2>1, <3>2, StatesAre
    <3>4. step' \in [Steps -> StepStatuses]
      BY <2>1, <2>11 DEF MarkDone, SetStep, StepStatuses
    <3>5. Goto(r, "save_done", Advance(st, i), i) /\ UNCHANGED <<inst, effect, stops>>
      BY <2>11 DEF MarkDone, i, st
    <3> QED BY <2>1, <2>4, <3>1, <3>3, <3>4, <3>5 DEF Pcs
  <2>12. CASE SaveDone(r)
    <3>1. i \in Steps BY <2>3, <2>12 DEF SaveDone, AtStep
    <3>2. i + 1 \in 0..N+1 /\ i + 1 >= 1 BY <2>2, <3>1 DEF Steps
    <3>3. Goto(r, "forward", st, i + 1) /\ inst' = st /\ UNCHANGED <<step, effect, stops>>
      BY <2>12 DEF SaveDone, Save, i, st
    <3> QED BY <2>1, <2>4, <3>2, <3>3 DEF Pcs, AtStep
  <2>13. CASE MarkFailed(r)
    <3>1. i \in Steps BY <2>3, <2>13 DEF MarkFailed, AtStep
    <3>2. WithStatus(st, "compensating") \in Instances
      BY <2>1, StatesAre DEF SagaStatuses
    <3>3. step' \in [Steps -> StepStatuses]
      BY <2>1, <2>13 DEF MarkFailed, SetStep, StepStatuses
    <3>4. /\ Goto(r, "save_compensating", WithStatus(st, "compensating"), i)
          /\ UNCHANGED <<inst, effect, stops>>
      BY <2>13 DEF MarkFailed, i, st
    <3> QED BY <2>1, <2>4, <3>1, <3>2, <3>3, <3>4 DEF Pcs
  <2>14. CASE SaveCompensating(r)
    <3>1. i \in Steps BY <2>3, <2>14 DEF SaveCompensating, AtStep
    <3>2. i - 1 \in 0..N+1 /\ i - 1 <= N BY <2>2, <3>1 DEF Steps
    <3>3. Goto(r, "undo", st, i - 1) /\ inst' = st /\ UNCHANGED <<step, effect, stops>>
      BY <2>14 DEF SaveCompensating, CompensatingRow, Save, i, st
    <3> QED BY <2>1, <2>4, <3>2, <3>3 DEF Pcs, AtStep
  <2>15. CASE SaveCompleted(r)
    BY <2>1, <2>5, <2>15, StatesAre DEF SaveCompleted, Save, SagaStatuses, st
  <2>16. CASE UndoCheck(r)
    <3>0. i <= N BY <2>1, <2>16 DEF UndoCheck, InBounds, i
    <3>1. CASE i = 0
      <4>1. Goto(r, "save_compensated", st, i) BY <2>16, <3>1 DEF UndoCheck, UndoPosition, i, st
      <4> QED BY <2>1, <2>4, <2>16, <4>1 DEF UndoCheck, Pcs, AtStep
    <3>2. CASE i # 0 /\ step[i] = "done"
      <4>1. Goto(r, "compensate", st, i) BY <2>16, <3>2 DEF UndoCheck, UndoPosition, i, st
      <4>2. i \in Steps BY <2>1, <2>2, <3>0, <3>2 DEF Steps
      <4> QED BY <2>1, <2>4, <2>16, <4>1, <4>2 DEF UndoCheck, Pcs, AtStep
    <3>3. CASE i # 0 /\ step[i] # "done"
      <4>1. Goto(r, "undo", st, i - 1) BY <2>16, <3>3 DEF UndoCheck, UndoPosition, i, st
      <4>2. i - 1 \in 0..N+1 /\ i - 1 <= N BY <2>1, <2>2, <3>0, <3>3
      <4> QED BY <2>1, <2>4, <2>16, <4>1, <4>2 DEF UndoCheck, Pcs, AtStep
    <3> QED BY <3>1, <3>2, <3>3
  <2>17. CASE Compensate(r)
    <3>1. i \in Steps BY <2>3, <2>17 DEF Compensate, AtStep
    <3>2. UNCHANGED <<inst, step, stops>> BY <2>17 DEF Compensate
    <3>3. effect' \in [Steps -> {"none", "applied", "undone"}] BY <2>1, <2>17 DEF Compensate
    <3>4. WithStatus(st, "failed") \in Instances BY <2>1, StatesAre DEF SagaStatuses
    <3>5. \/ Goto(r, "mark_undone", st, i)
          \/ Goto(r, "mark_undo_failed", WithStatus(st, "failed"), i)
      BY <2>17 DEF Compensate, i, st
    <3> QED BY <2>1, <2>4, <3>1, <3>2, <3>3, <3>4, <3>5 DEF Pcs
  <2>18. CASE MarkUndoFailed(r)
    <3>1. i \in Steps BY <2>3, <2>18 DEF MarkUndoFailed, AtStep
    <3>2. step' \in [Steps -> StepStatuses]
      BY <2>1, <2>18 DEF MarkUndoFailed, SetStep, StepStatuses
    <3>3. Goto(r, "save_failed", st, i) /\ UNCHANGED <<inst, effect, stops>>
      BY <2>18 DEF MarkUndoFailed, i, st
    <3> QED BY <2>1, <2>4, <3>1, <3>2, <3>3 DEF Pcs
  <2>19. CASE SaveFailed(r)
    BY <2>1, <2>5, <2>19 DEF SaveFailed, Save, st
  <2>20. CASE MarkUndone(r)
    <3>1. i \in Steps BY <2>3, <2>20 DEF MarkUndone, AtStep
    <3>2. step' \in [Steps -> StepStatuses]
      BY <2>1, <2>20 DEF MarkUndone, SetStep, StepStatuses
    <3>3. Goto(r, "save_undone", st, i) /\ UNCHANGED <<inst, effect, stops>>
      BY <2>20 DEF MarkUndone, i, st
    <3> QED BY <2>1, <2>4, <3>1, <3>2, <3>3 DEF Pcs
  <2>21. CASE SaveUndone(r)
    <3>1. i \in Steps BY <2>3, <2>21 DEF SaveUndone, AtStep
    <3>2. i - 1 \in 0..N+1 /\ i - 1 <= N BY <2>2, <3>1 DEF Steps
    <3>3. Goto(r, "undo", st, i - 1) /\ inst' = st /\ UNCHANGED <<step, effect, stops>>
      BY <2>21 DEF SaveUndone, Save, i, st
    <3> QED BY <2>1, <2>4, <3>2, <3>3 DEF Pcs, AtStep
  <2>22. CASE SaveCompensated(r)
    BY <2>1, <2>5, <2>22, StatesAre DEF SaveCompensated, Save, SagaStatuses, st
  <2>23. CASE Stop(r)
    <3>1. stops' \in 0..MaxStops BY <2>1, <2>23, StopsAssumption DEF Stop
    <3> QED BY <2>1, <2>5, <2>23, <3>1 DEF Stop
  <2> QED
    BY <1>2, <2>6, <2>7, <2>8, <2>9, <2>10, <2>11, <2>12, <2>13, <2>14, <2>15, <2>16,
       <2>17, <2>18, <2>19, <2>20, <2>21, <2>22, <2>23 DEF Work
<1> QED BY <1>1, <1>2 DEF Next

\* Every row, effect and future stays in its type, for any number of steps and
\* any number of processes that run the instance at once: no loop index of
\* forward or compensate leaves the steps (saga.rs:87-190).
THEOREM TypeCorrect == Spec => []TypeOK
<1>1. Spec => []TypeInv BY InitTypes, NextTypes, PTL DEF Spec
<1>2. TypeInv => TypeOK BY DEF TypeInv
<1> QED BY <1>1, <1>2, PTL

-----------------------------------------------------------------------------
(* The inductive invariant, for one runner.                                *)

(* Where a runner is: before its first save of `compensating`, or after it. *)
InForward == {"forward", "execute", "mark_done", "save_done", "mark_failed",
              "save_compensating", "save_completed"}
InUndo    == {"undo", "compensate", "mark_undo_failed", "save_failed",
              "mark_undone", "save_undone", "save_compensated"}

Undone(j) == effect[j] = "undone" \/ step[j] = "failed"

(* What the rows say of the services, wherever a crash left them.          *)
RowInv ==
  /\ inst.status \in {"absent", "running"} =>
       \A j \in Steps : /\ step[j] # "compensated"
                        /\ step[j] = "done" => effect[j] = "applied"
  /\ inst.status = "absent" => inst.current = 0
  /\ inst.status = "running" => \A j \in Steps : j <= inst.current => step[j] = "done"
  /\ inst.status = "compensating" =>
       \A j \in Steps : j <= inst.current => step[j] # "pending"
  /\ \A j \in Steps : step[j] = "compensated" => effect[j] = "undone"

(* A future in forward: every step below the loop index is Done, the row's *)
(* current_step is behind it.                                              *)
ForwardInv(r) ==
  LET i  == runner[r].i
      st == runner[r].state
      pc == runner[r].pc IN
  /\ inst.status = "running"
  /\ st.status = IF pc = "save_compensating" THEN "compensating" ELSE "running"
  /\ inst.current < i
  /\ st.current = IF pc = "save_done" THEN i ELSE inst.current
  /\ i = N + 1 => pc \in {"forward", "save_completed"}
  /\ pc = "save_completed" => i = N + 1
  /\ \A j \in Steps : j < i => step[j] = "done"
  /\ pc = "mark_done" => effect[i] = "applied"
  /\ pc = "save_done" => step[i] = "done"

(* A future in compensate: every step above the loop index that the row    *)
(* counts is undone, or flagged.                                           *)
UndoInv(r) ==
  LET i  == runner[r].i
      st == runner[r].state
      pc == runner[r].pc IN
  /\ inst.status = "compensating"
  /\ st.status = IF pc \in {"mark_undo_failed", "save_failed"} THEN "failed"
                 ELSE "compensating"
  /\ st.current = inst.current
  /\ i <= N
  /\ i = 0 => pc \in {"undo", "save_compensated"}
  /\ pc = "save_compensated" => i = 0
  /\ pc = "compensate" => step[i] = "done"
  /\ pc \in {"mark_undone", "save_undone"} => effect[i] = "undone"
  /\ \A j \in Steps : i < j /\ j <= inst.current => Undone(j)

RunnerInv(r) ==
  /\ runner[r].pc = "insert" =>
       /\ inst.status = "absent"
       /\ runner[r].state = [status |-> "running", current |-> 0, context |-> {}]
  /\ runner[r].pc \in InForward => ForwardInv(r)
  /\ runner[r].pc \in InUndo => UndoInv(r)

IInv ==
  /\ TypeInv
  /\ RowInv
  /\ CompletedIsApplied
  /\ CompensatedOrFlagged
  /\ \A r \in Runners : RunnerInv(r)

LEMMA GotoIs ==
  ASSUME TypeInv, NEW r \in Runners, NEW p, NEW s, NEW k, Goto(r, p, s, k)
  PROVE  runner'[r].pc = p /\ runner'[r].state = s /\ runner'[r].i = k
<1>1. runner'[r] = [pc |-> p, state |-> s, i |-> k] BY DEF TypeInv, TypeOK, Goto
<1> QED BY <1>1

LEMMA SavedIs ==
  ASSUME NEW st \in Instances, NEW s
  PROVE  WithStatus(st, s).status = s /\ WithStatus(st, s).current = st.current
BY DEF WithStatus, Instances

LEMMA InitInv == Init => IInv
<1> SUFFICES ASSUME Init PROVE IInv OBVIOUS
<1>1. TypeInv BY InitTypes
<1>2. inst.status = "absent" /\ inst.current = 0 BY DEF Init
<1>3. RowInv BY <1>2 DEF Init, RowInv
<1>4. CompletedIsApplied /\ CompensatedOrFlagged
  BY <1>2 DEF CompletedIsApplied, CompensatedOrFlagged
<1>5. \A r \in Runners : RunnerInv(r)
  BY IdleIs DEF Init, RunnerInv, InForward, InUndo
<1> QED BY <1>1, <1>3, <1>4, <1>5 DEF IInv

LEMMA NextInv == OneRunner /\ IInv /\ [Next]_vars => IInv'
<1> SUFFICES ASSUME OneRunner, IInv, [Next]_vars PROVE IInv' OBVIOUS
<1>0. TypeInv /\ TypeInv' BY NextTypes DEF IInv
<1>1. CASE UNCHANGED vars
  BY <1>0, <1>1 DEF vars, IInv, RowInv, CompletedIsApplied, CompensatedOrFlagged,
                    RunnerInv, ForwardInv, UndoInv, Undone
<1>2. ASSUME NEW r \in Runners, RunFresh(r) \/ Continue(r) \/ Work(r) \/ Stop(r)
      PROVE  IInv'
  <2> DEFINE i  == runner[r].i
             st == runner[r].state
             pc == runner[r].pc
  <2>1. /\ i \in 0..N+1 /\ st \in Instances /\ pc \in Pcs
        /\ st.current \in 0..N /\ inst.current \in 0..N
        /\ inst \in Instances /\ step \in [Steps -> StepStatuses]
        /\ effect \in [Steps -> {"none", "applied", "undone"}]
    BY <1>0, StatesAre DEF TypeInv, TypeOK
  <2>2. N \in Nat /\ N >= 1 BY NAssumption
  <2>3. pc \in AtStep => i \in Steps BY <1>0 DEF TypeInv, InBounds
  <2>4. RowInv /\ CompletedIsApplied /\ CompensatedOrFlagged /\ RunnerInv(r) BY DEF IInv
  <2>5. SUFFICES RowInv' /\ CompletedIsApplied' /\ CompensatedOrFlagged' /\ RunnerInv(r)'
    BY <1>0 DEF IInv, OneRunner
  <2>6. CASE RunFresh(r)
    <3>1. runner'[r].pc = "insert"
          /\ runner'[r].state = [status |-> "running", current |-> 0, context |-> {}]
      BY <1>0, <2>6, GotoIs DEF RunFresh
    <3>2. UNCHANGED <<inst, step, effect>> /\ inst.status = "absent" BY <2>6 DEF RunFresh
    <3> QED BY <2>4, <3>1, <3>2
          DEF RowInv, CompletedIsApplied, CompensatedOrFlagged, RunnerInv, InForward, InUndo
  <2>7. CASE RunInsert(r)
    <3>1. st = [status |-> "running", current |-> 0, context |-> {}] /\ inst.status = "absent"
      BY <2>4, <2>7 DEF RunInsert, RunnerInv
    <3>2. runner'[r].pc = "forward" /\ runner'[r].state = st /\ runner'[r].i = 1
      BY <1>0, <2>7, GotoIs DEF RunInsert
    <3>3. inst' = st /\ UNCHANGED <<step, effect>> BY <2>7 DEF RunInsert, Save
    <3>4. inst'.status = "running" /\ inst'.current = 0 BY <3>1, <3>3
    <3>5. RowInv' BY <2>4, <3>1, <3>3, <3>4 DEF RowInv, Steps
    <3>6. RunnerInv(r)'
      BY <2>2, <3>2, <3>3, <3>4 DEF RunnerInv, ForwardInv, InForward, InUndo, Steps
    <3> QED BY <3>4, <3>5, <3>6 DEF CompletedIsApplied, CompensatedOrFlagged
  <2>8. CASE Continue(r)
    <3>1. UNCHANGED <<inst, step, effect>> BY <2>8 DEF Continue
    <3>2. CASE inst.status = "running"
      <4>1. runner'[r].pc = "forward" /\ runner'[r].state = inst
            /\ runner'[r].i = inst.current + 1
        BY <1>0, <2>8, <3>2, GotoIs DEF Continue
      <4>2. \A j \in Steps : j < inst.current + 1 => step[j] = "done"
        BY <2>1, <2>4, <3>2 DEF RowInv, Steps
      <4>3. RunnerInv(r)'
        BY <2>1, <2>2, <3>1, <3>2, <4>1, <4>2 DEF RunnerInv, ForwardInv, InForward, InUndo
      <4> QED BY <2>4, <3>1, <4>3 DEF RowInv, CompletedIsApplied, CompensatedOrFlagged
    <3>3. CASE inst.status # "running"
      <4>0. inst.status = "compensating" BY <2>8, <3>3 DEF Continue, Resumable
      <4>1. runner'[r].pc = "undo" /\ runner'[r].state = inst /\ runner'[r].i = inst.current
        BY <1>0, <2>8, <3>3, GotoIs DEF Continue, UndoFrom
      <4>3. RunnerInv(r)'
        BY <2>1, <2>2, <3>1, <4>0, <4>1 DEF RunnerInv, UndoInv, InForward, InUndo, Steps
      <4> QED BY <2>4, <3>1, <4>3 DEF RowInv, CompletedIsApplied, CompensatedOrFlagged
    <3> QED BY <3>2, <3>3
  <2>9. CASE ForwardCheck(r)
    <3>0. UNCHANGED <<inst, step, effect>> /\ pc = "forward" BY <2>9 DEF ForwardCheck
    <3>1. ForwardInv(r) BY <2>4, <3>0 DEF RunnerInv, InForward
    <3>2. CASE i > N
      <4>1. runner'[r].pc = "save_completed" /\ runner'[r].state = st /\ runner'[r].i = i
        BY <1>0, <2>1, <2>2, <2>9, <3>2, GotoIs DEF ForwardCheck
      <4>2. RunnerInv(r)'
        BY <2>1, <2>2, <3>0, <3>1, <3>2, <4>1 DEF RunnerInv, ForwardInv, InForward, InUndo
      <4> QED BY <2>4, <3>0, <4>2 DEF RowInv, CompletedIsApplied, CompensatedOrFlagged
    <3>3. CASE i <= N /\ step[i] = "done"
      <4>1. runner'[r].pc = "forward" /\ runner'[r].state = st /\ runner'[r].i = i + 1
        BY <1>0, <2>1, <2>2, <2>9, <3>3, GotoIs DEF ForwardCheck, Skips
      <4>2. RunnerInv(r)'
        BY <2>1, <2>2, <3>0, <3>1, <3>3, <4>1
        DEF RunnerInv, ForwardInv, InForward, InUndo, Steps
      <4> QED BY <2>4, <3>0, <4>2 DEF RowInv, CompletedIsApplied, CompensatedOrFlagged
    <3>4. CASE i <= N /\ step[i] # "done"
      <4>1. runner'[r].pc = "execute" /\ runner'[r].state = st /\ runner'[r].i = i
        BY <1>0, <2>1, <2>2, <2>9, <3>4, GotoIs DEF ForwardCheck, Skips
      <4>2. RunnerInv(r)'
        BY <2>1, <2>2, <3>0, <3>1, <3>4, <4>1
        DEF RunnerInv, ForwardInv, InForward, InUndo, Steps
      <4> QED BY <2>4, <3>0, <4>2 DEF RowInv, CompletedIsApplied, CompensatedOrFlagged
    <3> QED BY <2>1, <2>2, <3>2, <3>3, <3>4
  <2>10. CASE Execute(r)
    <3>0. UNCHANGED <<inst, step>> /\ pc = "execute" BY <2>10 DEF Execute
    <3>1. ForwardInv(r) /\ inst.status = "running"
      BY <2>4, <3>0 DEF RunnerInv, InForward, ForwardInv
    <3>2. i \in Steps BY <2>3, <3>0 DEF AtStep
    <3>3. CASE effect' = [effect EXCEPT ![i] = "applied"]
               /\ Goto(r, "mark_done", [status |-> st.status, current |-> st.current,
                                        context |-> st.context \cup {i}], i)
      <4>1. /\ runner'[r].pc = "mark_done" /\ runner'[r].i = i
            /\ runner'[r].state.status = st.status /\ runner'[r].state.current = st.current
        BY <1>0, <3>3, GotoIs
      <4>2. RunnerInv(r)'
        BY <2>1, <2>2, <3>0, <3>1, <3>2, <3>3, <4>1
        DEF RunnerInv, ForwardInv, InForward, InUndo
      <4>3. RowInv' BY <2>1, <2>4, <3>0, <3>1, <3>2, <3>3 DEF RowInv
      <4> QED BY <3>0, <3>1, <4>2, <4>3 DEF CompletedIsApplied, CompensatedOrFlagged
    <3>4. CASE effect' = effect /\ Goto(r, "mark_failed", st, i)
      <4>1. runner'[r].pc = "mark_failed" /\ runner'[r].state = st /\ runner'[r].i = i
        BY <1>0, <3>4, GotoIs
      <4>2. RunnerInv(r)'
        BY <2>1, <2>2, <3>0, <3>1, <3>2, <4>1
        DEF RunnerInv, ForwardInv, InForward, InUndo
      <4> QED BY <2>4, <3>0, <3>4, <4>2 DEF RowInv, CompletedIsApplied, CompensatedOrFlagged
    <3> QED BY <2>10, <3>3, <3>4 DEF Execute
  <2>11. CASE MarkDone(r)
    <3>0. UNCHANGED <<inst, effect>> /\ pc = "mark_done" /\ step' = [step EXCEPT ![i] = "done"]
      BY <2>11 DEF MarkDone, SetStep
    <3>1. ForwardInv(r) /\ inst.status = "running" /\ effect[i] = "applied"
      BY <2>4, <3>0 DEF RunnerInv, InForward, ForwardInv
    <3>2. i \in Steps BY <2>3, <3>0 DEF AtStep
    <3>3. /\ runner'[r].pc = "save_done" /\ runner'[r].i = i
          /\ runner'[r].state.status = st.status /\ runner'[r].state.current = i
      BY <1>0, <2>11, GotoIs DEF MarkDone, Advance
    <3>4. RunnerInv(r)'
      BY <2>1, <2>2, <3>0, <3>1, <3>2, <3>3
      DEF RunnerInv, ForwardInv, InForward, InUndo
    <3>5. RowInv' BY <2>1, <2>4, <3>0, <3>1, <3>2 DEF RowInv
    <3> QED BY <3>0, <3>1, <3>4, <3>5 DEF CompletedIsApplied, CompensatedOrFlagged
  <2>12. CASE SaveDone(r)
    <3>0. UNCHANGED <<step, effect>> /\ pc = "save_done" /\ inst' = st
      BY <2>12 DEF SaveDone, Save
    <3>1. /\ ForwardInv(r) /\ inst.status = "running" /\ st.status = "running"
          /\ st.current = i /\ step[i] = "done"
      BY <2>4, <3>0 DEF RunnerInv, InForward, ForwardInv
    <3>2. i \in Steps BY <2>3, <3>0 DEF AtStep
    <3>3. runner'[r].pc = "forward" /\ runner'[r].i = i + 1 /\ runner'[r].state = st
      BY <1>0, <2>12, GotoIs DEF SaveDone
    <3>4. \A j \in Steps : j < i + 1 => step[j] = "done"
      BY <3>1, <3>2, <2>2 DEF ForwardInv, Steps
    <3>5. RunnerInv(r)'
      BY <2>1, <2>2, <3>0, <3>1, <3>2, <3>3, <3>4
      DEF RunnerInv, ForwardInv, InForward, InUndo
    <3>6. RowInv' BY <2>1, <2>4, <3>0, <3>1, <3>2, <3>4 DEF RowInv, Steps
    <3> QED BY <3>0, <3>1, <3>5, <3>6 DEF CompletedIsApplied, CompensatedOrFlagged
  <2>13. CASE MarkFailed(r)
    <3>0. UNCHANGED <<inst, effect>> /\ pc = "mark_failed" /\ step' = [step EXCEPT ![i] = "failed"]
      BY <2>13 DEF MarkFailed, SetStep
    <3>1. ForwardInv(r) /\ inst.status = "running" /\ inst.current < i
      BY <2>4, <3>0 DEF RunnerInv, InForward, ForwardInv
    <3>2. i \in Steps BY <2>3, <3>0 DEF AtStep
    <3>3. /\ runner'[r].pc = "save_compensating" /\ runner'[r].i = i
          /\ runner'[r].state.status = "compensating" /\ runner'[r].state.current = st.current
      BY <1>0, <2>1, <2>13, GotoIs, SavedIs DEF MarkFailed
    <3>4. RunnerInv(r)'
      BY <2>1, <2>2, <3>0, <3>1, <3>2, <3>3
      DEF RunnerInv, ForwardInv, InForward, InUndo, Steps
    <3>5. RowInv' BY <2>1, <2>4, <3>0, <3>1, <3>2 DEF RowInv, Steps
    <3> QED BY <3>0, <3>1, <3>4, <3>5 DEF CompletedIsApplied, CompensatedOrFlagged
  <2>14. CASE SaveCompensating(r)
    <3>0. UNCHANGED <<step, effect>> /\ pc = "save_compensating" /\ inst' = st
      BY <2>14 DEF SaveCompensating, CompensatingRow, Save
    <3>1. /\ ForwardInv(r) /\ inst.status = "running" /\ st.status = "compensating"
          /\ st.current = inst.current /\ inst.current < i
      BY <2>4, <3>0 DEF RunnerInv, InForward, ForwardInv
    <3>2. i \in Steps BY <2>3, <3>0 DEF AtStep
    <3>3. runner'[r].pc = "undo" /\ runner'[r].i = i - 1 /\ runner'[r].state = st
      BY <1>0, <2>14, GotoIs DEF SaveCompensating
    <3>4. RunnerInv(r)'
      BY <2>1, <2>2, <3>0, <3>1, <3>2, <3>3
      DEF RunnerInv, UndoInv, InForward, InUndo, Steps
    <3>5. RowInv' BY <2>1, <2>4, <3>0, <3>1 DEF RowInv
    <3> QED BY <3>0, <3>1, <3>4, <3>5 DEF CompletedIsApplied, CompensatedOrFlagged
  <2>15. CASE SaveCompleted(r)
    <3>0. /\ UNCHANGED <<step, effect>> /\ pc = "save_completed"
          /\ inst'.status = "completed" /\ runner'[r] = Idle
      BY <1>0, <2>1, <2>15, SavedIs DEF SaveCompleted, Save, TypeInv, TypeOK
    <3>1. i = N + 1 /\ inst.status = "running" /\ (\A j \in Steps : j < i => step[j] = "done")
      BY <2>4, <3>0 DEF RunnerInv, InForward, ForwardInv
    <3>2. \A j \in Steps : effect[j] = "applied"
      BY <2>2, <2>4, <3>1 DEF RowInv, Steps
    <3>3. RunnerInv(r)' BY <3>0, IdleIs DEF RunnerInv, InForward, InUndo
    <3>4. RowInv' BY <2>4, <3>0 DEF RowInv
    <3> QED BY <3>0, <3>2, <3>3, <3>4 DEF CompletedIsApplied, CompensatedOrFlagged
  <2>16. CASE UndoCheck(r)
    <3>0. UNCHANGED <<inst, step, effect>> /\ pc = "undo" BY <2>16 DEF UndoCheck
    <3>1. UndoInv(r) BY <2>4, <3>0 DEF RunnerInv, InUndo
    <3>2. CASE i = 0
      <4>1. runner'[r].pc = "save_compensated" /\ runner'[r].state = st /\ runner'[r].i = i
        BY <1>0, <2>16, <3>2, GotoIs DEF UndoCheck, UndoPosition
      <4>2. RunnerInv(r)'
        BY <2>1, <2>2, <3>0, <3>1, <3>2, <4>1
        DEF RunnerInv, UndoInv, InForward, InUndo, Undone
      <4> QED BY <2>4, <3>0, <4>2 DEF RowInv, CompletedIsApplied, CompensatedOrFlagged
    <3>3. CASE i # 0 /\ step[i] = "done"
      <4>1. runner'[r].pc = "compensate" /\ runner'[r].state = st /\ runner'[r].i = i
        BY <1>0, <2>16, <3>3, GotoIs DEF UndoCheck, UndoPosition
      <4>2. RunnerInv(r)'
        BY <2>1, <2>2, <3>0, <3>1, <3>3, <4>1
        DEF RunnerInv, UndoInv, InForward, InUndo, Undone
      <4> QED BY <2>4, <3>0, <4>2 DEF RowInv, CompletedIsApplied, CompensatedOrFlagged
    <3>4. CASE i # 0 /\ step[i] # "done"
      <4>1. runner'[r].pc = "undo" /\ runner'[r].state = st /\ runner'[r].i = i - 1
        BY <1>0, <2>16, <3>4, GotoIs DEF UndoCheck, UndoPosition
      <4>2. i \in Steps /\ inst.status = "compensating"
        BY <2>1, <2>2, <3>1, <3>4 DEF UndoInv, Steps
      <4>3. i <= inst.current => Undone(i)
        BY <2>1, <2>4, <3>4, <4>2 DEF RowInv, Undone, StepStatuses
      <4>4. \A j \in Steps : i - 1 < j /\ j <= inst.current => Undone(j)
        BY <2>1, <2>2, <3>1, <4>2, <4>3 DEF UndoInv, Steps
      <4>5. RunnerInv(r)'
        BY <2>1, <2>2, <3>0, <3>1, <4>1, <4>2, <4>4
        DEF RunnerInv, UndoInv, InForward, InUndo, Undone
      <4> QED BY <2>4, <3>0, <4>5 DEF RowInv, CompletedIsApplied, CompensatedOrFlagged
    <3> QED BY <3>2, <3>3, <3>4
  <2>17. CASE Compensate(r)
    <3>0. UNCHANGED <<inst, step>> /\ pc = "compensate" BY <2>17 DEF Compensate
    <3>1. UndoInv(r) /\ inst.status = "compensating" BY <2>4, <3>0 DEF RunnerInv, InUndo, UndoInv
    <3>2. i \in Steps BY <2>3, <3>0 DEF AtStep
    <3>3. CASE effect' = [effect EXCEPT ![i] = "undone"] /\ Goto(r, "mark_undone", st, i)
      <4>1. runner'[r].pc = "mark_undone" /\ runner'[r].state = st /\ runner'[r].i = i
        BY <1>0, <3>3, GotoIs
      <4>2. RunnerInv(r)'
        BY <2>1, <2>2, <3>0, <3>1, <3>2, <3>3, <4>1
        DEF RunnerInv, UndoInv, InForward, InUndo, Undone, Steps
      <4>3. RowInv' BY <2>1, <2>4, <3>0, <3>1, <3>2, <3>3 DEF RowInv
      <4> QED BY <3>0, <3>1, <4>2, <4>3 DEF CompletedIsApplied, CompensatedOrFlagged
    <3>4. CASE effect' = effect /\ Goto(r, "mark_undo_failed", WithStatus(st, "failed"), i)
      <4>1. /\ runner'[r].pc = "mark_undo_failed" /\ runner'[r].i = i
            /\ runner'[r].state.status = "failed" /\ runner'[r].state.current = st.current
        BY <1>0, <2>1, <3>4, GotoIs, SavedIs
      <4>2. RunnerInv(r)'
        BY <2>1, <2>2, <3>0, <3>1, <3>2, <3>4, <4>1
        DEF RunnerInv, UndoInv, InForward, InUndo, Undone, Steps
      <4> QED BY <2>4, <3>0, <3>4, <4>2 DEF RowInv, CompletedIsApplied, CompensatedOrFlagged
    <3> QED BY <2>17, <3>3, <3>4 DEF Compensate
  <2>18. CASE MarkUndoFailed(r)
    <3>0. /\ UNCHANGED <<inst, effect>> /\ pc = "mark_undo_failed"
          /\ step' = [step EXCEPT ![i] = "failed"]
      BY <2>18 DEF MarkUndoFailed, SetStep
    <3>1. UndoInv(r) /\ inst.status = "compensating" BY <2>4, <3>0 DEF RunnerInv, InUndo, UndoInv
    <3>2. i \in Steps BY <2>3, <3>0 DEF AtStep
    <3>3. runner'[r].pc = "save_failed" /\ runner'[r].state = st /\ runner'[r].i = i
      BY <1>0, <2>18, GotoIs DEF MarkUndoFailed
    <3>4. RunnerInv(r)'
      BY <2>1, <2>2, <3>0, <3>1, <3>2, <3>3
      DEF RunnerInv, UndoInv, InForward, InUndo, Undone, Steps
    <3>5. RowInv' BY <2>1, <2>4, <3>0, <3>1, <3>2 DEF RowInv
    <3> QED BY <3>0, <3>1, <3>4, <3>5 DEF CompletedIsApplied, CompensatedOrFlagged
  <2>19. CASE SaveFailed(r)
    <3>0. UNCHANGED <<step, effect>> /\ pc = "save_failed" /\ inst' = st /\ runner'[r] = Idle
      BY <1>0, <2>19 DEF SaveFailed, Save, TypeInv, TypeOK
    <3>1. st.status = "failed" BY <2>4, <3>0 DEF RunnerInv, InUndo, UndoInv
    <3>2. RunnerInv(r)' BY <3>0, IdleIs DEF RunnerInv, InForward, InUndo
    <3>3. RowInv' BY <2>4, <3>0, <3>1 DEF RowInv
    <3> QED BY <3>0, <3>1, <3>2, <3>3 DEF CompletedIsApplied, CompensatedOrFlagged
  <2>20. CASE MarkUndone(r)
    <3>0. /\ UNCHANGED <<inst, effect>> /\ pc = "mark_undone"
          /\ step' = [step EXCEPT ![i] = "compensated"]
      BY <2>20 DEF MarkUndone, SetStep
    <3>1. UndoInv(r) /\ inst.status = "compensating" /\ effect[i] = "undone"
      BY <2>4, <3>0 DEF RunnerInv, InUndo, UndoInv
    <3>2. i \in Steps BY <2>3, <3>0 DEF AtStep
    <3>3. runner'[r].pc = "save_undone" /\ runner'[r].state = st /\ runner'[r].i = i
      BY <1>0, <2>20, GotoIs DEF MarkUndone
    <3>4. RunnerInv(r)'
      BY <2>1, <2>2, <3>0, <3>1, <3>2, <3>3
      DEF RunnerInv, UndoInv, InForward, InUndo, Undone, Steps
    <3>5. RowInv' BY <2>1, <2>4, <3>0, <3>1, <3>2 DEF RowInv
    <3> QED BY <3>0, <3>1, <3>4, <3>5 DEF CompletedIsApplied, CompensatedOrFlagged
  <2>21. CASE SaveUndone(r)
    <3>0. UNCHANGED <<step, effect>> /\ pc = "save_undone" /\ inst' = st
      BY <2>21 DEF SaveUndone, Save
    <3>1. /\ UndoInv(r) /\ inst.status = "compensating" /\ st.status = "compensating"
          /\ st.current = inst.current /\ effect[i] = "undone"
      BY <2>4, <3>0 DEF RunnerInv, InUndo, UndoInv
    <3>2. i \in Steps BY <2>3, <3>0 DEF AtStep
    <3>3. runner'[r].pc = "undo" /\ runner'[r].i = i - 1 /\ runner'[r].state = st
      BY <1>0, <2>21, GotoIs DEF SaveUndone
    <3>4. \A j \in Steps : i - 1 < j /\ j <= inst.current => Undone(j)
      BY <2>1, <2>2, <3>1, <3>2 DEF UndoInv, Undone, Steps
    <3>5. RunnerInv(r)'
      BY <2>1, <2>2, <3>0, <3>1, <3>2, <3>3, <3>4
      DEF RunnerInv, UndoInv, InForward, InUndo, Undone, Steps
    <3>6. RowInv' BY <2>4, <3>0, <3>1 DEF RowInv
    <3> QED BY <3>0, <3>1, <3>5, <3>6 DEF CompletedIsApplied, CompensatedOrFlagged
  <2>22. CASE SaveCompensated(r)
    <3>0. /\ UNCHANGED <<step, effect>> /\ pc = "save_compensated" /\ runner'[r] = Idle
          /\ inst'.status = "compensated" /\ inst'.current = st.current
      BY <1>0, <2>1, <2>22, SavedIs DEF SaveCompensated, Save, TypeInv, TypeOK
    <3>1. /\ i = 0 /\ st.current = inst.current
          /\ \A j \in Steps : i < j /\ j <= inst.current => Undone(j)
      BY <2>4, <3>0 DEF RunnerInv, InUndo, UndoInv
    <3>2. CompensatedOrFlagged'
      BY <2>2, <3>0, <3>1 DEF CompensatedOrFlagged, Undone, Steps
    <3>3. RunnerInv(r)' BY <3>0, IdleIs DEF RunnerInv, InForward, InUndo
    <3>4. RowInv' BY <2>4, <3>0 DEF RowInv
    <3> QED BY <3>0, <3>2, <3>3, <3>4 DEF CompletedIsApplied
  <2>23. CASE Stop(r)
    <3>1. UNCHANGED <<inst, step, effect>> /\ runner'[r] = Idle
      BY <1>0, <2>23 DEF Stop, TypeInv, TypeOK
    <3>2. RunnerInv(r)' BY <3>1, IdleIs DEF RunnerInv, InForward, InUndo
    <3> QED BY <2>4, <3>1, <3>2 DEF RowInv, CompletedIsApplied, CompensatedOrFlagged
  <2> HIDE DEF i, st, pc
  <2> QED
    BY <1>2, <2>6, <2>7, <2>8, <2>9, <2>10, <2>11, <2>12, <2>13, <2>14, <2>15, <2>16,
       <2>17, <2>18, <2>19, <2>20, <2>21, <2>22, <2>23 DEF Work
<1> QED BY <1>1, <1>2 DEF Next

LEMMA Invariance == OneRunner => (Spec => [](OneRunner /\ IInv))
<1>1. (OneRunner /\ IInv) /\ [Next]_vars => (OneRunner /\ IInv)' BY NextInv DEF OneRunner
<1> QED BY InitInv, <1>1, PTL DEF Spec

\* Run by one process at a time, a saga whose row says `completed` has every
\* step in effect, whatever the number of steps and of crashes between an
\* execute, its set_step and its save (forward skips Done steps only).
THEOREM CompletedIsAppliedHolds == OneRunner => (Spec => []CompletedIsApplied)
<1>1. IInv => CompletedIsApplied BY DEF IInv
<1> QED BY <1>1, Invariance, PTL

\* Run by one process at a time, a saga whose row says `compensated` has undone
\* every step up to the row's current_step, but for those flagged as failed,
\* wherever compensate was cut off and resumed.
THEOREM CompensatedOrFlaggedHolds == OneRunner => (Spec => []CompensatedOrFlagged)
<1>1. IInv => CompensatedOrFlagged BY DEF IInv
<1> QED BY <1>1, Invariance, PTL

EffectsStep ==
  \A i \in Steps :
    /\ effect[i] # "applied" /\ effect'[i] = "applied" =>
         /\ inst.status = "running"
         /\ \A j \in Steps : j < i => step[j] = "done"
    /\ effect[i] # "undone" /\ effect'[i] = "undone" =>
         \A j \in Steps : i < j /\ j <= inst.current =>
           effect[j] = "undone" \/ step[j] = "failed"

LEMMA StepsInOrder == OneRunner /\ IInv /\ [Next]_vars => [EffectsStep]_vars
<1> SUFFICES ASSUME OneRunner, IInv, [Next]_vars PROVE EffectsStep \/ UNCHANGED vars
  OBVIOUS
<1>1. ASSUME effect' = effect PROVE EffectsStep BY <1>1 DEF EffectsStep
<1>2. ASSUME NEW r \in Runners, Execute(r) PROVE EffectsStep
  <2> DEFINE i == runner[r].i
  <2>1. ForwardInv(r) BY <1>2 DEF Execute, IInv, RunnerInv, InForward
  <2>2. i \in Steps BY <1>2 DEF IInv, TypeInv, InBounds, Execute, AtStep
  <2>3. effect \in [Steps -> {"none", "applied", "undone"}] BY DEF IInv, TypeInv, TypeOK
  <2>4. effect' = [effect EXCEPT ![i] = "applied"] \/ effect' = effect BY <1>2 DEF Execute
  <2>5. inst.status = "running" /\ (\A j \in Steps : j < i => step[j] = "done")
    BY <2>1 DEF ForwardInv
  <2> HIDE DEF i
  <2> QED BY <1>1, <2>2, <2>3, <2>4, <2>5 DEF EffectsStep
<1>3. ASSUME NEW r \in Runners, Compensate(r) PROVE EffectsStep
  <2> DEFINE i == runner[r].i
  <2>1. UndoInv(r) BY <1>3 DEF Compensate, IInv, RunnerInv, InUndo
  <2>2. i \in Steps BY <1>3 DEF IInv, TypeInv, InBounds, Compensate, AtStep
  <2>3. effect \in [Steps -> {"none", "applied", "undone"}] BY DEF IInv, TypeInv, TypeOK
  <2>4. effect' = [effect EXCEPT ![i] = "undone"] \/ effect' = effect BY <1>3 DEF Compensate
  <2>5. \A j \in Steps : i < j /\ j <= inst.current => effect[j] = "undone" \/ step[j] = "failed"
    BY <2>1 DEF UndoInv, Undone
  <2> HIDE DEF i
  <2> QED BY <1>1, <2>2, <2>3, <2>4, <2>5 DEF EffectsStep
<1>4. ASSUME NEW r \in Runners, RunFresh(r) \/ Continue(r) \/ Work(r) \/ Stop(r),
             ~Execute(r), ~Compensate(r)
      PROVE  effect' = effect
  BY <1>4 DEF RunFresh, Continue, Stop, Work, RunInsert, ForwardCheck, MarkDone, SaveDone,
              MarkFailed, SaveCompensating, SaveCompleted, UndoCheck, MarkUndoFailed,
              SaveFailed, MarkUndone, SaveUndone, SaveCompensated
<1> QED BY <1>1, <1>2, <1>3, <1>4 DEF Next

\* Run by one process at a time, a saga's steps take effect in order and only
\* while its row says `running`, and a step is undone only after every later
\* one that the row counts: whatever a crash lost between set_step and save.
THEOREM EffectsInOrderHolds == OneRunner => (Spec => EffectsInOrder)
<1>1. (OneRunner /\ IInv) /\ [Next]_vars => [EffectsStep]_vars BY StepsInOrder
<1> QED BY <1>1, Invariance, PTL DEF Spec, EffectsInOrder, EffectsStep
=============================================================================
