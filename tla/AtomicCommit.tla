---------------------------- MODULE AtomicCommit ----------------------------
(***************************************************************************)
(* What a distributed transaction promises, without coordinator, log,      *)
(* connections or recovery: every branch of a transaction either commits   *)
(* or aborts, none commits before all of them have prepared, and none      *)
(* aborts once one of them has committed.  TwoPhase implements it.         *)
(***************************************************************************)
CONSTANTS Tx,           \* the transactions
          Participants  \* the branches of each of them

VARIABLE rm             \* rm[t][p]: state of branch p of transaction t

RmStates == {"working", "prepared", "committed", "aborted"}

Init == rm = [t \in Tx |-> [p \in Participants |-> "working"]]

CanCommit(t) == \A p \in Participants : rm[t][p] \in {"prepared", "committed"}
CanAbort(t)  == \A p \in Participants : rm[t][p] # "committed"

Prepare(t, p) ==
  /\ rm[t][p] = "working"
  /\ rm' = [rm EXCEPT ![t][p] = "prepared"]

Commit(t, p) ==
  /\ rm[t][p] = "prepared"
  /\ CanCommit(t)
  /\ rm' = [rm EXCEPT ![t][p] = "committed"]

Abort(t, p) ==
  /\ rm[t][p] \in {"working", "prepared"}
  /\ CanAbort(t)
  /\ rm' = [rm EXCEPT ![t][p] = "aborted"]

Next == \E t \in Tx, p \in Participants :
          Prepare(t, p) \/ Commit(t, p) \/ Abort(t, p)

Spec == Init /\ [][Next]_rm
=============================================================================
