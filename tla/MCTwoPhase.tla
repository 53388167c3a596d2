----------------------------- MODULE MCTwoPhase -----------------------------
(* Model-checking instances of TwoPhase. *)
EXTENDS TwoPhase
=============================================================================
