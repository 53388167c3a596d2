------------------------------- MODULE MCSaga -------------------------------
(* Model-checking instances of Saga. *)
EXTENDS Saga
=============================================================================
