-------------------------- MODULE MCCircuitBreaker --------------------------
(* Model-checking instances of CircuitBreaker. *)
EXTENDS CircuitBreaker
=============================================================================
