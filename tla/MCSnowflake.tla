---------------------------- MODULE MCSnowflake ----------------------------
(* Model-checking instances of Snowflake. *)
EXTENDS Snowflake, TLC

Symmetry == Permutations(Threads)
=============================================================================
