------------------------------ MODULE MCTiering ------------------------------
(***************************************************************************)
(* Tiering for TLC: two jobs, a partition of two chunks and one late row;  *)
(* for each sink a configuration that may drop the partition, unsampled,   *)
(* the weaker check, and a sampled one with a filter; and one dry run.     *)
(***************************************************************************)
EXTENDS Tiering

MCIds == 1..4
MCInitRows == {1, 2, 4}
MCMatching == {1, 4}
Config(s, v) == [sink |-> s, sample |-> v, filter |-> FALSE, dryRun |-> FALSE]
Filtered(c) == [c EXCEPT !.filter = TRUE]
MCConfigs ==
  {Config("s3", FALSE), Config("clickhouse", FALSE),
   Filtered(Config("s3", TRUE)), Filtered(Config("clickhouse", TRUE)),
   [Config("s3", FALSE) EXCEPT !.dryRun = TRUE]}
=============================================================================
