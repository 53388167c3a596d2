----------------------------- MODULE MCMigration -----------------------------
(***************************************************************************)
(* Migration for TLC: one operator with writes, a rollback and a fault on  *)
(* a split, a shift and a merge of ranges and on a hash plan with a fresh  *)
(* shard; two operators on a split of two chunks, with a fault and a       *)
(* rollback or a write; a hash plan in place.                              *)
(***************************************************************************)
EXTENDS Migration

CONSTANTS o1, o2

MCHash == [k \in Keys |-> k]
ByRange(bs, ss) == [algorithm |-> "range", boundaries |-> bs, shards |-> ss]
HashMod(ss) == [algorithm |-> "hash", boundaries |-> <<>>, shards |-> ss]

Split == [old |-> ByRange(<<>>, <<"s0">>), new |-> ByRange(<<2>>, <<"s0", "s1">>)]
Shift == [old |-> ByRange(<<3>>, <<"s0", "s1">>), new |-> ByRange(<<2>>, <<"s0", "s1">>)]
Merge == [old |-> ByRange(<<3>>, <<"s0", "s1">>), new |-> ByRange(<<>>, <<"s0">>)]
Remap == [old |-> HashMod(<<"s0", "s1">>), new |-> HashMod(<<"s0", "s2">>)]
Grow  == [old |-> HashMod(<<"s0", "s1">>), new |-> HashMod(<<"s0", "s1", "s2">>)]
Setup(t, ops, w, r, f) ==
  [old |-> t.old, new |-> t.new, ops |-> ops, writes |-> w, rollbacks |-> r, faults |-> f]
MCSetups ==
  {Setup(Split, {o1}, 2, 1, 1), Setup(Shift, {o1}, 1, 1, 1), Setup(Merge, {o1}, 1, 1, 1),
   Setup(Split, {o1, o2}, 0, 1, 1), Setup(Split, {o1, o2}, 1, 0, 1),
   Setup(Remap, {o1}, 1, 1, 1), Setup(Grow, {o1}, 1, 0, 0)}

\* All catalogs of up to three shards; MinKey among the boundaries.
Names(n) == {ss \in [1..n -> {"s0", "s1", "s2"}] : IsInjective(ss)}
MCPlanCatalogs ==
  (UNION {{ByRange(SetToSortSeq(bs, <), ss) : ss \in Names(1 + Cardinality(bs))} :
           bs \in {b \in SUBSET Keys : Cardinality(b) <= 2}})
  \cup {HashMod(ss) : ss \in UNION {Names(n) : n \in 1..3}}
=============================================================================
