------------------------------- MODULE Catalog -------------------------------
(***************************************************************************)
(* The shard catalog of ecat-data-sharding (catalog.rs): which shard a key *)
(* belongs to; and the plan of a migration between two catalogs            *)
(* (migrate/plan.rs). One table; a catalog names its algorithm, the range  *)
(* boundaries and the shards in order.                                     *)
(*                                                                         *)
(* Keys are the integers MinKey..MaxKey, for i64. A KeyRange without a low *)
(* or high end is one that ends at MinKey or after MaxKey. stable_hash64   *)
(* is a constant function.                                                 *)
(***************************************************************************)
EXTENDS Integers, Sequences, FiniteSets, SequencesExt

CONSTANTS MinKey, MaxKey,
          Hash,           \* [MinKey..MaxKey -> Nat]: stable_hash64
          PlanCatalogs    \* catalogs between which plans are checked

Keys == MinKey..MaxKey
NoHigh == MaxKey + 1

ASSUME KeysAssumption == MinKey \in Int /\ MaxKey \in Int /\ MinKey <= MaxKey
ASSUME HashAssumption == Hash \in [Keys -> Nat]

\* A catalog as it is parsed: boundaries are i64.
IsCatalog(c) ==
  /\ c.algorithm \in {"range", "hash"}
  /\ c.boundaries \in Seq(Keys) /\ c.shards \in Seq(ToSet(c.shards))

\* validate and check_algorithm: distinct shard names, as many shards as the
\* algorithm needs, boundaries strictly increasing.
Valid(c) ==
  /\ IsCatalog(c)
  /\ c.shards # <<>> /\ IsInjective(c.shards)
  /\ c.algorithm = "range" =>
       /\ Len(c.shards) = Len(c.boundaries) + 1
       /\ \A i \in 1..(Len(c.boundaries) - 1) : c.boundaries[i] < c.boundaries[i + 1]

ASSUME CatalogsAssumption == \A c \in PlanCatalogs : Valid(c)

\* partition_point(boundary <= key): a boundary is the first key of a shard.
RangeIndex(boundaries, k) == Cardinality({i \in DOMAIN boundaries : boundaries[i] <= k})

\* shard_for, as the name of the shard.
ShardFor(c, k) ==
  c.shards[1 + IF c.algorithm = "range" THEN RangeIndex(c.boundaries, k)
               ELSE (Hash[k] % Len(c.shards))]

-----------------------------------------------------------------------------
(* migrate/plan.rs                                                         *)

\* KeyRange: low is in it, high is not.
InRange(mv, k) == mv.low <= k /\ k < mv.high

\* full_copy_moves: every old shard to every new one, row by row.
FullCopyMoves(old, new) ==
  [i \in 1..(Len(old.shards) * Len(new.shards)) |->
     [from |-> old.shards[1 + ((i - 1) \div Len(new.shards))],
      to   |-> new.shards[1 + ((i - 1) % Len(new.shards))],
      full |-> TRUE, low |-> MinKey, high |-> NoHigh]]

\* sort_unstable and dedup: the i-th of a set of boundaries.
Nth(S, i) == CHOOSE b \in S : Cardinality({x \in S : x <= b}) = i

\* The intervals between the boundaries of both catalogs, each with a key that
\* stands for it; the first is empty when there is a boundary at MinKey.
Boundaries(old, new) == ToSet(old.boundaries) \cup ToSet(new.boundaries)
Interval(S, i) ==
  LET low == IF i = 1 THEN MinKey ELSE Nth(S, i - 1)
  IN  IF i <= Cardinality(S) THEN [low |-> low, high |-> Nth(S, i), key |-> Nth(S, i) - 1]
      ELSE [low |-> low, high |-> NoHigh, key |-> IF i = 1 THEN 0 ELSE low]

\* range_index, a second copy of the partition point.
\* Mutant: the copies drift apart by boundary < key.
PlanIndexOpen(boundaries, k) == Cardinality({i \in DOMAIN boundaries : boundaries[i] < k})
PlanIndex(boundaries, k) == Cardinality({i \in DOMAIN boundaries : boundaries[i] <= k})

\* The body of the loop of range_moves: an interval that changes its shard is a
\* move of its own, or extends the last move if it goes on where that one ended.
Extend(old, new, moves, x) ==
  LET from == old.shards[1 + PlanIndex(old.boundaries, x.key)]
      to   == new.shards[1 + PlanIndex(new.boundaries, x.key)]
      n    == Len(moves)
  IN  IF x.high = MinKey \/ from = to THEN moves
      ELSE IF n > 0 /\ moves[n].from = from /\ moves[n].to = to /\ moves[n].high = x.low
           THEN [moves EXCEPT ![n].high = x.high]
           ELSE Append(moves, [from |-> from, to |-> to, full |-> FALSE,
                               low |-> x.low, high |-> x.high])

RangeMoves(old, new) ==
  LET S == Boundaries(old, new)
      n == Cardinality(S) + 1
      moves[i \in 0..n] ==
        IF i = 0 THEN <<>> ELSE Extend(old, new, moves[i - 1], Interval(S, i))
  IN  moves[n]

\* ShardPlan::diff.
Diff(old, new) ==
  IF old.algorithm = "range" /\ new.algorithm = "range" THEN RangeMoves(old, new)
  ELSE IF old.algorithm = new.algorithm /\ old.shards = new.shards THEN <<>>
  ELSE FullCopyMoves(old, new)

\* routes_to: a range move was filtered by SQL, a full copy routes each row.
RoutesTo(new, mv, k) == mv.full => ShardFor(new, k) = mv.to

-----------------------------------------------------------------------------
\* The moves of a plan that pick up key k on the shard that has it.
Carriers(moves, old, new, k) ==
  {mv \in ToSet(moves) : mv.from = ShardFor(old, k) /\ InRange(mv, k) /\ RoutesTo(new, mv, k)}

\* A key whose shard changes is carried by exactly one move, which takes it to
\* its new shard; no move carries a key that stays, except a full copy onto its
\* own shard.
ExactPlan(moves, old, new) ==
  \A k \in Keys : LET cs == Carriers(moves, old, new, k) IN
    /\ ShardFor(old, k) # ShardFor(new, k) => Cardinality(cs) = 1
    /\ \A mv \in cs : mv.to = ShardFor(new, k) /\ (mv.to = mv.from => mv.full)

AllPlansExact == \A old, new \in PlanCatalogs : ExactPlan(Diff(old, new), old, new)
=============================================================================
