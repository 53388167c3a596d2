--------------------------- MODULE MigrationProofs ---------------------------
(***************************************************************************)
(* Proofs about Catalog and Migration, for any catalogs, keys, chunk size, *)
(* operators, writes and faults: the plan of a migration is exact, a       *)
(* backfill whose fence ran out copies no more than one chunk, and reads   *)
(* through the router find what the application last wrote.                *)
(***************************************************************************)
EXTENDS Migration, FiniteSetTheorems, SequenceTheorems, WellFoundedInduction, TLAPS

-----------------------------------------------------------------------------
(* Keys and boundaries.                                                    *)

LEMMA LeastIs ==
  ASSUME NEW S \in SUBSET Nat, S # {} PROVE \E m \in S : \A y \in S : m <= y
<1>1. PICK m \in S : \A y \in S : ~(<<y, m>> \in OpToRel(<, Nat))
  BY NatLessThanWellFounded, WFMin
<1>2. \A y \in S : ~(y < m) BY <1>1 DEF OpToRel
<1> QED BY <1>2

(* Induction over the naturals, for a set.                                 *)
LEMMA SetInduction ==
  ASSUME NEW T \in SUBSET Nat, 0 \in T, \A n \in T : n + 1 \in T
  PROVE  T = Nat
<1> SUFFICES ASSUME Nat \ T # {} PROVE FALSE OBVIOUS
<1>1. Nat \ T \in SUBSET Nat OBVIOUS
<1>2. PICK x \in Nat \ T : \A y \in Nat \ T : x <= y BY <1>1, LeastIs
<1>3. x # 0 /\ x - 1 \in Nat /\ ~(x <= x - 1) /\ (x - 1) + 1 = x OBVIOUS
<1>4. x - 1 \in T BY <1>2, <1>3
<1>5. (x - 1) + 1 \in T BY <1>4
<1> QED BY <1>3, <1>5

LEMMA KeysAre ==
  /\ Keys \subseteq Int /\ MinKey \in Keys /\ NoHigh \in Int
  /\ \A k \in Keys : k \in Int /\ MinKey <= k /\ k < NoHigh /\ k # NoHigh
  /\ IsFiniteSet(Keys)
  /\ \A S \in SUBSET Keys : IsFiniteSet(S) /\ Cardinality(S) \in Nat
<1>1. IsFiniteSet(Keys) BY KeysAssumption, FS_Interval DEF Keys
<1>2. \A S \in SUBSET Keys : IsFiniteSet(S) /\ Cardinality(S) \in Nat
  BY <1>1, FS_Subset, FS_CardinalityType
<1> QED BY <1>1, <1>2, KeysAssumption DEF Keys, NoHigh

(* A set of keys has a least and a greatest one.                           *)
LEMMA LeastKey ==
  ASSUME NEW S \in SUBSET Keys, S # {} PROVE \E m \in S : \A y \in S : m <= y
<1> DEFINE T == {x - MinKey : x \in S}
<1>0. \A x \in S : x \in Int /\ MinKey <= x /\ x - MinKey \in Nat BY KeysAre, KeysAssumption
<1>1. T \in SUBSET Nat /\ T # {} BY <1>0
<1>2. PICK t \in T : \A y \in T : t <= y BY <1>1, LeastIs
<1>3. PICK m \in S : t = m - MinKey OBVIOUS
<1>4. ASSUME NEW y \in S PROVE m <= y
  <2>1. y - MinKey \in T /\ m - MinKey <= y - MinKey BY <1>2, <1>3
  <2> QED BY <1>0, <2>1, KeysAssumption
<1> QED BY <1>4

LEMMA GreatestKey ==
  ASSUME NEW S \in SUBSET Keys, S # {} PROVE \E m \in S : \A y \in S : y <= m
<1> DEFINE T == {MaxKey - x : x \in S}
<1>0. \A x \in S : x \in Int /\ MaxKey - x \in Nat BY KeysAssumption DEF Keys
<1>1. T \in SUBSET Nat /\ T # {} BY <1>0
<1>2. PICK t \in T : \A y \in T : t <= y BY <1>1, LeastIs
<1>3. PICK m \in S : t = MaxKey - m OBVIOUS
<1>4. ASSUME NEW y \in S PROVE y <= m
  <2>1. MaxKey - y \in T /\ MaxKey - m <= MaxKey - y BY <1>2, <1>3
  <2> QED BY <1>0, <2>1, KeysAssumption
<1> QED BY <1>4

(* The place of a boundary in the sorted list.                             *)
Rank(S, b) == Cardinality({x \in S : x <= b})

LEMMA RankIs ==
  ASSUME NEW S \in SUBSET Keys, NEW b
  PROVE  /\ Rank(S, b) \in Nat /\ Rank(S, b) <= Cardinality(S)
         /\ b \in S => Rank(S, b) >= 1
<1> DEFINE B == {x \in S : x <= b}
<1>1. B \in SUBSET S /\ IsFiniteSet(S) /\ B \in SUBSET Keys BY KeysAre
<1>2. IsFiniteSet(B) /\ Cardinality(B) \in Nat /\ Cardinality(B) <= Cardinality(S)
  BY <1>1, FS_Subset, KeysAre
<1>3. b \in S => b \in B BY KeysAre
<1>4. b \in S => Cardinality(B) # 0 BY <1>2, <1>3, FS_EmptySet
<1> QED BY <1>2, <1>4 DEF Rank

LEMMA RankOrder ==
  ASSUME NEW S \in SUBSET Keys, NEW a \in S, NEW b \in S, a < b
  PROVE  Rank(S, a) < Rank(S, b)
<1> DEFINE A == {x \in S : x <= a}
           B == {x \in S : x <= b}
<1>1. A \in SUBSET Keys /\ B \in SUBSET Keys OBVIOUS
<1>2. \A x \in S : x \in Int BY KeysAre
<1>3. A \subseteq B /\ b \in B /\ b \notin A BY <1>2
<1> HIDE DEF A, B
<1>4. IsFiniteSet(A) /\ IsFiniteSet(B) BY <1>1, KeysAre
<1>5. Cardinality(A) \in Nat /\ Cardinality(B) \in Nat BY <1>1, KeysAre
<1>6. Cardinality(A) <= Cardinality(B) /\ (Cardinality(A) = Cardinality(B) => A = B)
  BY <1>3, <1>4, FS_Subset
<1>7. Cardinality(A) # Cardinality(B) BY <1>3, <1>6
<1>8. Cardinality(A) < Cardinality(B) BY <1>5, <1>6, <1>7
<1> QED BY <1>8 DEF Rank, A, B

LEMMA NthExists ==
  ASSUME NEW S \in SUBSET Keys, NEW i \in 1..Cardinality(S)
  PROVE  \E b \in S : Rank(S, b) = i
<1> DEFINE n == Cardinality(S)
           T == {j \in Nat : j + 1 <= n => \E b \in S : Rank(S, b) = j + 1}
<1>1. n \in Nat /\ \A x \in S : x \in Int BY KeysAre
<1>2. 0 \in T
  <2> SUFFICES ASSUME 1 <= n PROVE \E b \in S : Rank(S, b) = 1 OBVIOUS
  <2>1. S # {} BY <1>1, FS_EmptySet
  <2>2. PICK b \in S : \A y \in S : b <= y BY <2>1, LeastKey
  <2>3. {x \in S : x <= b} = {b} BY <1>1, <2>2
  <2> QED BY <2>3, FS_Singleton DEF Rank
<1>3. ASSUME NEW j \in T PROVE j + 1 \in T
  <2> SUFFICES ASSUME (j + 1) + 1 <= n PROVE \E b \in S : Rank(S, b) = (j + 1) + 1 OBVIOUS
  <2>0. j \in Nat OBVIOUS
  <2>1. PICK a \in S : Rank(S, a) = j + 1 BY <1>1, <2>0
  <2> DEFINE A == {x \in S : x <= a}
             R == S \ A
  <2>2. Cardinality(A) = j + 1 /\ IsFiniteSet(A) BY <2>1, KeysAre DEF Rank
  <2>3. R # {}
    <3>1. ASSUME R = {} PROVE FALSE
      <4>1. A = S BY <3>1
      <4>2. Cardinality(S) = j + 1 BY <2>2, <4>1
      <4> QED BY <1>1, <2>0, <4>2
    <3> QED BY <3>1
  <2>4. R \in SUBSET Keys OBVIOUS
  <2>5. PICK b \in R : \A y \in R : b <= y BY <2>3, <2>4, LeastKey
  <2>6. {x \in S : x <= b} = A \cup {b}
    <3>1. b \in S /\ ~(b <= a) BY <2>5
    <3>2. ASSUME NEW x \in S PROVE x <= b <=> (x <= a \/ x = b)
      <4>1. x \in Int /\ a \in Int /\ b \in Int BY <1>1, <3>1
      <4>2. ~(x <= a) => b <= x BY <2>5
      <4> QED BY <3>1, <4>1, <4>2
    <3> QED BY <3>1, <3>2
  <2>7. b \notin A BY <2>5
  <2> HIDE DEF A
  <2>8. Cardinality(A \cup {b}) = Cardinality(A) + 1 BY <2>2, <2>7, FS_AddElement
  <2>9. Rank(S, b) = (j + 1) + 1 BY <2>2, <2>6, <2>8 DEF Rank
  <2> QED BY <2>5, <2>9
<1>4. T = Nat
  <2>1. T \in SUBSET Nat OBVIOUS
  <2> HIDE DEF T
  <2> QED BY <1>2, <1>3, <2>1, SetInduction
<1>5. i - 1 \in Nat /\ (i - 1) + 1 = i /\ i <= n BY <1>1
<1>6. i - 1 \in T BY <1>4, <1>5
<1> QED BY <1>5, <1>6

LEMMA NthIs ==
  ASSUME NEW S \in SUBSET Keys, NEW i \in 1..Cardinality(S)
  PROVE  Nth(S, i) \in S /\ Rank(S, Nth(S, i)) = i
<1>1. \E b \in S : Cardinality({x \in S : x <= b}) = i BY NthExists DEF Rank
<1>2. /\ Nth(S, i) \in S
      /\ Cardinality({x \in S : x <= Nth(S, i)}) = i
  BY <1>1 DEF Nth
<1> QED BY <1>2 DEF Rank

(* No boundary lies between two that follow each other.                    *)
LEMMA NthOrder ==
  ASSUME NEW S \in SUBSET Keys, NEW i \in 1..Cardinality(S), NEW b \in S
  PROVE  b <= Nth(S, i) <=> Rank(S, b) <= i
<1> DEFINE a == Nth(S, i)
<1>1. a \in S /\ Rank(S, a) = i BY NthIs
<1> HIDE DEF a
<1>2. a \in Int /\ b \in Int BY <1>1, KeysAre
<1>3. i \in Int /\ Rank(S, b) \in Nat BY RankIs, KeysAre
<1>4. a < b => i < Rank(S, b) BY <1>1, RankOrder
<1>5. b < a => Rank(S, b) < i BY <1>1, RankOrder
<1>6. b = a => Rank(S, b) = i BY <1>1
<1>7. b <= a <=> Rank(S, b) <= i BY <1>2, <1>3, <1>4, <1>5, <1>6
<1> QED BY <1>7 DEF a

-----------------------------------------------------------------------------
(* The intervals of a plan.                                                *)

LEMMA IntervalIs ==
  ASSUME NEW S \in SUBSET Keys, NEW i \in 1..(Cardinality(S) + 1)
  PROVE  LET x == Interval(S, i) IN
         /\ x.low \in Keys /\ x.high \in Keys \cup {NoHigh}
         /\ x.low < x.high \/ (x.low = MinKey /\ x.high = MinKey)
         /\ \A k \in Keys : InRange(x, k) => \A b \in S : b <= k <=> b <= x.key
         /\ i = 1 => x.low = MinKey
         /\ i # 1 => x.low = Interval(S, i - 1).high
         /\ i = Cardinality(S) + 1 => x.high = NoHigh
<1> DEFINE n == Cardinality(S)
           x == Interval(S, i)
           low == IF i = 1 THEN MinKey ELSE Nth(S, i - 1)
<1>1. n \in Nat /\ i \in Int /\ \A b \in S : b \in Int BY KeysAre
<1>2. i # 1 => i - 1 \in 1..n BY <1>1
<1>3. low \in Keys BY <1>2, NthIs, KeysAre
<1>4. i # 1 => low \in S BY <1>2, NthIs
<1>5. i # 1 => \A b \in S : b <= low <=> Rank(S, b) <= i - 1 BY <1>2, NthOrder
<1>6. CASE i <= n
  <2> DEFINE h == Nth(S, i)
  <2>0. i \in 1..n BY <1>1, <1>6
  <2>1. h \in S /\ Rank(S, h) = i BY <2>0, NthIs
  <2>2. x.low = low /\ x.high = h /\ x.key = h - 1 BY <1>6 DEF Interval
  <2>3. \A b \in S : b <= h <=> Rank(S, b) <= i BY <2>0, NthOrder
  <2>4. h \in Int /\ low \in Int /\ MinKey <= h /\ MinKey \in Int BY <1>3, <2>1, KeysAre, KeysAssumption
  <2>5. low < h \/ (low = MinKey /\ h = MinKey)
    <3>1. CASE i = 1 BY <2>4, <3>1
    <3>2. CASE i # 1
      <4>1. ~(h <= low) BY <1>1, <1>5, <2>1, <3>2
      <4> QED BY <2>4, <4>1
    <3> QED BY <3>1, <3>2
  <2>6. i # 1 => Interval(S, i - 1).high = low
    <3> SUFFICES ASSUME i # 1 PROVE Interval(S, i - 1).high = Nth(S, i - 1) OBVIOUS
    <3>1. i - 1 <= n BY <1>1, <1>6
    <3> QED BY <3>1 DEF Interval
  <2>7. ASSUME NEW k \in Keys, low <= k, k < h, NEW b \in S PROVE b <= k <=> b <= h - 1
    <3>1. b \in Int /\ k \in Int BY <1>1, KeysAre
    <3>2. ASSUME b < h PROVE b <= k
      <4>1. CASE i = 1
        <5>1. Rank(S, b) <= 1 /\ Rank(S, b) >= 1 BY <2>3, <2>4, <3>1, <3>2, <4>1, RankIs
        <5>2. Rank(S, b) \in Nat BY RankIs
        <5>3. Rank(S, b) < Rank(S, h) BY <2>1, <3>2, RankOrder
        <5> QED BY <2>1, <4>1, <5>1, <5>2, <5>3
      <4>2. CASE i # 1
        <5>1. Rank(S, b) < i BY <2>1, <3>2, RankOrder
        <5>2. Rank(S, b) <= i - 1 BY <1>1, <5>1, RankIs
        <5>3. b <= low BY <1>5, <4>2, <5>2
        <5> QED BY <2>4, <2>7, <3>1, <5>3
      <4> QED BY <4>1, <4>2
    <3> QED BY <2>4, <2>7, <3>1, <3>2
  <2>8. i # n + 1 BY <1>1, <1>6
  <2> HIDE DEF x, h, low
  <2>9. \A k \in Keys : InRange(x, k) => \A b \in S : b <= k <=> b <= x.key
    BY <2>2, <2>7 DEF InRange
  <2>10. x.low \in Keys /\ x.high \in Keys \cup {NoHigh} 
         /\ (x.low < x.high \/ (x.low = MinKey /\ x.high = MinKey))
    BY <1>3, <2>1, <2>2, <2>5
  <2>11. i = 1 => x.low = MinKey BY <2>2 DEF low
  <2>12. i # 1 => x.low = Interval(S, i - 1).high BY <2>2, <2>6
  <2> QED BY <2>8, <2>9, <2>10, <2>11, <2>12 DEF x
<1>7. CASE ~(i <= n)
  <2>1. i = n + 1 BY <1>1, <1>7
  <2>2. x.low = low /\ x.high = NoHigh /\ x.key = IF i = 1 THEN 0 ELSE low
    BY <1>7 DEF Interval
  <2>3. low < NoHigh BY <1>3, KeysAre
  <2>4. i # 1 => Interval(S, i - 1).high = low
    <3> SUFFICES ASSUME i # 1 PROVE Interval(S, i - 1).high = Nth(S, i - 1) OBVIOUS
    <3>1. i - 1 <= n BY <1>1, <2>1
    <3> QED BY <3>1 DEF Interval
  <2>5. ASSUME NEW k \in Keys, low <= k, NEW b \in S PROVE b <= k <=> b <= x.key
    <3>1. b \in Int /\ k \in Int /\ low \in Int BY <1>1, <1>3, KeysAre
    <3>2. i # 1
      <4>1. ASSUME i = 1 PROVE FALSE
        <5>1. Cardinality(S) = 0 BY <1>1, <2>1, <4>1
        <5>2. S = {} BY <5>1, KeysAre, FS_EmptySet
        <5> QED BY <5>2
      <4> QED BY <4>1
    <3>3. Rank(S, b) <= i - 1 BY <1>1, <2>1, RankIs
    <3>4. b <= low BY <1>5, <3>2, <3>3
    <3>5. x.key = low BY <2>2, <3>2
    <3> QED BY <2>5, <3>1, <3>4, <3>5
  <2> HIDE DEF x, low
  <2>6. \A k \in Keys : InRange(x, k) => \A b \in S : b <= k <=> b <= x.key
    BY <2>2, <2>5 DEF InRange
  <2>7. i = 1 => x.low = MinKey BY <2>2 DEF low
  <2>8. i # 1 => x.low = Interval(S, i - 1).high BY <2>2, <2>4
  <2> QED BY <1>3, <2>2, <2>3, <2>6, <2>7, <2>8 DEF x
<1> QED BY <1>6, <1>7

(* A catalog by range, whose boundaries are among those of the plan.       *)
RangeCatalog(c, S) ==
  /\ c.algorithm = "range" /\ c.boundaries \in Seq(Keys) /\ c.shards \in Seq(ToSet(c.shards))
  /\ Len(c.shards) = Len(c.boundaries) + 1 /\ ToSet(c.boundaries) \subseteq S

(* The key that stands for an interval is routed as all the keys in it.    *)
LEMMA StandsFor ==
  ASSUME NEW S \in SUBSET Keys, NEW i \in 1..(Cardinality(S) + 1), NEW c, RangeCatalog(c, S)
  PROVE  LET x == Interval(S, i) IN
         /\ c.shards[1 + PlanIndex(c.boundaries, x.key)] \in ToSet(c.shards)
         /\ \A k \in Keys : InRange(x, k) =>
              ShardFor(c, k) = c.shards[1 + PlanIndex(c.boundaries, x.key)]
<1> DEFINE x == Interval(S, i)
           b == c.boundaries
<1>1. b \in Seq(Keys) /\ DOMAIN b = 1..Len(b) /\ Len(b) \in Nat BY DEF RangeCatalog
<1>2. \A j \in DOMAIN b : b[j] \in S BY DEF RangeCatalog, ToSet
<1>3. PlanIndex(b, x.key) \in 0..Len(b)
  <2> DEFINE I == {j \in DOMAIN b : b[j] <= x.key}
  <2>1. I \subseteq 1..Len(b) BY <1>1
  <2>2. IsFiniteSet(1..Len(b)) /\ Cardinality(1..Len(b)) = Len(b) BY <1>1, FS_Interval
  <2>3. IsFiniteSet(I) /\ Cardinality(I) <= Len(b) BY <2>1, <2>2, FS_Subset
  <2>4. Cardinality(I) \in Nat BY <2>3, FS_CardinalityType
  <2> QED BY <1>1, <2>3, <2>4 DEF PlanIndex
<1>4. 1 + PlanIndex(b, x.key) \in DOMAIN c.shards
  <2>1. DOMAIN c.shards = 1..(Len(b) + 1) BY DEF RangeCatalog
  <2> QED BY <1>1, <1>3, <2>1
<1>5. ASSUME NEW k \in Keys, InRange(x, k)
      PROVE  ShardFor(c, k) = c.shards[1 + PlanIndex(b, x.key)]
  <2>1. \A d \in S : d <= k <=> d <= x.key BY <1>5, IntervalIs
  <2> HIDE DEF x
  <2>2. {j \in DOMAIN b : b[j] <= k} = {j \in DOMAIN b : b[j] <= x.key} BY <1>2, <2>1
  <2>3. RangeIndex(b, k) = PlanIndex(b, x.key) BY <2>2 DEF RangeIndex, PlanIndex
  <2> QED BY <2>3 DEF ShardFor, RangeCatalog
<1>6. c.shards[1 + PlanIndex(b, x.key)] \in ToSet(c.shards) BY <1>4 DEF ToSet
<1> QED BY <1>5, <1>6

-----------------------------------------------------------------------------
(* The loop of range_moves.                                                *)

MoveType(old, new) ==
  [from : ToSet(old.shards), to : ToSet(new.shards), full : BOOLEAN,
   low : Keys, high : Keys \cup {NoHigh}]

(* A range move takes keys that change their shard from where they are to  *)
(* where they belong.                                                      *)
Right(old, new, mv) ==
  /\ mv.full = FALSE /\ mv.from # mv.to
  /\ \A k \in Keys : InRange(mv, k) => ShardFor(old, k) = mv.from /\ ShardFor(new, k) = mv.to

(* The moves so far, for the keys below h: in order, right and complete.   *)
Moved(old, new, ms, h) ==
  /\ ms \in Seq(MoveType(old, new))
  /\ \A j \in 1..Len(ms) : /\ Right(old, new, ms[j])
                            /\ ms[j].low <= ms[j].high /\ ms[j].high <= h
  /\ \A i, j \in 1..Len(ms) : i < j => ms[i].high <= ms[j].low
  /\ \A k \in Keys : k < h /\ ShardFor(old, k) # ShardFor(new, k) =>
       \E j \in 1..Len(ms) : InRange(ms[j], k)

LEMMA EndsAre == \A h \in Keys \cup {NoHigh} : h \in Int
BY KeysAre

LEMMA MovedSkip ==
  ASSUME NEW old, NEW new, NEW ms, NEW x, x.low \in Keys, x.high \in Keys \cup {NoHigh},
         Moved(old, new, ms, x.low), x.low <= x.high,
         \A k \in Keys : InRange(x, k) => ShardFor(old, k) = ShardFor(new, k)
  PROVE  Moved(old, new, ms, x.high)
<1>1. ms \in Seq(MoveType(old, new)) BY DEF Moved
<1>2. x.low \in Int /\ x.high \in Int /\ \A k \in Keys : k \in Int BY EndsAre, KeysAre
<1>3. ASSUME NEW j \in 1..Len(ms) PROVE ms[j].high <= x.high
  <2>1. ms[j] \in MoveType(old, new) BY <1>1
  <2>2. ms[j].high \in Int BY <2>1, EndsAre DEF MoveType
  <2>3. ms[j].high <= x.low BY DEF Moved
  <2> QED BY <1>2, <2>2, <2>3
<1>4. ASSUME NEW k \in Keys, k < x.high, ShardFor(old, k) # ShardFor(new, k)
      PROVE  \E j \in 1..Len(ms) : InRange(ms[j], k)
  <2>1. ~(x.low <= k) BY <1>4 DEF InRange
  <2>2. k < x.low BY <1>2, <2>1
  <2> QED BY <1>4, <2>2 DEF Moved
<1> QED BY <1>1, <1>3, <1>4 DEF Moved

(* The interval extends the last move ...                                  *)
LEMMA MovedGrow ==
  ASSUME NEW old, NEW new, NEW ms, NEW x, x.low \in Keys, x.high \in Keys \cup {NoHigh},
         Moved(old, new, ms, x.low), x.low <= x.high, NEW n, n = Len(ms), n > 0,
         ms[n].high = x.low,
         \A k \in Keys : InRange(x, k) =>
           ShardFor(old, k) = ms[n].from /\ ShardFor(new, k) = ms[n].to
  PROVE  Moved(old, new, [ms EXCEPT ![n].high = x.high], x.high)
<1> DEFINE ns == [ms EXCEPT ![n].high = x.high]
           last == [ms[n] EXCEPT !.high = x.high]
<1>1. ms \in Seq(MoveType(old, new)) /\ n \in Nat /\ n \in 1..n BY DEF Moved
<1>2. x.low \in Int /\ x.high \in Int /\ \A k \in Keys : k \in Int BY EndsAre, KeysAre
<1>3. ms[n] \in MoveType(old, new) BY <1>1
<1>4. /\ last \in MoveType(old, new) /\ last.high = x.high /\ last.low = ms[n].low
      /\ last.from = ms[n].from /\ last.to = ms[n].to /\ last.full = ms[n].full
  BY <1>3 DEF MoveType
<1>5. ns = [ms EXCEPT ![n] = last] OBVIOUS
<1> HIDE DEF ns, last
<1>6. ns \in Seq(MoveType(old, new)) /\ Len(ns) = n BY <1>1, <1>4, <1>5
<1>7. ns[n] = last /\ \A j \in 1..n : j # n => ns[j] = ms[j] BY <1>1, <1>5
<1>8. Right(old, new, last)
  <2>1. Right(old, new, ms[n]) BY <1>1 DEF Moved
  <2>2. ASSUME NEW k \in Keys, InRange(last, k) PROVE InRange(ms[n], k) \/ InRange(x, k)
    <3>1. last.low \in Int BY <1>4, EndsAre DEF MoveType
    <3> QED BY <1>2, <1>4, <2>2, <3>1 DEF InRange
  <2> QED BY <1>4, <2>1, <2>2 DEF Right
<1>9. ASSUME NEW j \in 1..n
      PROVE  Right(old, new, ns[j]) /\ ns[j].low <= ns[j].high /\ ns[j].high <= x.high
  <2>1. ms[j] \in MoveType(old, new) BY <1>1
  <2>2. ms[j].low \in Int /\ ms[j].high \in Int BY <2>1, EndsAre DEF MoveType
  <2>3. /\ Right(old, new, ms[j]) /\ ms[j].low <= ms[j].high /\ ms[j].high <= x.low
    BY DEF Moved
  <2>4. CASE j = n
    <3>1. last.low <= x.high BY <1>2, <1>4, <2>2, <2>3, <2>4
    <3> QED BY <1>2, <1>4, <1>7, <1>8, <2>4, <3>1
  <2>5. CASE j # n BY <1>2, <1>7, <2>2, <2>3, <2>5
  <2> QED BY <2>4, <2>5
<1>10. ASSUME NEW i \in 1..n, NEW j \in 1..n, i < j PROVE ns[i].high <= ns[j].low
  <2>1. i # n BY <1>1, <1>10
  <2>2. ns[i].high = ms[i].high BY <1>7, <2>1
  <2>3. ns[j].low = ms[j].low BY <1>4, <1>7
  <2>4. ms[i].high <= ms[j].low BY <1>10 DEF Moved
  <2> QED BY <2>2, <2>3, <2>4
<1>11. ASSUME NEW k \in Keys, k < x.high, ShardFor(old, k) # ShardFor(new, k)
       PROVE  \E j \in 1..n : InRange(ns[j], k)
  <2>1. CASE k < x.low
    <3>1. PICK j \in 1..n : InRange(ms[j], k) BY <1>11, <2>1 DEF Moved
    <3>2. CASE j # n BY <1>7, <3>1, <3>2
    <3>3. CASE j = n
      <4>1. InRange(last, k) BY <1>4, <1>11, <3>1, <3>3 DEF InRange
      <4> QED BY <1>7, <3>3, <4>1
    <3> QED BY <3>2, <3>3
  <2>2. CASE ~(k < x.low)
    <3>1. x.low <= k BY <1>2, <2>2
    <3>2. last.low <= k
      <4>1. last.low <= x.low BY <1>1, <1>4 DEF Moved
      <4>2. last.low \in Int BY <1>4, EndsAre DEF MoveType
      <4> QED BY <1>2, <3>1, <4>1, <4>2
    <3>3. InRange(last, k) BY <1>4, <1>11, <3>2 DEF InRange
    <3> QED BY <1>1, <1>7, <3>3
  <2> QED BY <2>1, <2>2
<1> QED BY <1>6, <1>9, <1>10, <1>11 DEF Moved, ns

(* ... or is a move of its own.                                            *)
LEMMA MovedAppend ==
  ASSUME NEW old, NEW new, NEW ms, NEW mv \in MoveType(old, new), mv.low <= mv.high,
         Moved(old, new, ms, mv.low), Right(old, new, mv)
  PROVE  Moved(old, new, Append(ms, mv), mv.high)
<1> DEFINE ns == Append(ms, mv)
           n == Len(ms)
<1>1. ms \in Seq(MoveType(old, new)) /\ n \in Nat BY DEF Moved
<1>2. ns \in Seq(MoveType(old, new)) /\ Len(ns) = n + 1 BY <1>1
<1>3. ns[n + 1] = mv /\ \A j \in 1..n : ns[j] = ms[j] BY <1>1
<1>4. \A j \in 1..(n + 1) : j \in 1..n \/ j = n + 1 BY <1>1
<1>5. n + 1 \in 1..(n + 1) /\ \A j \in 1..n : j \in 1..(n + 1) BY <1>1
<1>6. mv.low \in Int /\ mv.high \in Int /\ \A k \in Keys : k \in Int
  BY EndsAre, KeysAre DEF MoveType
<1> HIDE DEF ns, n
<1>7. ASSUME NEW j \in 1..n
      PROVE  /\ Right(old, new, ms[j]) /\ ms[j].low <= ms[j].high /\ ms[j].high <= mv.low
             /\ ms[j].high <= mv.high
  <2>1. ms[j] \in MoveType(old, new) BY <1>1 DEF n
  <2>2. ms[j].high \in Int BY <2>1, EndsAre DEF MoveType
  <2>3. /\ Right(old, new, ms[j]) /\ ms[j].low <= ms[j].high /\ ms[j].high <= mv.low
    BY DEF Moved, n
  <2> QED BY <1>6, <2>2, <2>3
<1>8. ASSUME NEW j \in 1..(n + 1)
      PROVE  Right(old, new, ns[j]) /\ ns[j].low <= ns[j].high /\ ns[j].high <= mv.high
  <2>1. CASE j \in 1..n BY <1>3, <1>7, <2>1
  <2>2. CASE j = n + 1 BY <1>3, <1>6, <2>2
  <2> QED BY <1>4, <2>1, <2>2
<1>9. ASSUME NEW i \in 1..(n + 1), NEW j \in 1..(n + 1), i < j PROVE ns[i].high <= ns[j].low
  <2>1. i \in 1..n BY <1>1, <1>9
  <2>2. CASE j \in 1..n
    <3>1. ms[i].high <= ms[j].low BY <1>9, <2>1, <2>2 DEF Moved, n
    <3> QED BY <1>3, <2>1, <2>2, <3>1
  <2>3. CASE j = n + 1 BY <1>3, <1>7, <2>1, <2>3
  <2> QED BY <1>4, <2>2, <2>3
<1>10. ASSUME NEW k \in Keys, k < mv.high, ShardFor(old, k) # ShardFor(new, k)
       PROVE  \E j \in 1..(n + 1) : InRange(ns[j], k)
  <2>1. CASE k < mv.low
    <3>1. PICK j \in 1..n : InRange(ms[j], k) BY <1>10, <2>1 DEF Moved, n
    <3> QED BY <1>3, <1>5, <3>1
  <2>2. CASE ~(k < mv.low)
    <3>1. InRange(mv, k) BY <1>6, <1>10, <2>2 DEF InRange
    <3> QED BY <1>3, <1>5, <3>1
  <2> QED BY <2>1, <2>2
<1> QED BY <1>2, <1>8, <1>9, <1>10 DEF Moved, ns

LEMMA ExtendIs ==
  ASSUME NEW S \in SUBSET Keys, NEW i \in 1..(Cardinality(S) + 1), NEW old, NEW new,
         RangeCatalog(old, S), RangeCatalog(new, S), NEW ms, NEW x, x = Interval(S, i),
         Moved(old, new, ms, x.low)
  PROVE  Moved(old, new, Extend(old, new, ms, x), x.high)
<1> DEFINE from == old.shards[1 + PlanIndex(old.boundaries, x.key)]
           to   == new.shards[1 + PlanIndex(new.boundaries, x.key)]
           n    == Len(ms)
           mv   == [from |-> from, to |-> to, full |-> FALSE, low |-> x.low, high |-> x.high]
<1>1. /\ x.low \in Keys /\ x.high \in Keys \cup {NoHigh}
      /\ x.low < x.high \/ (x.low = MinKey /\ x.high = MinKey)
  BY IntervalIs
<1>2. /\ from \in ToSet(old.shards) /\ to \in ToSet(new.shards)
      /\ \A k \in Keys : InRange(x, k) => ShardFor(old, k) = from /\ ShardFor(new, k) = to
  BY StandsFor
<1>3. x.low \in Int /\ x.high \in Int /\ x.low <= x.high BY <1>1, EndsAre
<1>4. Extend(old, new, ms, x) =
        IF x.high = MinKey \/ from = to THEN ms
        ELSE IF n > 0 /\ ms[n].from = from /\ ms[n].to = to /\ ms[n].high = x.low
             THEN [ms EXCEPT ![n].high = x.high] ELSE Append(ms, mv)
  BY DEF Extend
<1> HIDE DEF from, to
<1>5. CASE x.high = MinKey \/ from = to
  <2>1. \A k \in Keys : InRange(x, k) => ShardFor(old, k) = ShardFor(new, k)
    <3>1. CASE from = to BY <1>2, <3>1
    <3>2. CASE x.high = MinKey
      <4>1. \A k \in Keys : ~(k < MinKey) BY KeysAre, KeysAssumption
      <4> QED BY <3>2, <4>1 DEF InRange
    <3> QED BY <1>5, <3>1, <3>2
  <2> QED BY <1>1, <1>3, <1>4, <1>5, <2>1, MovedSkip
<1>6. CASE /\ ~(x.high = MinKey \/ from = to)
           /\ n > 0 /\ ms[n].from = from /\ ms[n].to = to /\ ms[n].high = x.low
  <2> DEFINE ns == [ms EXCEPT ![n].high = x.high]
  <2>1. Extend(old, new, ms, x) = ns BY <1>4, <1>6
  <2>2. \A k \in Keys : InRange(x, k) =>
          ShardFor(old, k) = ms[n].from /\ ShardFor(new, k) = ms[n].to
    BY <1>2, <1>6
  <2>3. ms[n].high = x.low /\ n > 0 BY <1>6
  <2>4. Moved(old, new, ns, x.high) BY <1>1, <1>3, <2>2, <2>3, MovedGrow
  <2> HIDE DEF ns
  <2> QED BY <2>1, <2>4
<1>7. CASE /\ ~(x.high = MinKey \/ from = to)
           /\ ~(n > 0 /\ ms[n].from = from /\ ms[n].to = to /\ ms[n].high = x.low)
  <2>1. /\ mv \in MoveType(old, new) /\ mv.low = x.low /\ mv.high = x.high
        /\ mv.from = from /\ mv.to = to /\ mv.full = FALSE
    BY <1>1, <1>2 DEF MoveType
  <2> HIDE DEF mv, n
  <2>2. Right(old, new, mv) BY <1>2, <1>7, <2>1 DEF Right, InRange
  <2>3. Moved(old, new, Append(ms, mv), mv.high) BY <1>3, <2>1, <2>2, MovedAppend
  <2>4. Extend(old, new, ms, x) = Append(ms, mv) BY <1>4, <1>7
  <2> QED BY <2>1, <2>3, <2>4
<1> HIDE DEF n
<1> QED BY <1>5, <1>6, <1>7

(* The moves after each interval, as the recursive function of RangeMoves. *)
LoopOver(old, new, S, f, m) ==
  f = [i \in 0..m |-> IF i = 0 THEN <<>> ELSE Extend(old, new, f[i - 1], Interval(S, i))]

LEMMA LoopExists ==
  ASSUME NEW old, NEW new, NEW S, NEW n \in Nat
  PROVE  \E f : LoopOver(old, new, S, f, n)
<1> DEFINE T == {m \in Nat : \E f : LoopOver(old, new, S, f, m)}
<1>1. 0 \in T
  <2>1. LoopOver(old, new, S, [i \in 0..0 |-> <<>>], 0) BY DEF LoopOver
  <2> QED BY <2>1
<1>2. ASSUME NEW m \in T PROVE m + 1 \in T
  <2>1. PICK f : LoopOver(old, new, S, f, m) OBVIOUS
  <2> DEFINE e == Extend(old, new, f[m], Interval(S, m + 1))
             g == [i \in 0..m + 1 |-> IF i = m + 1 THEN e ELSE f[i]]
  <2>2. m \in Nat OBVIOUS
  <2>3. ASSUME NEW i \in 0..m + 1
        PROVE  g[i] = IF i = 0 THEN <<>> ELSE Extend(old, new, g[i - 1], Interval(S, i))
    <3>1. CASE i \in 0..m
      <4>1. f[i] = IF i = 0 THEN <<>> ELSE Extend(old, new, f[i - 1], Interval(S, i))
        BY <2>1, <3>1 DEF LoopOver
      <4>2. g[i] = f[i] BY <2>2, <3>1
      <4>3. i # 0 => g[i - 1] = f[i - 1] BY <2>2, <3>1
      <4> QED BY <4>1, <4>2, <4>3
    <3>2. CASE i = m + 1
      <4>1. i # 0 /\ i - 1 = m BY <2>2, <3>2
      <4>2. g[m] = f[m] /\ g[m + 1] = e BY <2>2
      <4> HIDE DEF g
      <4> QED BY <3>2, <4>1, <4>2
    <3> QED BY <2>2, <3>1, <3>2
  <2>4. DOMAIN g = 0..m + 1 /\ g = [i \in DOMAIN g |-> g[i]] OBVIOUS
  <2> HIDE DEF g
  <2>5. LoopOver(old, new, S, g, m + 1) BY <2>3, <2>4 DEF LoopOver
  <2> QED BY <2>2, <2>5
<1>3. T = Nat
  <2>1. T \in SUBSET Nat OBVIOUS
  <2> HIDE DEF T
  <2> QED BY <1>1, <1>2, <2>1, SetInduction
<1> QED BY <1>3

LEMMA LoopIs ==
  ASSUME NEW S \in SUBSET Keys, NEW old, NEW new, RangeCatalog(old, S), RangeCatalog(new, S),
         NEW f, NEW n, n = Cardinality(S) + 1, LoopOver(old, new, S, f, n)
  PROVE  Moved(old, new, f[n], NoHigh)
<1> DEFINE h(i) == IF i = 0 THEN MinKey ELSE Interval(S, i).high
           T == {i \in Nat : i <= n => Moved(old, new, f[i], h(i))}
<1>0. n \in Nat /\ n >= 1 /\ Cardinality(S) \in Nat BY KeysAre
<1>1. 0 \in T
  <2>1. f[0] = <<>> BY <1>0 DEF LoopOver
  <2>2. <<>> \in Seq(MoveType(old, new)) /\ Len(<<>>) = 0 OBVIOUS
  <2>3. \A k \in Keys : ~(k < MinKey) BY KeysAre, KeysAssumption
  <2>4. Moved(old, new, <<>>, MinKey)
    <3>1. 1..0 = {} OBVIOUS
    <3> QED BY <2>2, <2>3, <3>1 DEF Moved
  <2> QED BY <2>1, <2>4
<1>2. ASSUME NEW i \in T PROVE i + 1 \in T
  <2> SUFFICES ASSUME i + 1 <= n PROVE Moved(old, new, f[i + 1], h(i + 1)) OBVIOUS
  <2>1. i \in Nat /\ i <= n /\ i + 1 \in 0..n /\ i + 1 # 0 /\ (i + 1) - 1 = i
        /\ i + 1 \in 1..(Cardinality(S) + 1) /\ (i + 1 = 1 <=> i = 0)
    BY <1>0
  <2> DEFINE x == Interval(S, i + 1)
  <2>2. f[i + 1] = Extend(old, new, f[i], x) BY <2>1 DEF LoopOver
  <2>3. h(i) = x.low BY <2>1, IntervalIs
  <2>4. Moved(old, new, f[i], h(i)) BY <2>1
  <2>5. h(i + 1) = x.high BY <2>1
  <2> HIDE DEF h
  <2>6. Moved(old, new, Extend(old, new, f[i], x), x.high) BY <2>1, <2>3, <2>4, ExtendIs
  <2> QED BY <2>2, <2>5, <2>6
<1>3. T = Nat
  <2>1. T \in SUBSET Nat OBVIOUS
  <2> HIDE DEF T
  <2> QED BY <1>1, <1>2, <2>1, SetInduction
<1>4. Moved(old, new, f[n], h(n)) BY <1>0, <1>3
<1>5. h(n) = NoHigh BY <1>0, IntervalIs
<1> QED BY <1>4, <1>5

-----------------------------------------------------------------------------
(* A plan is exact.                                                        *)

LEMMA RangeMovesAre ==
  ASSUME NEW old, NEW new, Valid(old), Valid(new),
         old.algorithm = "range", new.algorithm = "range"
  PROVE  Moved(old, new, RangeMoves(old, new), NoHigh)
<1> DEFINE S == Boundaries(old, new)
           n == Cardinality(S) + 1
           moves == CHOOSE f : LoopOver(old, new, S, f, n)
<1>1. S \in SUBSET Keys
  BY DEF Valid, IsCatalog, Boundaries, ToSet
<1>2. RangeCatalog(old, S) /\ RangeCatalog(new, S)
  BY DEF Valid, IsCatalog, RangeCatalog, Boundaries
<1>3. n \in Nat BY <1>1, KeysAre
<1>4. RangeMoves(old, new) = moves[n] BY DEF RangeMoves, LoopOver
<1> HIDE DEF S, n
<1>5. LoopOver(old, new, S, moves, n)
  <2>1. \E f : LoopOver(old, new, S, f, n) BY <1>3, LoopExists
  <2> QED BY <2>1
<1> HIDE DEF moves
<1>6. Moved(old, new, moves[n], NoHigh) BY <1>1, <1>2, <1>5, LoopIs DEF n
<1> QED BY <1>4, <1>6

LEMMA RangePlanExact ==
  ASSUME NEW old, NEW new, NEW ms, Moved(old, new, ms, NoHigh)
  PROVE  ExactPlan(ms, old, new)
<1>1. ms \in Seq(MoveType(old, new)) /\ DOMAIN ms = 1..Len(ms) BY DEF Moved
<1>2. ToSet(ms) = {ms[j] : j \in 1..Len(ms)} BY <1>1 DEF ToSet
<1>3. ASSUME NEW k \in Keys, NEW mv \in Carriers(ms, old, new, k)
      PROVE  mv.to = ShardFor(new, k) /\ mv.to # mv.from
  <2>1. mv \in ToSet(ms) /\ InRange(mv, k) BY DEF Carriers
  <2>2. PICK j \in 1..Len(ms) : mv = ms[j] BY <1>2, <2>1
  <2>3. Right(old, new, mv) BY <2>2 DEF Moved
  <2> QED BY <2>1, <2>3 DEF Right
<1>4. ASSUME NEW k \in Keys, ShardFor(old, k) # ShardFor(new, k)
      PROVE  Cardinality(Carriers(ms, old, new, k)) = 1
  <2>1. k < NoHigh BY KeysAre
  <2>2. PICK j \in 1..Len(ms) : InRange(ms[j], k) BY <1>4, <2>1 DEF Moved
  <2>3. Right(old, new, ms[j]) BY DEF Moved
  <2>4. ms[j] \in Carriers(ms, old, new, k)
    <3>1. ms[j] \in ToSet(ms) BY <1>2
    <3> QED BY <2>2, <2>3, <3>1 DEF Carriers, Right, RoutesTo
  <2>5. ASSUME NEW mv \in Carriers(ms, old, new, k) PROVE mv = ms[j]
    <3>1. mv \in ToSet(ms) /\ InRange(mv, k) BY DEF Carriers
    <3>2. PICK i \in 1..Len(ms) : mv = ms[i] BY <1>2, <3>1
    <3>3. ms[i] \in MoveType(old, new) /\ ms[j] \in MoveType(old, new) BY <1>1
    <3>4. /\ ms[i].low \in Int /\ ms[i].high \in Int
          /\ ms[j].low \in Int /\ ms[j].high \in Int /\ k \in Int
      BY <3>3, EndsAre, KeysAre DEF MoveType
    <3>5. /\ ms[i].low <= k /\ k < ms[i].high /\ ms[j].low <= k /\ k < ms[j].high
      BY <2>2, <3>1, <3>2 DEF InRange
    <3>6. ~(i < j)
      <4>1. i < j => ms[i].high <= ms[j].low BY DEF Moved
      <4> QED BY <3>4, <3>5, <4>1
    <3>7. ~(j < i)
      <4>1. j < i => ms[j].high <= ms[i].low BY DEF Moved
      <4> QED BY <3>4, <3>5, <4>1
    <3>8. i = j BY <3>6, <3>7
    <3> QED BY <3>2, <3>8
  <2>6. Carriers(ms, old, new, k) = {ms[j]} BY <2>4, <2>5
  <2> QED BY <2>6, FS_Singleton
<1> QED BY <1>3, <1>4 DEF ExactPlan

(* A key belongs to one of the shards.                                     *)
LEMMA ShardForIs ==
  ASSUME NEW c, Valid(c), NEW k \in Keys
  PROVE  \E i \in 1..Len(c.shards) : ShardFor(c, k) = c.shards[i]
<1>1. c.shards \in Seq(ToSet(c.shards)) /\ c.shards # <<>> BY DEF Valid, IsCatalog
<1>2. Len(c.shards) \in Nat \ {0} BY <1>1
<1>3. CASE c.algorithm = "range"
  <2> DEFINE b == c.boundaries
             I == {j \in DOMAIN b : b[j] <= k}
  <2>1. b \in Seq(Keys) /\ Len(c.shards) = Len(b) + 1 BY <1>3 DEF Valid, IsCatalog
  <2>2. Len(b) \in Nat /\ I \subseteq 1..Len(b) BY <2>1
  <2>3. IsFiniteSet(1..Len(b)) /\ Cardinality(1..Len(b)) = Len(b) BY <2>2, FS_Interval
  <2>4. IsFiniteSet(I) /\ Cardinality(I) <= Len(b) BY <2>2, <2>3, FS_Subset
  <2>5. Cardinality(I) \in Nat BY <2>4, FS_CardinalityType
  <2>6. ShardFor(c, k) = c.shards[1 + Cardinality(I)] BY <1>3 DEF ShardFor, RangeIndex
  <2> HIDE DEF I
  <2>7. 1 + Cardinality(I) \in 1..Len(c.shards) BY <2>1, <2>2, <2>4, <2>5
  <2> QED BY <2>6, <2>7
<1>4. CASE c.algorithm # "range"
  <2>1. ShardFor(c, k) = c.shards[1 + (Hash[k] % Len(c.shards))] BY <1>4 DEF ShardFor
  <2>2. Hash[k] \in Nat BY HashAssumption
  <2>3. Hash[k] % Len(c.shards) \in 0..(Len(c.shards) - 1) BY <1>2, <2>2
  <2>4. 1 + (Hash[k] % Len(c.shards)) \in 1..Len(c.shards) BY <1>2, <2>3
  <2> QED BY <2>1, <2>4
<1> QED BY <1>3, <1>4

(* Every pair has its place in a list of rows.                             *)
Placed(m, n, a, b) ==
  \E i \in 1..(m * n) : 1 + ((i - 1) \div n) = a /\ 1 + ((i - 1) % n) = b

LEMMA RowByRow ==
  ASSUME NEW m \in Nat, NEW n \in Nat \ {0}, NEW a \in 1..m, NEW b \in 1..n
  PROVE  Placed(m, n, a, b)
<1> DEFINE q == a - 1
           r == b - 1
           i == (a - 1) * n + b
<1>1. q \in Nat /\ r \in 0..(n - 1) /\ q < m OBVIOUS
<1>2. i - 1 = q * n + r /\ i \in Int BY <1>1
<1> HIDE DEF q, r
<1>3. (q * n + r) \div n = q /\ (q * n + r) % n = r BY <1>1, SMTT(30)
<1>4. q * n \in Nat /\ m * n \in Nat BY <1>1
<1>5. q * n + r < m * n BY <1>1, SMTT(30)
<1>6. q * n + r \in Nat BY <1>1, <1>4
<1> HIDE DEF i
<1>7. i \in 1..(m * n) BY <1>2, <1>4, <1>5, <1>6
<1>8. 1 + ((i - 1) \div n) = a /\ 1 + ((i - 1) % n) = b BY <1>2, <1>3 DEF q, r
<1> QED BY <1>7, <1>8 DEF Placed

LEMMA FullPlanExact ==
  ASSUME NEW old, NEW new, Valid(old), Valid(new)
  PROVE  ExactPlan(FullCopyMoves(old, new), old, new)
<1> DEFINE m == Len(old.shards)
           n == Len(new.shards)
           ms == FullCopyMoves(old, new)
           copy(i) == [from |-> old.shards[1 + ((i - 1) \div n)],
                       to   |-> new.shards[1 + ((i - 1) % n)],
                       full |-> TRUE, low |-> MinKey, high |-> NoHigh]
<1>1. m \in Nat /\ n \in Nat \ {0}
  <2>1. /\ old.shards \in Seq(ToSet(old.shards)) /\ new.shards \in Seq(ToSet(new.shards))
        /\ new.shards # <<>>
    BY DEF Valid, IsCatalog
  <2> QED BY <2>1
<1>2. ms = [i \in 1..(m * n) |-> copy(i)] BY DEF FullCopyMoves
<1>3. ToSet(ms) = {copy(i) : i \in 1..(m * n)} BY <1>2 DEF ToSet
<1>4. ASSUME NEW mv \in ToSet(ms) PROVE mv.full = TRUE /\ mv.low = MinKey /\ mv.high = NoHigh
                                       /\ mv = [from |-> mv.from, to |-> mv.to, full |-> TRUE,
                                                low |-> MinKey, high |-> NoHigh]
  <2>1. PICK i \in 1..(m * n) : mv = copy(i) BY <1>3
  <2> QED BY <2>1
<1> HIDE DEF ms
<1>5. ASSUME NEW k \in Keys, NEW mv \in Carriers(ms, old, new, k)
      PROVE  mv.to = ShardFor(new, k) /\ mv.from = ShardFor(old, k) /\ mv.full
  BY <1>4 DEF Carriers, RoutesTo
<1>6. ASSUME NEW k \in Keys PROVE Cardinality(Carriers(ms, old, new, k)) = 1
  <2> DEFINE one == [from |-> ShardFor(old, k), to |-> ShardFor(new, k), full |-> TRUE,
                     low |-> MinKey, high |-> NoHigh]
  <2>1. PICK a \in 1..m : ShardFor(old, k) = old.shards[a] BY ShardForIs
  <2>2. PICK b \in 1..n : ShardFor(new, k) = new.shards[b] BY ShardForIs
  <2> HIDE DEF m, n
  <2>0. Placed(m, n, a, b) BY <1>1, RowByRow
  <2>3. PICK i \in 1..(m * n) : 1 + ((i - 1) \div n) = a /\ 1 + ((i - 1) % n) = b
    BY <2>0, Zenon DEF Placed
  <2>4. copy(i) = one BY <2>1, <2>2, <2>3
  <2>5. one \in ToSet(ms) BY <1>3, <2>3, <2>4
  <2>6. MinKey <= k /\ k < NoHigh BY KeysAre
  <2>7. one \in Carriers(ms, old, new, k) BY <2>5, <2>6 DEF Carriers, InRange, RoutesTo
  <2>8. ASSUME NEW mv \in Carriers(ms, old, new, k) PROVE mv = one
    BY <1>4, <1>5 DEF Carriers
  <2> HIDE DEF one
  <2>9. Carriers(ms, old, new, k) = {one} BY <2>7, <2>8
  <2> QED BY <2>9, FS_Singleton
<1> QED BY <1>5, <1>6 DEF ExactPlan, ms

(* ShardPlan::diff between any two valid catalogs carries every row that   *)
(* changes its shard in exactly one move, to where the new catalog routes  *)
(* it, and takes no other row anywhere, except for a full copy of a row    *)
(* onto its own shard (plan.rs:28-161).                                    *)
THEOREM PlanExact ==
  ASSUME NEW old, NEW new, Valid(old), Valid(new)
  PROVE  ExactPlan(Diff(old, new), old, new)
<1>1. CASE old.algorithm = "range" /\ new.algorithm = "range"
  <2>1. Moved(old, new, RangeMoves(old, new), NoHigh) BY <1>1, RangeMovesAre
  <2>2. ExactPlan(RangeMoves(old, new), old, new) BY <2>1, RangePlanExact
  <2> QED BY <1>1, <2>2 DEF Diff
<1>2. CASE /\ ~(old.algorithm = "range" /\ new.algorithm = "range")
           /\ old.algorithm = new.algorithm /\ old.shards = new.shards
  <2>1. \A k : ShardFor(old, k) = ShardFor(new, k) BY <1>2 DEF ShardFor
  <2>2. ToSet(<<>>) = {} BY DEF ToSet
  <2>3. \A k : Carriers(<<>>, old, new, k) = {} BY <2>2 DEF Carriers
  <2>4. ExactPlan(<<>>, old, new) BY <2>1, <2>3 DEF ExactPlan
  <2> QED BY <1>2, <2>4 DEF Diff
<1>3. CASE /\ ~(old.algorithm = "range" /\ new.algorithm = "range")
           /\ ~(old.algorithm = new.algorithm /\ old.shards = new.shards)
  BY <1>3, FullPlanExact DEF Diff
<1> QED BY <1>1, <1>2, <1>3

-----------------------------------------------------------------------------
(* The plan of a migration.                                                *)

(* A migration and its plan are fixed.                                     *)
Planned == setup \in Setups /\ plan = Diff(setup.old, setup.new)

LEMMA FixedStep == Next => UNCHANGED fixed
<1>1. ASSUME NEW o \in Ops, Step(o) PROVE UNCHANGED fixed
  BY <1>1 DEF Step, OpenMove, Reopen, CheckFence, ScanChunk, CopyRow, SaveChunk, EndBackfill,
     VerifyLoad, VerifySource, VerifyTarget, SaveVerified, Reload, SaveFinal
<1>2. ASSUME NEW o \in Ops,
             \/ Backfill(o) \/ StartVerify(o) \/ Cutover(o) \/ Rollback(o)
             \/ BackfillLost(o) \/ Fail(o) \/ Crash(o)
      PROVE  UNCHANGED fixed
  BY <1>2 DEF Backfill, StartVerify, Cutover, Rollback, BackfillLost, Fail, Crash
<1>3. ASSUME \/ \E k \in Keys : BindWrite(k)
             \/ WritePrimary \/ WriteMirror \/ MirrorFails \/ Lapse
      PROVE  UNCHANGED fixed
  BY <1>3 DEF BindWrite, WritePrimary, WriteMirror, MirrorFails, Lapse
<1> QED BY <1>1, <1>2, <1>3 DEF Next

LEMMA AlwaysPlanned == Spec => []Planned
<1>1. Init => Planned BY DEF Init, Planned
<1>2. Planned /\ [Next]_vars => Planned'
  <2>1. [Next]_vars => setup' = setup /\ plan' = plan BY FixedStep DEF vars, fixed
  <2> QED BY <2>1 DEF Planned
<1> QED BY <1>1, <1>2, PTL DEF Spec

(* The plan that a migration runs carries each row that changes its shard  *)
(* once, to where the new catalog routes it; so does every plan between    *)
(* valid catalogs (plan.rs:28-161, catalog.rs:195-219).                    *)
THEOREM PlanIsExactHolds == Spec => []PlanIsExact
<1>1. Planned => PlanIsExact
  <2> SUFFICES ASSUME Planned PROVE PlanIsExact OBVIOUS
  <2>1. Valid(setup.old) /\ Valid(setup.new) BY SetupsAssumption DEF Planned
  <2>2. ExactPlan(Diff(setup.old, setup.new), setup.old, setup.new) BY <2>1, PlanExact
  <2>3. AllPlansExact BY CatalogsAssumption, PlanExact DEF AllPlansExact
  <2> QED BY <2>2, <2>3 DEF PlanIsExact, Planned
<1> QED BY <1>1, AlwaysPlanned, PTL

-----------------------------------------------------------------------------
(* The fence of a backfill, and what is copied without it.                 *)

OfHolders(f) == DOMAIN f = Holders /\ f = [o \in Holders |-> f[o]]
Locals(U) == [move : U, job : U, batch : U, last : U, jobs : U, rows : U, sum : U]
IsLocal(l) == \E U : l \in Locals(U)
ProcTypes ==
  /\ LockTypeOK /\ OfHolders(pc) /\ late \in [Holders -> Nat]
  /\ OfHolders(loc) /\ \A o \in Holders : IsLocal(loc[o])

(* A backfill has the fence, or the fence ran out under it; and only a     *)
(* backfill has it.                                                        *)
Fenced ==
  /\ \A o \in Ops : InBackfill(o) => lock = o \/ o \in lapsed
  /\ \A o \in lapsed : o \in Ops /\ InBackfill(o) /\ lock # o
  /\ lock \in Holders => lock \in Ops /\ InBackfill(lock)

(* A backfill that lost its fence has copied rows of the chunk it had in   *)
(* memory, and has the rest of the chunk before it.                        *)
LateOf(p, b, n, gone) ==
  /\ n \in Nat /\ n <= ChunkSize /\ (gone \/ n = 0)
  /\ n > 0 => p \in {"copy", "check", "release"}
  /\ p = "copy" => /\ IsFiniteSet(b) /\ n + Cardinality(b) <= ChunkSize
                   /\ \A r \in b : r[1] \in Keys
Late == \A o \in Holders : LateOf(pc[o], loc[o].batch, late[o], o \in lapsed)

FInv == Planned /\ ProcTypes /\ Fenced /\ Late

LEMMA LocalIs == IsLocal(Local)
<1>1. Local \in Locals({1, NoJob, {}, MinKey - 1, <<>>, 0}) BY DEF Local, Locals
<1> QED BY <1>1 DEF IsLocal

(* The assignments to local variables.                                     *)
LEMMA LocalEdits ==
  ASSUME NEW l, IsLocal(l), NEW x, NEW y, NEW z
  PROVE  /\ IsLocal([l EXCEPT !.move = x]) /\ IsLocal([l EXCEPT !.job = x])
         /\ IsLocal([l EXCEPT !.jobs = x]) /\ IsLocal([l EXCEPT !.job = x, !.last = y])
         /\ IsLocal([l EXCEPT !.rows = x, !.sum = y]) /\ IsLocal([l EXCEPT !.last = x, !.batch = y])
         /\ IsLocal([l EXCEPT !.batch = x, !.rows = y, !.sum = z])
<1>1. PICK U : l \in Locals(U) BY DEF IsLocal
<1> DEFINE V == U \cup {x, y, z}
<1>2. [l EXCEPT !.move = x] \in Locals(V) BY <1>1 DEF Locals
<1>3. [l EXCEPT !.job = x] \in Locals(V) BY <1>1 DEF Locals
<1>4. [l EXCEPT !.jobs = x] \in Locals(V) BY <1>1 DEF Locals
<1>5. [l EXCEPT !.job = x, !.last = y] \in Locals(V) BY <1>1 DEF Locals
<1>6. [l EXCEPT !.rows = x, !.sum = y] \in Locals(V) BY <1>1 DEF Locals
<1>7. [l EXCEPT !.last = x, !.batch = y] \in Locals(V) BY <1>1 DEF Locals
<1>8. [l EXCEPT !.batch = x, !.rows = y, !.sum = z] \in Locals(V) BY <1>1 DEF Locals
<1> HIDE DEF V
<1> QED BY <1>2, <1>3, <1>4, <1>5, <1>6, <1>7, <1>8 DEF IsLocal

LEMMA LocalCopy ==
  ASSUME NEW l, IsLocal(l), NEW x
  PROVE  /\ IsLocal([l EXCEPT !.batch = @ \ {x}])
         /\ IsLocal([l EXCEPT !.batch = @ \ {x}, !.job.rows = @ + 1, !.job.sum = Xor(@, {x})])
         /\ [l EXCEPT !.batch = @ \ {x}, !.job.rows = @ + 1, !.job.sum = Xor(@, {x})].batch
              = l.batch \ {x}
<1>1. PICK U : l \in Locals(U) BY DEF IsLocal
<1> DEFINE j == [l.job EXCEPT !.rows = @ + 1, !.sum = Xor(@, {x})]
           V == U \cup {l.batch \ {x}, j}
<1>2. [l EXCEPT !.batch = @ \ {x}] \in Locals(V) BY <1>1 DEF Locals
<1>3. [l EXCEPT !.batch = @ \ {x}, !.job.rows = @ + 1, !.job.sum = Xor(@, {x})] \in Locals(V)
  BY <1>1 DEF Locals
<1>4. [l EXCEPT !.batch = @ \ {x}, !.job.rows = @ + 1, !.job.sum = Xor(@, {x})].batch = l.batch \ {x}
  BY <1>1 DEF Locals
<1> HIDE DEF V
<1> QED BY <1>2, <1>3, <1>4 DEF IsLocal

LEMMA FenceInit == Init => FInv
<1> SUFFICES ASSUME Init PROVE FInv OBVIOUS
<1>1. Planned BY DEF Init, Planned
<1>2. ProcTypes
  <2>1. LockTypeOK BY DEF Init, LockTypeOK
  <2>2. pc = [o \in Holders |-> "idle"] /\ loc = [o \in Holders |-> Local] BY DEF Init
  <2>3. OfHolders(pc) BY <2>2 DEF OfHolders
  <2>4. OfHolders(loc) BY <2>2 DEF OfHolders
  <2>5. late \in [Holders -> Nat] BY DEF Init
  <2>6. \A o \in Holders : IsLocal(loc[o]) BY <2>2, LocalIs
  <2> QED BY <2>1, <2>3, <2>4, <2>5, <2>6 DEF ProcTypes
<1>3. \A o \in Holders : pc[o] = "idle" /\ late[o] = 0 BY DEF Init
<1>4. lapsed = {} /\ lock = Free /\ lock \notin Holders BY HoldersAssumption DEF Init
<1>5. Ops \subseteq Holders BY <1>1, SetupsAssumption DEF Planned, Ops
<1>6. Fenced BY <1>3, <1>4, <1>5 DEF Fenced, InBackfill
<1>7. Late
  <2>1. 0 \in Nat /\ 0 <= ChunkSize /\ ~(0 > 0) BY ChunkAssumption
  <2> QED BY <1>3, <2>1 DEF Late, LateOf
<1> QED BY <1>1, <1>2, <1>6, <1>7 DEF FInv

(* A step of o leaves the other processes alone.                           *)
LEMMA FencedStep ==
  ASSUME FInv, Next PROVE Fenced'
<1>0. Ops \subseteq Holders /\ Ops' = Ops BY FixedStep, SetupsAssumption DEF FInv, Planned, Ops, fixed
<1>1. DOMAIN pc = Holders /\ pc = [o \in Holders |-> pc[o]] BY DEF FInv, ProcTypes, OfHolders
<1>2. /\ \A o \in Ops : InBackfill(o) => lock = o \/ o \in lapsed
      /\ \A o \in lapsed : o \in Ops /\ InBackfill(o) /\ lock # o
      /\ lock \in Holders => lock \in Ops /\ InBackfill(lock)
  BY DEF FInv, Fenced
(* The process stays in or out of backfill, and the fence as it is.        *)
<1>3. ASSUME NEW o \in Ops, InBackfill(o), UNCHANGED <<lock, lapsed>>,
             \E p \in {"open", "reopen", "check", "scan", "copy", "release"} :
               pc' = [pc EXCEPT ![o] = p]
      PROVE  Fenced'
  <2>1. \A q \in Holders : InBackfill(q)' <=> InBackfill(q)
    <3> SUFFICES ASSUME NEW q \in Holders PROVE InBackfill(q)' <=> InBackfill(q) OBVIOUS
    <3>1. CASE q = o BY <1>0, <1>1, <1>3, <3>1 DEF InBackfill
    <3>2. CASE q # o BY <1>0, <1>1, <1>3, <3>2 DEF InBackfill
    <3> QED BY <3>1, <3>2
  <2> QED BY <1>0, <1>2, <1>3, <2>1 DEF Fenced
<1>3a. ASSUME NEW o \in Ops, ~InBackfill(o), UNCHANGED <<lock, lapsed>>,
              \E p \in {"idle", "load", "source", "target", "verified", "reload", "done", "rolled_back"} :
                pc' = [pc EXCEPT ![o] = p]
       PROVE  Fenced'
  <2>1. \A q \in Holders : InBackfill(q)' <=> InBackfill(q)
    <3> SUFFICES ASSUME NEW q \in Holders PROVE InBackfill(q)' <=> InBackfill(q) OBVIOUS
    <3>1. CASE q = o BY <1>0, <1>1, <1>3a, <3>1 DEF InBackfill
    <3>2. CASE q # o BY <1>0, <1>1, <1>3a, <3>2 DEF InBackfill
    <3> QED BY <3>1, <3>2
  <2> QED BY <1>0, <1>2, <1>3a, <2>1 DEF Fenced
<1>4. ASSUME UNCHANGED <<pc, lock, lapsed>> PROVE Fenced'
  BY <1>0, <1>2, <1>4 DEF Fenced, InBackfill
(* The process ends, and gives its fence away.                             *)
<1>5. ASSUME NEW o \in Ops, pc' = [pc EXCEPT ![o] = "idle"], lapsed' = lapsed \ {o},
             \/ lock' = IF lock = o THEN Free ELSE lock
             \/ lock' = IF lock = o THEN Orphan ELSE lock
      PROVE  Fenced'
  <2>1. \A q \in Holders : q # o => (InBackfill(q)' <=> InBackfill(q))
    BY <1>1, <1>5 DEF InBackfill
  <2>2. ~InBackfill(o)' BY <1>0, <1>1, <1>5 DEF InBackfill
  <2>3. \A q \in Holders : q # o => (lock' = q <=> lock = q) BY <1>5, HoldersAssumption
  <2>4. lock' # o BY <1>0, <1>5, HoldersAssumption
  <2> QED BY <1>0, <1>2, <1>5, <2>1, <2>2, <2>3, <2>4 DEF Fenced
<1>6. ASSUME NEW o \in Ops, Step(o) PROVE Fenced'
  <2>1. CASE EndBackfill(o) BY <1>5, <2>1 DEF EndBackfill, Release, Forget, Return, To
  <2>2. CASE OpenMove(o)
    <3>1. InBackfill(o) BY <2>2 DEF OpenMove, InBackfill
    <3>2. \/ UNCHANGED pc
          \/ \E p \in {"release", "check", "reopen"} : pc' = [pc EXCEPT ![o] = p]
      <4>1. \A j : AfterOpen(j) \in {"check", "reopen"} BY DEF AfterOpen
      <4> QED BY <2>2, <4>1 DEF OpenMove, To
    <3>3. UNCHANGED <<lock, lapsed>> BY <2>2 DEF OpenMove, history
    <3> QED BY <1>3, <1>4, <3>1, <3>2, <3>3
  <2>3. CASE Reopen(o)
    <3>1. InBackfill(o) BY <2>3 DEF Reopen, InBackfill
    <3>2. pc' = [pc EXCEPT ![o] = "check"] BY <2>3 DEF Reopen, To
    <3>3. UNCHANGED <<lock, lapsed>> BY <2>3 DEF Reopen, history
    <3> QED BY <1>3, <3>1, <3>2, <3>3
  <2>4. CASE CheckFence(o)
    <3>1. InBackfill(o) BY <2>4 DEF CheckFence, InBackfill
    <3>2. \E p \in {"release", "scan"} : pc' = [pc EXCEPT ![o] = p] BY <2>4 DEF CheckFence, To
    <3>3. UNCHANGED <<lock, lapsed>> BY <2>4 DEF CheckFence, history
    <3> QED BY <1>3, <3>1, <3>2, <3>3
  <2>5. CASE ScanChunk(o)
    <3>1. InBackfill(o) BY <2>5 DEF ScanChunk, InBackfill
    <3>2. \E p \in {"open", "copy"} : pc' = [pc EXCEPT ![o] = p] BY <2>5 DEF ScanChunk, To
    <3>3. UNCHANGED <<lock, lapsed>> BY <2>5 DEF ScanChunk, history
    <3> QED BY <1>3, <3>1, <3>2, <3>3
  <2>6. CASE CopyRow(o) BY <1>4, <2>6 DEF CopyRow
  <2>7. CASE SaveChunk(o)
    <3>1. InBackfill(o) BY <2>7 DEF SaveChunk, InBackfill
    <3>2. pc' = [pc EXCEPT ![o] = "check"] BY <2>7 DEF SaveChunk, To
    <3>3. UNCHANGED <<lock, lapsed>> BY <2>7 DEF SaveChunk, history
    <3> QED BY <1>3, <3>1, <3>2, <3>3
  <2>8. ASSUME VerifyLoad(o) \/ VerifySource(o) \/ VerifyTarget(o) \/ SaveVerified(o)
               \/ Reload(o) \/ SaveFinal(o)
        PROVE  Fenced'
    <3>1. ~InBackfill(o)
      BY <2>8 DEF VerifyLoad, VerifySource, VerifyTarget, SaveVerified, Reload, SaveFinal, InBackfill
    <3>2. \/ UNCHANGED pc
          \/ \E p \in {"idle", "source", "target", "verified", "load", "done"} :
               pc' = [pc EXCEPT ![o] = p]
      BY <2>8 DEF VerifyLoad, VerifySource, VerifyTarget, SaveVerified, Reload, SaveFinal, To, Return
    <3>3. UNCHANGED <<lock, lapsed>>
      BY <2>8 DEF VerifyLoad, VerifySource, VerifyTarget, SaveVerified, Reload, SaveFinal, history
    <3> QED BY <1>3a, <1>4, <3>1, <3>2, <3>3
  <2> QED BY <1>6, <2>1, <2>2, <2>3, <2>4, <2>5, <2>6, <2>7, <2>8 DEF Step
<1>7. ASSUME NEW o \in Ops, StartVerify(o) \/ Cutover(o) \/ Rollback(o) PROVE Fenced'
  <2>1. ~InBackfill(o) BY <1>7 DEF StartVerify, Cutover, Rollback, InBackfill
  <2>2. \E p \in {"load", "reload", "rolled_back"} : pc' = [pc EXCEPT ![o] = p]
    BY <1>7 DEF StartVerify, Cutover, Rollback, To
  <2>3. UNCHANGED <<lock, lapsed>> BY <1>7 DEF StartVerify, Cutover, Rollback, history
  <2> QED BY <1>3a, <2>1, <2>2, <2>3
<1>8. ASSUME NEW o \in Ops, Backfill(o) PROVE Fenced'
  <2>1. /\ lock = Free /\ lock' = o /\ lapsed' = lapsed /\ pc[o] = "idle"
        /\ pc' = [pc EXCEPT ![o] = "open"]
    BY <1>8 DEF Backfill, Acquire, To, history
  <2>2. \A q \in Holders : q # o => (InBackfill(q)' <=> InBackfill(q))
    BY <1>1, <2>1 DEF InBackfill
  <2>3. InBackfill(o)' /\ ~InBackfill(o) BY <1>0, <1>1, <2>1 DEF InBackfill
  <2>4. \A q \in Holders : lock # q BY <2>1, HoldersAssumption
  <2> QED BY <1>0, <1>2, <2>1, <2>2, <2>3, <2>4 DEF Fenced
<1>9. ASSUME NEW o \in Ops, BackfillLost(o) PROVE Fenced'
  <2>1. lock = Free /\ lock' = Orphan /\ UNCHANGED <<pc, lapsed>>
    BY <1>9 DEF BackfillLost, AcquireLost, history
  <2>2. \A q \in Holders : lock # q /\ lock' # q BY <2>1, HoldersAssumption
  <2> QED BY <1>0, <1>2, <2>1, <2>2 DEF Fenced, InBackfill
<1>10. ASSUME NEW o \in Ops, Fail(o) PROVE Fenced'
  <2>1. UNCHANGED <<lock, lapsed>> BY <1>10 DEF Fail, history
  <2>2. \/ InBackfill(o) /\ pc' = [pc EXCEPT ![o] = "release"]
        \/ ~InBackfill(o) /\ pc' = [pc EXCEPT ![o] = "idle"]
    BY <1>10 DEF Fail, To, Return
  <2> QED BY <1>3, <1>3a, <2>1, <2>2
<1>11. ASSUME NEW o \in Ops, Crash(o) PROVE Fenced'
  BY <1>5, <1>11 DEF Crash, Forget, Return, To
<1>12. ASSUME \/ \E k \in Keys : BindWrite(k)
              \/ WritePrimary \/ WriteMirror \/ MirrorFails
       PROVE  Fenced'
  <2>1. UNCHANGED <<pc, lock, lapsed>>
    BY <1>12 DEF BindWrite, WritePrimary, WriteMirror, MirrorFails, history
  <2> QED BY <1>4, <2>1
<1>13. ASSUME Lapse PROVE Fenced'
  <2>1. lock' = Free /\ UNCHANGED pc BY <1>13 DEF Lapse, Expire
  <2>2. \A q \in Holders : lock' # q BY <2>1, HoldersAssumption
  <2>3. \/ lock = Orphan /\ lapsed' = lapsed
        \/ lock \in Ops /\ lapsed' = lapsed \cup {lock}
    BY <1>13 DEF Lapse
  <2>4. \A q \in Holders : InBackfill(q)' <=> InBackfill(q) BY <2>1 DEF InBackfill
  <2>5. CASE lock = Orphan /\ lapsed' = lapsed
    <3>1. \A q \in Holders : lock # q BY <2>5, HoldersAssumption
    <3> QED BY <1>0, <1>2, <2>2, <2>4, <2>5, <3>1 DEF Fenced
  <2>6. CASE lock \in Ops /\ lapsed' = lapsed \cup {lock}
    BY <1>0, <1>2, <2>2, <2>4, <2>6 DEF Fenced
  <2> QED BY <2>3, <2>5, <2>6
<1> QED BY <1>6, <1>7, <1>8, <1>9, <1>10, <1>11, <1>12, <1>13 DEF Next

LEMMA ProcTypesStep ==
  ASSUME FInv, Next PROVE ProcTypes'
<1>0. Ops \subseteq Holders BY SetupsAssumption DEF FInv, Planned, Ops
<1>1. /\ LockTypeOK /\ OfHolders(pc) /\ late \in [Holders -> Nat]
      /\ OfHolders(loc) /\ \A o \in Holders : IsLocal(loc[o])
  BY DEF FInv, ProcTypes
<1>2. LockTypeOK'
  <2>1. lock' \in Ops \cup {lock, Free, Orphan}
    <3>1. ASSUME NEW o \in Ops, Step(o) PROVE lock' \in Ops \cup {lock, Free, Orphan}
      BY <3>1 DEF Step, OpenMove, Reopen, CheckFence, ScanChunk, CopyRow, SaveChunk, EndBackfill,
         VerifyLoad, VerifySource, VerifyTarget, SaveVerified, Reload, SaveFinal, Release, Forget
    <3>2. ASSUME NEW o \in Ops,
                 \/ Backfill(o) \/ StartVerify(o) \/ Cutover(o) \/ Rollback(o)
                 \/ BackfillLost(o) \/ Fail(o) \/ Crash(o)
          PROVE  lock' \in Ops \cup {lock, Free, Orphan}
      BY <3>2 DEF Backfill, StartVerify, Cutover, Rollback, BackfillLost, Fail, Crash, Acquire,
         AcquireLost, Forget
    <3>3. ASSUME \/ \E k \in Keys : BindWrite(k)
                 \/ WritePrimary \/ WriteMirror \/ MirrorFails \/ Lapse
          PROVE  lock' \in Ops \cup {lock, Free, Orphan}
      BY <3>3 DEF BindWrite, WritePrimary, WriteMirror, MirrorFails, Lapse, Expire
    <3> QED BY <3>1, <3>2, <3>3 DEF Next
  <2> QED BY <1>0, <1>1, <2>1 DEF LockTypeOK
<1>3. OfHolders(pc)'
  <2>1. UNCHANGED pc \/ \E o \in Ops : \E p : To(o, p)
    <3>1. ASSUME NEW o \in Ops, Step(o) PROVE UNCHANGED pc \/ \E p : To(o, p)
      <4>1. CASE OpenMove(o) \/ CheckFence(o) \/ Reopen(o) BY <4>1 DEF OpenMove, CheckFence, Reopen
      <4>2. CASE ScanChunk(o) \/ CopyRow(o) \/ SaveChunk(o) \/ EndBackfill(o)
        BY <4>2 DEF ScanChunk, CopyRow, SaveChunk, EndBackfill, Return
      <4>3. CASE VerifyLoad(o) \/ VerifySource(o) \/ VerifyTarget(o) \/ SaveVerified(o)
                 \/ Reload(o) \/ SaveFinal(o)
        BY <4>3 DEF VerifyLoad, VerifySource, VerifyTarget, SaveVerified, Reload, SaveFinal, Return
      <4> QED BY <3>1, <4>1, <4>2, <4>3 DEF Step
    <3>2. ASSUME NEW o \in Ops,
                 \/ Backfill(o) \/ StartVerify(o) \/ Cutover(o) \/ Rollback(o)
                 \/ BackfillLost(o) \/ Fail(o) \/ Crash(o)
          PROVE  UNCHANGED pc \/ \E p : To(o, p)
      BY <3>2 DEF Backfill, StartVerify, Cutover, Rollback, BackfillLost, Fail, Crash, Return
    <3>3. ASSUME \/ \E k \in Keys : BindWrite(k)
                 \/ WritePrimary \/ WriteMirror \/ MirrorFails \/ Lapse
          PROVE  UNCHANGED pc
      BY <3>3 DEF BindWrite, WritePrimary, WriteMirror, MirrorFails, Lapse
    <3> QED BY <3>1, <3>2, <3>3 DEF Next
  <2>2. CASE UNCHANGED pc BY <1>1, <2>2 DEF OfHolders
  <2>3. ASSUME NEW o \in Ops, NEW p, To(o, p) PROVE OfHolders(pc)' BY <1>1, <2>3 DEF To, OfHolders
  <2> QED BY <2>1, <2>2, <2>3
<1>4. (OfHolders(loc) /\ \A o \in Holders : IsLocal(loc[o]))'
  <2>0. IsLocal(Local) /\ \A x : IsLocal([Local EXCEPT !.move = x]) BY LocalIs, LocalEdits
  <2>1. ASSUME NEW o \in Ops, Step(o) PROVE UNCHANGED loc \/ \E l : IsLocal(l) /\ Set(o, l)
    <3> DEFINE l == loc[o]
    <3>0. IsLocal(l) BY <1>0, <1>1
    <3>1. CASE OpenMove(o)
      <4>1. \A x : IsLocal([l EXCEPT !.move = x]) /\ IsLocal([l EXCEPT !.job = x])
        BY <3>0, LocalEdits, LocalCopy
      <4> QED BY <3>1, <4>1 DEF OpenMove
    <3>2. CASE Reopen(o)
      <4>1. \A x : IsLocal([l EXCEPT !.job = x]) BY <3>0, LocalEdits, LocalCopy
      <4> QED BY <3>2, <4>1 DEF Reopen
    <3>3. CASE ScanChunk(o)
      <4>1. \A x, y : IsLocal([l EXCEPT !.last = x, !.batch = y]) BY <3>0, LocalEdits, LocalCopy
      <4> QED BY <2>0, <3>3, <4>1 DEF ScanChunk
    <3>4. CASE CopyRow(o)
      <4>1. \A x : IsLocal([l EXCEPT !.batch = @ \ {x}, !.job.rows = @ + 1, !.job.sum = Xor(@, {x})])
        BY <3>0, LocalEdits, LocalCopy
      <4> QED BY <3>4, <4>1 DEF CopyRow
    <3>5. CASE SaveChunk(o)
      <4>1. \A x, y : IsLocal([l EXCEPT !.job = x, !.last = y]) BY <3>0, LocalEdits, LocalCopy
      <4> QED BY <3>5, <4>1 DEF SaveChunk
    <3>6. CASE EndBackfill(o) BY <2>0, <3>6 DEF EndBackfill, Return
    <3>7. CASE VerifyLoad(o)
      <4>1. \A x : IsLocal([l EXCEPT !.jobs = x]) BY <3>0, LocalEdits, LocalCopy
      <4> QED BY <2>0, <3>7, <4>1 DEF VerifyLoad, Return
    <3>8. CASE VerifySource(o)
      <4>1. \A x, y : IsLocal([l EXCEPT !.rows = x, !.sum = y]) BY <3>0, LocalEdits, LocalCopy
      <4> QED BY <3>8, <4>1 DEF VerifySource
    <3>9. CASE VerifyTarget(o)
      <4>1. \A x, y, z : IsLocal([l EXCEPT !.batch = x, !.rows = y, !.sum = z]) BY <3>0, LocalEdits, LocalCopy
      <4>2. Return(o) \/ Set(o, [l EXCEPT !.batch = Group(Targets[loc[o].move]), !.rows = 0, !.sum = {}])
        BY <3>9 DEF VerifyTarget
      <4> QED BY <2>0, <4>1, <4>2 DEF Return
    <3>10. CASE SaveVerified(o)
      <4>1. \A x : IsLocal([l EXCEPT !.batch = @ \ {x}]) BY <3>0, LocalEdits, LocalCopy
      <4>2. \/ Set(o, [Local EXCEPT !.move = l.move + 1])
            \/ Set(o, [l EXCEPT !.batch = @ \ {CHOOSE n \in l.batch : \A i \in l.batch : n <= i}])
        BY <3>10 DEF SaveVerified
      <4> QED BY <2>0, <4>1, <4>2
    <3>11. CASE SaveFinal(o)
      <4>1. \A x : IsLocal([l EXCEPT !.move = x]) /\ IsLocal([l EXCEPT !.job = x])
        BY <3>0, LocalEdits, LocalCopy
      <4> QED BY <2>0, <3>11, <4>1 DEF SaveFinal, Return
    <3>12. CASE CheckFence(o) \/ Reload(o) BY <3>12 DEF CheckFence, Reload
    <3> QED BY <2>1, <3>1, <3>2, <3>3, <3>4, <3>5, <3>6, <3>7, <3>8, <3>9, <3>10, <3>11, <3>12 DEF Step
  <2>2. ASSUME NEW o \in Ops,
               \/ Backfill(o) \/ StartVerify(o) \/ Cutover(o) \/ Rollback(o)
               \/ BackfillLost(o) \/ Fail(o) \/ Crash(o)
        PROVE  UNCHANGED loc \/ \E l : IsLocal(l) /\ Set(o, l)
    BY <2>0, <2>2 DEF Backfill, StartVerify, Cutover, Rollback, BackfillLost, Fail, Crash, Return
  <2>3. ASSUME \/ \E k \in Keys : BindWrite(k)
               \/ WritePrimary \/ WriteMirror \/ MirrorFails \/ Lapse
        PROVE  UNCHANGED loc
    BY <2>3 DEF BindWrite, WritePrimary, WriteMirror, MirrorFails, Lapse
  <2>4. UNCHANGED loc \/ \E o \in Ops : \E l : IsLocal(l) /\ Set(o, l)
    BY <2>1, <2>2, <2>3 DEF Next
  <2>5. CASE UNCHANGED loc BY <1>1, <2>5 DEF OfHolders
  <2>6. ASSUME NEW o \in Ops, NEW l, IsLocal(l), Set(o, l)
        PROVE  (OfHolders(loc) /\ \A q \in Holders : IsLocal(loc[q]))'
    <3>1. OfHolders(loc)' BY <1>1, <2>6 DEF Set, OfHolders
    <3>2. \A q \in Holders : loc'[q] = IF q = o THEN l ELSE loc[q] BY <1>1, <2>6 DEF Set, OfHolders
    <3> QED BY <1>1, <2>6, <3>1, <3>2
  <2> QED BY <2>4, <2>5, <2>6
<1>5. late' \in [Holders -> Nat]
  <2>1. UNCHANGED late \/ \E o \in Ops : late' = [late EXCEPT ![o] = 0]
                                         \/ late' = [late EXCEPT ![o] = @ + 1]
    <3>1. ASSUME NEW o \in Ops, Step(o)
          PROVE  UNCHANGED late \/ late' = [late EXCEPT ![o] = 0]
                                \/ late' = [late EXCEPT ![o] = @ + 1]
      <4>1. CASE CopyRow(o) BY <4>1 DEF CopyRow
      <4>2. CASE EndBackfill(o) BY <4>2 DEF EndBackfill
      <4>3. CASE ~CopyRow(o) /\ ~EndBackfill(o)
        BY <3>1, <4>3 DEF Step, OpenMove, Reopen, CheckFence, ScanChunk, SaveChunk,
           VerifyLoad, VerifySource, VerifyTarget, SaveVerified, Reload, SaveFinal, history
      <4> QED BY <4>1, <4>2, <4>3
    <3>2. ASSUME NEW o \in Ops,
                 \/ Backfill(o) \/ StartVerify(o) \/ Cutover(o) \/ Rollback(o)
                 \/ BackfillLost(o) \/ Fail(o) \/ Crash(o)
          PROVE  UNCHANGED late \/ late' = [late EXCEPT ![o] = 0]
      BY <3>2 DEF Backfill, StartVerify, Cutover, Rollback, BackfillLost, Fail, Crash, history
    <3>3. ASSUME \/ \E k \in Keys : BindWrite(k)
                 \/ WritePrimary \/ WriteMirror \/ MirrorFails \/ Lapse
          PROVE  UNCHANGED late
      BY <3>3 DEF BindWrite, WritePrimary, WriteMirror, MirrorFails, Lapse, history
    <3> QED BY <3>1, <3>2, <3>3 DEF Next
  <2> QED BY <1>1, <2>1
<1> QED BY <1>2, <1>3, <1>4, <1>5 DEF ProcTypes

(* A chunk has at most ChunkSize keys.                                     *)
LEMMA ChunkIs ==
  ASSUME NEW S \in SUBSET Keys, NEW C, C = {k \in S : Cardinality({j \in S : j < k}) < ChunkSize}
  PROVE  C \subseteq S /\ IsFiniteSet(C) /\ Cardinality(C) \in Nat /\ Cardinality(C) <= ChunkSize
<1>0. C \in SUBSET S /\ C \in SUBSET Keys OBVIOUS
<1>1. IsFiniteSet(C) /\ Cardinality(C) \in Nat /\ \A k \in S : k \in Int BY <1>0, KeysAre
<1>2. CASE C = {}
  <2>1. Cardinality(C) = 0 BY <1>2, FS_EmptySet
  <2> QED BY <1>0, <1>1, <2>1, ChunkAssumption
<1>3. CASE C # {}
  <2>1. PICK g \in C : \A y \in C : y <= g BY <1>0, <1>3, GreatestKey
  <2> DEFINE L == {j \in S : j < g}
  <2>2. L \in SUBSET Keys /\ Cardinality(L) < ChunkSize BY <2>1
  <2>3. g \notin L /\ C \subseteq L \cup {g}
    <3>1. g \in Int BY <1>0, <1>1, <2>1
    <3>2. ASSUME NEW c \in C PROVE c \in L \cup {g}
      <4>1. c \in Int /\ c \in S /\ c <= g BY <1>0, <1>1, <2>1
      <4> QED BY <3>1, <4>1
    <3>3. g \notin L BY <3>1
    <3> HIDE DEF L
    <3> QED BY <3>2, <3>3
  <2> HIDE DEF L
  <2>4. IsFiniteSet(L) /\ Cardinality(L) \in Nat BY <2>2, KeysAre
  <2>5. IsFiniteSet(L \cup {g}) /\ Cardinality(L \cup {g}) = Cardinality(L) + 1
    BY <2>3, <2>4, FS_AddElement
  <2>6. Cardinality(C) <= Cardinality(L \cup {g})
    <3>1. C \in SUBSET (L \cup {g}) BY <2>3
    <3> QED BY <2>5, <3>1, FS_Subset
  <2> QED BY <1>0, <1>1, <2>2, <2>4, <2>5, <2>6, ChunkAssumption
<1> QED BY <1>2, <1>3

Rows(C, f) == {<<k, f[k]>> : k \in C}

LEMMA RowsAre ==
  ASSUME NEW C \in SUBSET Keys, NEW f
  PROVE  /\ IsFiniteSet(Rows(C, f)) /\ Cardinality(Rows(C, f)) \in Nat
         /\ Cardinality(Rows(C, f)) <= Cardinality(C)
         /\ \A r \in Rows(C, f) : r[1] \in C
<1> DEFINE R == Rows(C, f)
           g == [k \in C |-> <<k, f[k]>>]
<1>1. \A k \in C : g[k] = <<k, f[k]>> /\ g[k] \in R BY DEF Rows
<1>2. \A r \in R : \E k \in C : r = <<k, f[k]>> BY DEF Rows
<1>3. \A r \in R : r[1] \in C BY <1>2
<1>4. g \in [C -> R] BY <1>1
<1>5. \A r \in R : \E k \in C : g[k] = r BY <1>1, <1>2
<1> HIDE DEF g, R
<1>6. g \in Surjection(C, R) BY <1>4, <1>5 DEF Surjection
<1>7. IsFiniteSet(C) BY KeysAre
<1>8. IsFiniteSet(R) /\ Cardinality(R) <= Cardinality(C) BY <1>6, <1>7, FS_Surjection
<1>9. Cardinality(R) \in Nat BY <1>8, FS_CardinalityType
<1> QED BY <1>3, <1>8, <1>9 DEF R

(* The first row of a batch is one of it.                                  *)
LEMMA FirstRow ==
  ASSUME NEW b, b # {}, \A r \in b : r[1] \in Keys
  PROVE  (CHOOSE r \in b : \A q \in b : r[1] <= q[1]) \in b
<1> DEFINE K == {r[1] : r \in b}
<1>1. K \in SUBSET Keys /\ K # {} OBVIOUS
<1>2. PICK m \in K : \A y \in K : m <= y BY <1>1, LeastKey
<1>3. PICK r \in b : m = r[1] OBVIOUS
<1>4. \A q \in b : r[1] <= q[1] BY <1>2, <1>3
<1> QED BY <1>4

LEMMA LateStep ==
  ASSUME FInv, Next PROVE Late'
<1>0. Ops \subseteq Holders BY SetupsAssumption DEF FInv, Planned, Ops
<1>1. /\ DOMAIN pc = Holders /\ pc = [o \in Holders |-> pc[o]]
      /\ DOMAIN loc = Holders /\ loc = [o \in Holders |-> loc[o]]
      /\ late \in [Holders -> Nat]
  BY DEF FInv, ProcTypes, OfHolders
<1>2. \A o \in Holders : LateOf(pc[o], loc[o].batch, late[o], o \in lapsed) BY DEF FInv, Late
<1>3. \A o \in lapsed : InBackfill(o) /\ lock # o BY DEF FInv, Fenced
(* The processes other than o are as they were.                            *)
<1>4. ASSUME NEW o \in Ops, UNCHANGED pc \/ \E p : To(o, p), UNCHANGED loc \/ \E l : Set(o, l),
             UNCHANGED late \/ \E n : late' = [late EXCEPT ![o] = n],
             UNCHANGED lapsed \/ lapsed' = lapsed \ {o},
             LateOf(pc[o], loc[o].batch, late[o], o \in lapsed)'
      PROVE  Late'
  <2>1. ASSUME NEW q \in Holders, q # o
        PROVE  /\ pc'[q] = pc[q] /\ loc'[q] = loc[q] /\ late'[q] = late[q]
               /\ q \in lapsed' <=> q \in lapsed
    <3>1. pc'[q] = pc[q] BY <1>1, <1>4, <2>1 DEF To
    <3>2. loc'[q] = loc[q] BY <1>1, <1>4, <2>1 DEF Set
    <3>3. late'[q] = late[q] BY <1>1, <1>4, <2>1
    <3>4. q \in lapsed' <=> q \in lapsed BY <1>4, <2>1
    <3> QED BY <3>1, <3>2, <3>3, <3>4
  <2>2. ASSUME NEW q \in Holders
        PROVE  LateOf(pc[q], loc[q].batch, late[q], q \in lapsed)'
    <3>1. CASE q = o BY <1>4, <3>1
    <3>2. CASE q # o
      <4>1. LateOf(pc[q], loc[q].batch, late[q], q \in lapsed) BY <1>2
      <4> QED BY <2>1, <3>2, <4>1 DEF LateOf
    <3> QED BY <3>1, <3>2
  <2> QED BY <2>2 DEF Late
(* Nothing is copied, and the process has no chunk afterwards.             *)
<1>5. ASSUME NEW o \in Ops, UNCHANGED pc \/ \E p : To(o, p), UNCHANGED loc \/ \E l : Set(o, l),
             UNCHANGED <<late, lapsed>>, pc'[o] # "copy",
             late[o] > 0 => pc'[o] \in {"check", "release"}
      PROVE  Late'
  <2>1. LateOf(pc[o], loc[o].batch, late[o], o \in lapsed) BY <1>0, <1>2
  <2>2. LateOf(pc[o], loc[o].batch, late[o], o \in lapsed)'
    BY <1>5, <2>1 DEF LateOf
  <2> QED BY <1>4, <1>5, <2>2
<1>6. ASSUME NEW o \in Ops, pc[o] \notin {"copy", "check", "release"} PROVE ~(late[o] > 0)
  BY <1>0, <1>2, <1>6 DEF LateOf
<1>7. ASSUME UNCHANGED <<pc, loc, late>>, \A o \in Holders : o \in lapsed => o \in lapsed'
      PROVE  Late'
  <2>1. ASSUME NEW o \in Holders PROVE LateOf(pc[o], loc[o].batch, late[o], o \in lapsed)'
    <3>1. LateOf(pc[o], loc[o].batch, late[o], o \in lapsed) BY <1>2
    <3> QED BY <1>7, <3>1 DEF LateOf
  <2> QED BY <2>1 DEF Late
(* The process ends.                                                       *)
<1>8. ASSUME NEW o \in Ops, Return(o), lapsed' = lapsed \ {o}, late' = [late EXCEPT ![o] = 0]
      PROVE  Late'
  <2>1. pc'[o] = "idle" /\ late'[o] = 0 BY <1>0, <1>1, <1>8 DEF Return, To
  <2>2. LateOf(pc[o], loc[o].batch, late[o], o \in lapsed)'
    BY <2>1, ChunkAssumption DEF LateOf
  <2> QED BY <1>4, <1>8, <2>2 DEF Return
<1>9. ASSUME NEW o \in Ops, Step(o) PROVE Late'
  <2>1. CASE OpenMove(o)
    <3>1. ~(late[o] > 0) /\ UNCHANGED <<late, lapsed>> BY <1>6, <2>1 DEF OpenMove, history
    <3>2. UNCHANGED pc \/ \E p \in {"release", "check", "reopen"} : To(o, p)
      <4>1. \A j : AfterOpen(j) \in {"check", "reopen"} BY DEF AfterOpen
      <4> QED BY <2>1, <4>1 DEF OpenMove
    <3>3. pc'[o] # "copy" BY <1>0, <1>1, <2>1, <3>2 DEF OpenMove, To
    <3>4. UNCHANGED loc \/ \E l : Set(o, l) BY <2>1 DEF OpenMove
    <3> QED BY <1>5, <3>1, <3>2, <3>3, <3>4
  <2>2. CASE Reopen(o)
    <3>1. ~(late[o] > 0) /\ UNCHANGED <<late, lapsed>> BY <1>6, <2>2 DEF Reopen, history
    <3>2. To(o, "check") /\ \E l : Set(o, l) BY <2>2 DEF Reopen
    <3>3. pc'[o] # "copy" BY <1>0, <1>1, <3>2 DEF To
    <3> QED BY <1>5, <3>1, <3>2, <3>3
  <2>3. CASE CheckFence(o)
    <3>1. UNCHANGED <<late, lapsed, loc>> BY <2>3 DEF CheckFence, history
    <3>2. \/ lock = o /\ To(o, "scan") 
          \/ lock # o /\ To(o, "release")
      BY <2>3 DEF CheckFence, Renews
    <3>3. pc'[o] # "copy" /\ (pc'[o] = "release" \/ lock = o) BY <1>0, <1>1, <3>2 DEF To
    <3>4. lock = o => ~(late[o] > 0)
      <4>1. LateOf(pc[o], loc[o].batch, late[o], o \in lapsed) BY <1>0, <1>2
      <4>2. lock = o => o \notin lapsed BY <1>3
      <4> QED BY <4>1, <4>2 DEF LateOf
    <3> QED BY <1>5, <3>1, <3>2, <3>3, <3>4
  <2>4. CASE ScanChunk(o)
    <3> DEFINE l == loc[o]
               mv == plan[l.move]
               keys == Chunk(mv.from, mv, l.job.cursor)
               C == {j \in keys : RoutesTo(setup.new, mv, j)}
               b == Rows(C, data[mv.from])
    <3>1. ~(late[o] > 0) /\ UNCHANGED <<late, lapsed>> BY <1>6, <2>4 DEF ScanChunk, history
    <3>2. CASE pc' = [pc EXCEPT ![o] = "open"]
      <4>1. To(o, "open") BY <3>2 DEF To
      <4>2. \E x : Set(o, x) BY <2>4 DEF ScanChunk
      <4>3. pc'[o] # "copy" BY <1>0, <1>1, <3>2
      <4> QED BY <1>5, <3>1, <4>1, <4>2, <4>3
    <3>3. CASE pc' # [pc EXCEPT ![o] = "open"]
      <4>1. To(o, "copy") /\ \E x : Set(o, [l EXCEPT !.last = x, !.batch = b])
        BY <2>4, <3>3 DEF ScanChunk, To, Rows
      <4>2. PICK x : Set(o, [l EXCEPT !.last = x, !.batch = b]) BY <4>1
      <4>3. loc'[o].batch = b /\ pc'[o] = "copy"
        <5>1. IsLocal(l) BY <1>0 DEF FInv, ProcTypes
        <5>2. \A y, z : [l EXCEPT !.last = y, !.batch = z].batch = z BY <5>1 DEF IsLocal, Locals
        <5>3. loc'[o] = [l EXCEPT !.last = x, !.batch = b] BY <1>0, <1>1, <4>2 DEF Set
        <5>4. pc'[o] = "copy" BY <1>0, <1>1, <4>1 DEF To
        <5> HIDE DEF b, l
        <5> QED BY <5>2, <5>3, <5>4
      <4>4. keys \subseteq Keys /\ IsFiniteSet(keys) /\ Cardinality(keys) \in Nat
            /\ Cardinality(keys) <= ChunkSize
        <5>1. Scan(mv.from, mv, l.job.cursor) \in SUBSET Keys BY DEF Scan
        <5> QED BY <5>1, ChunkIs DEF Chunk
      <4> HIDE DEF keys
      <4>5. C \in SUBSET keys /\ C \in SUBSET Keys BY <4>4
      <4>6. Cardinality(C) <= Cardinality(keys) /\ Cardinality(C) \in Nat BY <4>4, <4>5, FS_Subset, KeysAre
      <4> HIDE DEF C
      <4>7. IsFiniteSet(b) /\ Cardinality(b) \in Nat /\ Cardinality(b) <= Cardinality(C)
            /\ \A r \in b : r[1] \in C
        BY <4>5, RowsAre
      <4>8. Cardinality(b) <= ChunkSize BY <4>4, <4>6, <4>7, ChunkAssumption
      <4> HIDE DEF b
      <4>9. LateOf(pc[o], loc[o].batch, late[o], o \in lapsed)'
        <5>1. LateOf(pc[o], loc[o].batch, late[o], o \in lapsed) BY <1>0, <1>2
        <5>2. late'[o] = 0 BY <3>1, <5>1 DEF LateOf
        <5>3. 0 + Cardinality(b) <= ChunkSize BY <4>7, <4>8
        <5>4. \A r \in b : r[1] \in Keys BY <4>5, <4>7
        <5>5. 0 <= ChunkSize /\ ~(0 > 0) /\ 0 \in Nat BY ChunkAssumption
        <5>6. LateOf("copy", b, 0, o \in lapsed') BY <4>7, <5>3, <5>4, <5>5 DEF LateOf
        <5> QED BY <4>3, <5>2, <5>6
      <4> QED BY <1>4, <3>1, <4>1, <4>2, <4>9
    <3> QED BY <3>2, <3>3
  <2>5. CASE CopyRow(o)
    <3> DEFINE l == loc[o]
               b == l.batch
               row == CHOOSE r \in b : \A q \in b : r[1] <= q[1]
    <3>1. /\ pc[o] = "copy" /\ b # {} /\ UNCHANGED <<pc, lapsed>>
          /\ Set(o, [l EXCEPT !.batch = @ \ {row}, !.job.rows = @ + 1, !.job.sum = Xor(@, {row})])
          /\ late' = IF o \in lapsed THEN [late EXCEPT ![o] = @ + 1] ELSE late
      BY <2>5 DEF CopyRow
    <3>2. LateOf("copy", b, late[o], o \in lapsed) BY <1>0, <1>2, <3>1
    <3>3. row \in b BY <3>1, <3>2, FirstRow DEF LateOf
    <3>4. loc'[o].batch = b \ {row}
      <4>1. IsLocal(l) BY <1>0 DEF FInv, ProcTypes
      <4>2. \A y : [l EXCEPT !.batch = @ \ {y}, !.job.rows = @ + 1, !.job.sum = Xor(@, {y})].batch
                     = l.batch \ {y}
        BY <4>1, LocalCopy
      <4>3. loc'[o] = [l EXCEPT !.batch = @ \ {row}, !.job.rows = @ + 1, !.job.sum = Xor(@, {row})]
        BY <1>0, <1>1, <3>1 DEF Set
      <4> QED BY <4>2, <4>3
    <3> HIDE DEF row, b
    <3>5. IsFiniteSet(b) /\ late[o] \in Nat /\ late[o] + Cardinality(b) <= ChunkSize
          /\ (o \in lapsed \/ late[o] = 0) /\ \A r \in b : r[1] \in Keys
      BY <3>2 DEF LateOf
    <3>6. IsFiniteSet(b \ {row}) /\ Cardinality(b \ {row}) = Cardinality(b) - 1
          /\ Cardinality(b \ {row}) \in Nat /\ Cardinality(b) \in Nat
      BY <3>3, <3>5, FS_RemoveElement, FS_CardinalityType
    <3>7. CASE o \in lapsed
      <4>1. late'[o] = late[o] + 1 BY <1>0, <1>1, <3>1, <3>7
      <4>2. late[o] + 1 <= ChunkSize /\ (late[o] + 1) + Cardinality(b \ {row}) <= ChunkSize
            /\ late[o] + 1 \in Nat
        BY <3>5, <3>6, ChunkAssumption
      <4>3. LateOf("copy", b \ {row}, late[o] + 1, TRUE) BY <3>5, <3>6, <4>2 DEF LateOf
      <4>4. LateOf(pc[o], loc[o].batch, late[o], o \in lapsed)'
        BY <3>1, <3>4, <3>7, <4>1, <4>3 DEF LateOf
      <4>5. \E n : late' = [late EXCEPT ![o] = n] BY <3>1, <3>7
      <4>6. \E x : Set(o, x) BY <3>1
      <4> QED BY <1>4, <3>1, <4>4, <4>5, <4>6
    <3>8. CASE o \notin lapsed
      <4>1. late' = late BY <3>1, <3>8
      <4>2. late[o] <= ChunkSize /\ late[o] + Cardinality(b \ {row}) <= ChunkSize
        BY <3>5, <3>6, ChunkAssumption
      <4>3. LateOf("copy", b \ {row}, late[o], o \in lapsed) BY <3>5, <3>6, <4>2 DEF LateOf
      <4>4. LateOf(pc[o], loc[o].batch, late[o], o \in lapsed)'
        BY <3>1, <3>4, <4>1, <4>3 DEF LateOf
      <4>5. \E x : Set(o, x) BY <3>1
      <4> QED BY <1>4, <3>1, <4>1, <4>4, <4>5
    <3> QED BY <3>7, <3>8
  <2>6. CASE SaveChunk(o)
    <3>1. UNCHANGED <<late, lapsed>> BY <2>6 DEF SaveChunk, history
    <3>2. To(o, "check") /\ \E l : Set(o, l) BY <2>6 DEF SaveChunk
    <3>3. pc'[o] = "check" BY <1>0, <1>1, <3>2 DEF To
    <3> QED BY <1>5, <3>1, <3>2, <3>3
  <2>7. CASE EndBackfill(o) BY <1>8, <2>7 DEF EndBackfill
  <2>8. ASSUME VerifyLoad(o) \/ VerifySource(o) \/ VerifyTarget(o) \/ SaveVerified(o)
               \/ Reload(o) \/ SaveFinal(o)
        PROVE  Late'
    <3>1. pc[o] \notin {"copy", "check", "release"}
      BY <2>8 DEF VerifyLoad, VerifySource, VerifyTarget, SaveVerified, Reload, SaveFinal
    <3>2. UNCHANGED <<late, lapsed>>
      BY <2>8 DEF VerifyLoad, VerifySource, VerifyTarget, SaveVerified, Reload, SaveFinal, history
    <3>3. UNCHANGED pc
          \/ \E p \in {"idle", "source", "target", "verified", "load", "done"} : To(o, p)
      BY <2>8 DEF VerifyLoad, VerifySource, VerifyTarget, SaveVerified, Reload, SaveFinal, Return
    <3>4. pc'[o] # "copy" BY <1>0, <1>1, <3>1, <3>3 DEF To
    <3>5. UNCHANGED loc \/ \E l : Set(o, l)
      <4>1. CASE VerifyLoad(o) \/ Reload(o) \/ SaveFinal(o)
        BY <4>1 DEF VerifyLoad, Return, Reload, SaveFinal
      <4>2. CASE VerifySource(o) BY <4>2 DEF VerifySource
      <4>3. CASE VerifyTarget(o)
        <5>1. Return(o) \/ Set(o, [loc[o] EXCEPT !.batch = Group(Targets[loc[o].move]), !.rows = 0, !.sum = {}])
          BY <4>3 DEF VerifyTarget
        <5> QED BY <5>1 DEF Return
      <4>4. CASE SaveVerified(o)
        <5>1. \/ Set(o, [Local EXCEPT !.move = loc[o].move + 1])
              \/ Set(o, [loc[o] EXCEPT !.batch = @ \ {CHOOSE n \in loc[o].batch : \A i \in loc[o].batch : n <= i}])
          BY <4>4 DEF SaveVerified
        <5> QED BY <5>1
      <4> QED BY <2>8, <4>1, <4>2, <4>3, <4>4
    <3>6. ~(late[o] > 0) BY <1>6, <3>1
    <3> QED BY <1>5, <3>2, <3>3, <3>4, <3>5, <3>6
  <2> QED BY <1>9, <2>1, <2>2, <2>3, <2>4, <2>5, <2>6, <2>7, <2>8 DEF Step
<1>10. ASSUME NEW o \in Ops, Backfill(o) \/ StartVerify(o) \/ Cutover(o) \/ Rollback(o)
       PROVE  Late'
  <2>1. pc[o] \notin {"copy", "check", "release"} /\ UNCHANGED <<late, lapsed, loc>>
    BY <1>10 DEF Backfill, StartVerify, Cutover, Rollback, history
  <2>2. \E p \in {"open", "load", "reload", "rolled_back"} : To(o, p)
    BY <1>10 DEF Backfill, StartVerify, Cutover, Rollback
  <2>3. pc'[o] # "copy" BY <1>0, <1>1, <2>2 DEF To
  <2>4. ~(late[o] > 0) BY <1>6, <2>1
  <2> QED BY <1>5, <2>1, <2>2, <2>3, <2>4
<1>11. ASSUME NEW o \in Ops, BackfillLost(o) PROVE Late'
  BY <1>7, <1>11 DEF BackfillLost, history
<1>12. ASSUME NEW o \in Ops, Fail(o) PROVE Late'
  <2>1. UNCHANGED <<late, lapsed>> BY <1>12 DEF Fail, history
  <2>2. \/ To(o, "release")
        \/ ~InBackfill(o) /\ To(o, "idle")
    BY <1>12 DEF Fail, Return
  <2>3. \E l : Set(o, l) BY <1>12 DEF Fail, Return
  <2>4. pc'[o] # "copy" /\ (pc'[o] = "release" \/ ~InBackfill(o)) BY <1>0, <1>1, <2>2 DEF To
  <2>5. ~InBackfill(o) => ~(late[o] > 0) BY <1>6 DEF InBackfill
  <2> QED BY <1>5, <2>1, <2>2, <2>3, <2>4, <2>5
<1>13. ASSUME NEW o \in Ops, Crash(o) PROVE Late' BY <1>8, <1>13 DEF Crash
<1>14. ASSUME \/ \E k \in Keys : BindWrite(k)
              \/ WritePrimary \/ WriteMirror \/ MirrorFails \/ Lapse
       PROVE  Late'
  BY <1>7, <1>14 DEF BindWrite, WritePrimary, WriteMirror, MirrorFails, Lapse, history
<1> QED BY <1>9, <1>10, <1>11, <1>12, <1>13, <1>14 DEF Next

LEMMA AlwaysFenced == Spec => []FInv
<1>1. FInv /\ [Next]_vars => FInv'
  <2> SUFFICES ASSUME FInv, [Next]_vars PROVE FInv' OBVIOUS
  <2>1. CASE Next
    <3>1. setup' = setup /\ plan' = plan BY <2>1, FixedStep DEF fixed
    <3>2. Planned' BY <3>1 DEF FInv, Planned
    <3> QED BY <2>1, <3>2, ProcTypesStep, FencedStep, LateStep DEF FInv
  <2>2. CASE UNCHANGED vars
    BY <2>2 DEF vars, fixed, FInv, Planned, ProcTypes, OfHolders, LockTypeOK, Fenced, Late, InBackfill, Ops
  <2> QED BY <2>1, <2>2
<1> QED BY <1>1, FenceInit, PTL DEF Spec

(* Two backfills run at once only after a fence ran out under one of them, *)
(* and one whose fence ran out copies no more than the chunk it has in     *)
(* memory, whatever else happens (mod.rs:321-356, backfill.rs:56).         *)
THEOREM LateRowsBoundedHolds == Spec => []LateRowsBounded
<1>1. FInv => LateRowsBounded
  <2> SUFFICES ASSUME FInv PROVE LateRowsBounded OBVIOUS
  <2>1. Ops \subseteq Holders BY SetupsAssumption DEF FInv, Planned, Ops
  <2>2. \A o \in Ops : late[o] <= ChunkSize BY <2>1 DEF FInv, Late, LateOf
  <2>3. \A o, p \in Ops : o # p /\ InBackfill(o) /\ InBackfill(p) => {o, p} \cap lapsed # {}
    BY DEF FInv, Fenced
  <2> QED BY <2>2, <2>3 DEF LateRowsBounded
<1> QED BY <1>1, AlwaysFenced, PTL

-----------------------------------------------------------------------------
(* Types. The number of rows a job has counted is bounded by the keys up   *)
(* to its cursor, the number a copying backfill has counted by the keys up *)
(* to the end of its chunk.                                                *)

Versions(t) == 0..(1 + t.writes)
Phases == {"none", "pending", "backfilling", "verified", "done", "rolled_back"}
JobSet(t) ==
  [phase : Phases, cursor : (MinKey - 1)..MaxKey, rows : 0..Cardinality(Keys),
   sum : SUBSET (Keys \X Versions(t))]
Within(t) == {j \in JobSet(t) : j.rows <= (j.cursor - MinKey) + 1}

LocOK(p, l, t, n) ==
  /\ l.job \in JobSet(t) /\ (p # "copy" => l.job \in Within(t))
  /\ IsFiniteSet(l.batch) /\ Cardinality(l.batch) <= ChunkSize + n
  /\ p \in {"reopen", "check", "scan", "copy"} => l.move \in 1..n
  /\ p = "copy" => /\ l.batch \subseteq Keys \X Versions(t) /\ l.last \in Keys
                   /\ l.job.rows + Cardinality(l.batch) <= (l.last - MinKey) + 1
  /\ p \in {"source", "target", "verified"} => l.jobs \in [1..n -> Within(t)]

AppTypes ==
  /\ writes \in 0..setup.writes
  /\ latest \in [Keys -> 0..(1 + writes)] /\ behind \subseteq Keys
  /\ router \in {"old", "new"} /\ overlap \in BOOLEAN
  /\ \E U : app \in [pc : {"idle", "primary", "mirror"}, key : Keys, primary : U, mirror : U]
  /\ app.pc = "primary" => writes < setup.writes

RowTypes ==
  /\ data \in [Shards -> [Keys -> Versions(setup)]]
  /\ job \in [1..Len(plan) -> Within(setup)]
  /\ \A o \in Holders : LocOK(pc[o], loc[o], setup, Len(plan))

TInv == FInv /\ AppTypes /\ RowTypes

LEMMA KeyCount ==
  /\ Cardinality(Keys) = (MaxKey - MinKey) + 1 /\ Cardinality(Keys) \in Nat
  /\ \A k \in Keys : k \in Int /\ MinKey <= k /\ k <= MaxKey
<1>1. Cardinality(Keys) = (MaxKey - MinKey) + 1 BY KeysAssumption, FS_Interval DEF Keys
<1> QED BY <1>1, KeysAssumption DEF Keys

LEMMA JobEdits ==
  ASSUME NEW t
  PROVE  /\ NoJob \in Within(t) /\ Within(t) \subseteq JobSet(t)
         /\ \A j \in Within(t) : \A ph \in Phases : [j EXCEPT !.phase = ph] \in Within(t)
<1>1. NoJob \in JobSet(t)
  <2>1. 0 \in 0..Cardinality(Keys) BY KeyCount
  <2>2. MinKey - 1 \in (MinKey - 1)..MaxKey BY KeysAssumption
  <2> QED BY <2>1, <2>2 DEF NoJob, JobSet, Phases
<1>2. NoJob \in Within(t)
  <2>1. NoJob.rows = 0 /\ NoJob.cursor = MinKey - 1 BY DEF NoJob
  <2>2. 0 <= ((MinKey - 1) - MinKey) + 1 BY KeysAssumption
  <2> QED BY <1>1, <2>1, <2>2 DEF Within
<1>3. ASSUME NEW j \in Within(t), NEW ph \in Phases PROVE [j EXCEPT !.phase = ph] \in Within(t)
  <2>1. j \in JobSet(t) BY DEF Within
  <2> DEFINE i == [j EXCEPT !.phase = ph]
  <2>2. i \in JobSet(t) /\ i.rows = j.rows /\ i.cursor = j.cursor BY <2>1 DEF JobSet
  <2> HIDE DEF i
  <2>3. i \in Within(t) BY <2>2 DEF Within
  <2> QED BY <2>3 DEF i
<1>4. Within(t) \subseteq JobSet(t) BY DEF Within
<1> QED BY <1>2, <1>3, <1>4

LEMMA JobCopied ==
  ASSUME NEW t, NEW j \in JobSet(t), NEW last \in Keys, j.rows <= (last - MinKey) + 1
  PROVE  [j EXCEPT !.phase = "backfilling", !.cursor = last] \in Within(t)
<1> DEFINE i == [j EXCEPT !.phase = "backfilling", !.cursor = last]
<1>1. last \in (MinKey - 1)..MaxKey BY KeyCount, KeysAssumption
<1>2. i \in JobSet(t) /\ i.rows = j.rows /\ i.cursor = last BY <1>1 DEF JobSet, Phases
<1> HIDE DEF i
<1>3. i \in Within(t) BY <1>2 DEF Within
<1> QED BY <1>3 DEF i

Counted(j, row) == [j EXCEPT !.rows = @ + 1, !.sum = Xor(@, {row})]

LEMMA JobGrows ==
  ASSUME NEW t, NEW j \in JobSet(t), NEW row \in Keys \X Versions(t), j.rows + 1 <= Cardinality(Keys)
  PROVE  Counted(j, row) \in JobSet(t) /\ Counted(j, row).rows = j.rows + 1
<1>1. j.rows + 1 \in 0..Cardinality(Keys) BY KeyCount DEF JobSet
<1>2. Xor(j.sum, {row}) \in SUBSET (Keys \X Versions(t))
  <2>1. j.sum \in SUBSET (Keys \X Versions(t)) BY DEF JobSet
  <2> HIDE DEF Versions
  <2> QED BY <2>1, Zenon DEF Xor
<1> DEFINE x == Xor(j.sum, {row})
           P == SUBSET (Keys \X Versions(t))
<1>3. j \in [phase : Phases, cursor : (MinKey - 1)..MaxKey, rows : 0..Cardinality(Keys), sum : P]
  BY DEF JobSet
<1> HIDE DEF P
<1>4. x \in P BY <1>2 DEF P
<1>5. Counted(j, row) = [j EXCEPT !.rows = j.rows + 1, !.sum = x]
  BY <1>3 DEF Counted
<1> HIDE DEF x
<1>6. [j EXCEPT !.rows = j.rows + 1, !.sum = x] \in
        [phase : Phases, cursor : (MinKey - 1)..MaxKey, rows : 0..Cardinality(Keys), sum : P]
  BY <1>1, <1>3, <1>4
<1>7. [j EXCEPT !.rows = j.rows + 1, !.sum = x].rows = j.rows + 1 BY <1>3
<1> QED BY <1>5, <1>6, <1>7 DEF JobSet, P

LEMMA RowOf ==
  ASSUME NEW m \in Nat, NEW n \in Nat \ {0}, NEW i \in 1..(m * n)
  PROVE  1 + ((i - 1) \div n) \in 1..m /\ 1 + ((i - 1) % n) \in 1..n
<1> DEFINE q == (i - 1) \div n
           r == (i - 1) % n
<1>1. i - 1 \in Nat /\ m * n \in Int /\ i \in Int /\ i <= m * n OBVIOUS
<1>2. q \in Nat /\ r \in 0..(n - 1) /\ i - 1 = q * n + r BY <1>1, SMTT(30)
<1> HIDE DEF q, r
<1>3. q * n < m * n
  <2>1. q * n \in Int BY <1>2
  <2> QED BY <1>1, <1>2, <2>1
<1>4. q < m BY <1>2, <1>3, SMTT(30)
<1>5. 1 + q \in 1..m /\ 1 + r \in 1..n BY <1>2, <1>4
<1> QED BY <1>5 DEF q, r

LEMMA DiffIs ==
  ASSUME NEW old, NEW new, Valid(old), Valid(new)
  PROVE  Diff(old, new) \in Seq(MoveType(old, new))
<1>1. CASE old.algorithm = "range" /\ new.algorithm = "range"
  <2>1. Moved(old, new, RangeMoves(old, new), NoHigh) BY <1>1, RangeMovesAre
  <2> QED BY <1>1, <2>1 DEF Moved, Diff
<1>2. CASE /\ ~(old.algorithm = "range" /\ new.algorithm = "range")
           /\ old.algorithm = new.algorithm /\ old.shards = new.shards
  BY <1>2 DEF Diff
<1>3. CASE /\ ~(old.algorithm = "range" /\ new.algorithm = "range")
           /\ ~(old.algorithm = new.algorithm /\ old.shards = new.shards)
  <2> DEFINE m == Len(old.shards)
             n == Len(new.shards)
             copy(i) == [from |-> old.shards[1 + ((i - 1) \div n)],
                         to   |-> new.shards[1 + ((i - 1) % n)],
                         full |-> TRUE, low |-> MinKey, high |-> NoHigh]
             ms == [i \in 1..(m * n) |-> copy(i)]
  <2>1. /\ old.shards \in Seq(ToSet(old.shards)) /\ new.shards \in Seq(ToSet(new.shards))
        /\ new.shards # <<>>
    BY DEF Valid, IsCatalog
  <2>2. m \in Nat /\ n \in Nat \ {0} BY <2>1
  <2>3. Diff(old, new) = ms BY <1>3 DEF Diff, FullCopyMoves
  <2>4. \A a \in 1..m : old.shards[a] \in ToSet(old.shards) BY <2>1
  <2>5. \A b \in 1..n : new.shards[b] \in ToSet(new.shards) BY <2>1
  <2> HIDE DEF m, n
  <2>6. ASSUME NEW i \in 1..(m * n) PROVE copy(i) \in MoveType(old, new)
    <3> DEFINE a == 1 + ((i - 1) \div n)
               b == 1 + ((i - 1) % n)
    <3>1. a \in 1..m /\ b \in 1..n BY <2>2, RowOf
    <3> HIDE DEF a, b
    <3>2. old.shards[a] \in ToSet(old.shards) /\ new.shards[b] \in ToSet(new.shards)
      BY <2>4, <2>5, <3>1
    <3>3. [from |-> old.shards[a], to |-> new.shards[b], full |-> TRUE, low |-> MinKey,
           high |-> NoHigh] \in MoveType(old, new)
      BY <3>2, KeysAre DEF MoveType
    <3> QED BY <3>3 DEF a, b
  <2> HIDE DEF copy
  <2>7. ms \in [1..(m * n) -> MoveType(old, new)] BY <2>6
  <2>8. m * n \in Nat BY <2>2
  <2> HIDE DEF ms
  <2>9. ms \in Seq(MoveType(old, new)) BY <2>7, <2>8
  <2> QED BY <2>3, <2>9
<1> QED BY <1>1, <1>2, <1>3

(* The moves of a plan are numbered, and start on shards that there are.   *)
LEMMA PlanIs ==
  ASSUME Planned
  PROVE  /\ Len(plan) \in Nat /\ MoveIds = 1..Len(plan)
         /\ \A m \in 1..Len(plan) : plan[m].from \in Shards
         /\ Ops \subseteq Holders /\ setup.writes \in Nat
<1>1. /\ setup \in Setups /\ Valid(setup.old) /\ Valid(setup.new) /\ setup.writes \in Nat
      /\ Ops \subseteq Holders
  BY SetupsAssumption DEF Planned, Ops
<1>2. plan \in Seq(MoveType(setup.old, setup.new)) BY <1>1, DiffIs DEF Planned
<1>3. ASSUME NEW m \in 1..Len(plan) PROVE plan[m].from \in Shards
  <2>1. plan[m] \in MoveType(setup.old, setup.new) BY <1>2
  <2>2. plan[m].from \in ToSet(setup.old.shards) BY <2>1 DEF MoveType
  <2> QED BY <1>1, <2>2 DEF Shards
<1> QED BY <1>1, <1>2, <1>3 DEF MoveIds

LEMMA TypesInit == Init => TInv
<1> SUFFICES ASSUME Init PROVE TInv OBVIOUS
<1>1. FInv BY FenceInit
<1>2. /\ Len(plan) \in Nat /\ MoveIds = 1..Len(plan) /\ setup.writes \in Nat
  BY <1>1, PlanIs DEF FInv
<1>3. AppTypes
  <2>1. writes = 0 /\ 0 \in 0..setup.writes BY <1>2 DEF Init
  <2>2. latest \in [Keys -> 0..(1 + writes)]
    <3>1. 0 \in 0..(1 + 0) /\ 1 \in 0..(1 + 0) OBVIOUS
    <3> QED BY <2>1, <3>1 DEF Init
  <2>3. app \in [pc : {"idle", "primary", "mirror"}, key : Keys, primary : {""}, mirror : {""}]
    BY KeysAre DEF Init, NoWrite
  <2>4. app.pc = "idle" BY DEF Init, NoWrite
  <2>5. behind = {} /\ router = "old" /\ overlap = FALSE BY DEF Init
  <2> QED BY <2>1, <2>2, <2>3, <2>4, <2>5 DEF AppTypes
<1>4. RowTypes
  <2>1. 0 \in Versions(setup) /\ 1 \in Versions(setup) BY <1>2 DEF Versions
  <2>2. data \in [Shards -> [Keys -> Versions(setup)]]
    <3>1. \A s \in Shards, k \in Keys :
            (IF k \in InitKeys /\ ShardFor(setup.old, k) = s THEN 1 ELSE 0) \in Versions(setup)
      BY <2>1
    <3> QED BY <3>1 DEF Init
  <2>3. job \in [1..Len(plan) -> Within(setup)]
    <3>1. NoJob \in Within(setup) BY JobEdits
    <3>2. job = [m \in 1..Len(plan) |-> NoJob] BY <1>2 DEF Init
    <3> QED BY <3>1, <3>2
  <2>4. LocOK("idle", Local, setup, Len(plan))
    <3>1. NoJob \in Within(setup) /\ NoJob \in JobSet(setup) BY JobEdits
    <3>2. Local.job = NoJob /\ Local.batch = {} BY DEF Local
    <3>3. IsFiniteSet({}) /\ Cardinality({}) = 0 BY FS_EmptySet
    <3>4. 0 <= ChunkSize + Len(plan) BY <1>2, ChunkAssumption
    <3> QED BY <3>1, <3>2, <3>3, <3>4 DEF LocOK
  <2>5. \A o \in Holders : pc[o] = "idle" /\ loc[o] = Local BY DEF Init
  <2> QED BY <2>2, <2>3, <2>4, <2>5 DEF RowTypes
<1> QED BY <1>1, <1>3, <1>4 DEF TInv

LEMMA AppStep ==
  ASSUME TInv, Next PROVE AppTypes'
<1>1. /\ writes \in 0..setup.writes /\ setup.writes \in Nat /\ setup' = setup
      /\ latest \in [Keys -> 0..(1 + writes)] /\ behind \subseteq Keys
      /\ router \in {"old", "new"} /\ overlap \in BOOLEAN
      /\ app.pc = "primary" => writes < setup.writes
  BY FixedStep, PlanIs DEF TInv, FInv, AppTypes, fixed
<1>2. PICK U : app \in [pc : {"idle", "primary", "mirror"}, key : Keys, primary : U, mirror : U]
  BY DEF TInv, AppTypes
<1>3. ASSUME UNCHANGED <<writes, latest, app>>,
             behind' = behind, router' \in {"old", "new"}, overlap' \in BOOLEAN
      PROVE  AppTypes'
  <2>1. (writes \in 0..setup.writes /\ latest \in [Keys -> 0..(1 + writes)] /\ behind \subseteq Keys)'
    BY <1>1, <1>3
  <2>2. (app.pc = "primary" => writes < setup.writes)' BY <1>1, <1>3
  <2>3. app' \in [pc : {"idle", "primary", "mirror"}, key : Keys, primary : U, mirror : U]
    BY <1>2, <1>3
  <2> QED BY <1>3, <2>1, <2>2, <2>3 DEF AppTypes
<1>4. ASSUME NEW o \in Ops, Step(o) PROVE AppTypes'
  <2>1. UNCHANGED <<writes, latest, app, behind>>
    BY <1>4 DEF Step, OpenMove, Reopen, CheckFence, ScanChunk, CopyRow, SaveChunk, EndBackfill,
       VerifyLoad, VerifySource, VerifyTarget, SaveVerified, Reload, SaveFinal, history, counts
  <2>2. router' \in {"old", "new"}
    BY <1>1, <1>4 DEF Step, OpenMove, Reopen, CheckFence, ScanChunk, CopyRow, SaveChunk, EndBackfill,
       VerifyLoad, VerifySource, VerifyTarget, SaveVerified, Reload, SaveFinal
  <2>3. overlap' \in BOOLEAN
    <3>1. CASE CopyRow(o)
      <4>1. overlap' = (overlap \/ ~Alone(o)) BY <3>1 DEF CopyRow
      <4> QED BY <4>1
    <3>2. CASE ~CopyRow(o)
      BY <1>1, <1>4, <3>2 DEF Step, OpenMove, Reopen, CheckFence, ScanChunk, SaveChunk, EndBackfill,
         VerifyLoad, VerifySource, VerifyTarget, SaveVerified, Reload, SaveFinal, history
    <3> QED BY <3>1, <3>2
  <2> QED BY <1>3, <2>1, <2>2, <2>3
<1>5. ASSUME NEW o \in Ops,
             \/ Backfill(o) \/ StartVerify(o) \/ Cutover(o) \/ Rollback(o)
             \/ BackfillLost(o) \/ Fail(o) \/ Crash(o)
      PROVE  AppTypes'
  <2>1. UNCHANGED <<writes, latest, app, behind, overlap>>
    BY <1>5 DEF Backfill, StartVerify, Cutover, Rollback, BackfillLost, Fail, Crash, history, counts
  <2>2. router' \in {"old", "new"}
    BY <1>1, <1>5 DEF Backfill, StartVerify, Cutover, Rollback, BackfillLost, Fail, Crash
  <2> QED BY <1>1, <1>3, <2>1, <2>2
<1>6. ASSUME NEW k \in Keys, BindWrite(k) PROVE AppTypes'
  <2> DEFINE a == IF router = "old" THEN ShardFor(setup.old, k) ELSE ShardFor(setup.new, k)
             b == IF router = "old" THEN ShardFor(setup.new, k) ELSE ShardFor(setup.old, k)
  <2>1. /\ app' = [pc |-> "primary", key |-> k, primary |-> a, mirror |-> b]
        /\ writes < setup.writes
        /\ UNCHANGED <<writes, latest, behind, router, overlap>>
    BY <1>6 DEF BindWrite, history, counts
  <2> HIDE DEF a, b
  <2>2. app' \in [pc : {"idle", "primary", "mirror"}, key : Keys, primary : {a, b}, mirror : {a, b}]
    BY <2>1
  <2>3. (writes \in 0..setup.writes /\ latest \in [Keys -> 0..(1 + writes)] /\ behind \subseteq Keys)'
    BY <1>1, <2>1
  <2>4. (app.pc = "primary" => writes < setup.writes)' BY <1>1, <2>1
  <2>5. (router \in {"old", "new"} /\ overlap \in BOOLEAN)' BY <1>1, <2>1
  <2> QED BY <2>2, <2>3, <2>4, <2>5 DEF AppTypes
<1>7. NoWrite \in [pc : {"idle", "primary", "mirror"}, key : Keys, primary : {""}, mirror : {""}]
      /\ NoWrite.pc = "idle"
  BY KeysAre DEF NoWrite
<1>8. CASE WritePrimary
  <2>1. /\ app.pc = "primary" /\ latest' = [latest EXCEPT ![app.key] = @ + 1] /\ writes' = writes + 1
        /\ app' = NoWrite \/ app' = [app EXCEPT !.pc = "mirror"]
        /\ UNCHANGED <<behind, router, overlap>>
    BY <1>8 DEF WritePrimary
  <2>2. writes' \in 0..setup.writes BY <1>1, <2>1
  <2>3. latest' \in [Keys -> 0..(1 + writes')]
    <3>1. \A k \in Keys : latest[k] \in 0..(1 + (writes + 1)) /\ latest[k] + 1 \in 0..(1 + (writes + 1))
      BY <1>1
    <3> QED BY <1>1, <2>1, <3>1
  <2>4. \E V : app' \in [pc : {"idle", "primary", "mirror"}, key : Keys, primary : V, mirror : V]
    <3>1. CASE app' = NoWrite BY <1>7, <3>1
    <3>2. CASE app' = [app EXCEPT !.pc = "mirror"]
      <4>1. app' \in [pc : {"idle", "primary", "mirror"}, key : Keys, primary : U, mirror : U]
        BY <1>2, <3>2
      <4> QED BY <4>1
    <3> QED BY <2>1, <3>1, <3>2
  <2>5. app'.pc # "primary" BY <1>2, <1>7, <2>1
  <2>6. (router \in {"old", "new"} /\ overlap \in BOOLEAN /\ behind \subseteq Keys)' BY <1>1, <2>1
  <2> QED BY <1>1, <2>2, <2>3, <2>4, <2>5, <2>6 DEF AppTypes
<1>9. CASE WriteMirror \/ MirrorFails
  <2>1. app' = NoWrite /\ UNCHANGED <<writes, latest, router, overlap>>
    BY <1>9 DEF WriteMirror, MirrorFails, history, counts
  <2>2. behind' \subseteq Keys
    <3>1. app.key \in Keys BY <1>2
    <3> QED BY <1>1, <1>9, <3>1 DEF WriteMirror, MirrorFails, history
  <2>3. (writes \in 0..setup.writes /\ latest \in [Keys -> 0..(1 + writes)])' BY <1>1, <2>1
  <2>4. (router \in {"old", "new"} /\ overlap \in BOOLEAN)' BY <1>1, <2>1
  <2>5. (app.pc = "primary" => writes < setup.writes)' BY <1>7, <2>1
  <2>6. app' \in [pc : {"idle", "primary", "mirror"}, key : Keys, primary : {""}, mirror : {""}]
    BY <1>7, <2>1
  <2> QED BY <2>2, <2>3, <2>4, <2>5, <2>6 DEF AppTypes
<1>10. CASE Lapse
  <2>1. UNCHANGED <<writes, latest, app, behind, router, overlap>> BY <1>10 DEF Lapse
  <2> QED BY <1>1, <1>3, <2>1
<1> QED BY <1>4, <1>5, <1>6, <1>8, <1>9, <1>10 DEF Next

LEMMA LocalFields ==
  ASSUME NEW l, IsLocal(l), NEW x, NEW y, NEW z
  PROVE  /\ [l EXCEPT !.move = x].job = l.job /\ [l EXCEPT !.move = x].batch = l.batch
         /\ [l EXCEPT !.job = x].job = x /\ [l EXCEPT !.job = x].batch = l.batch
         /\ [l EXCEPT !.job = x].move = l.move
         /\ [l EXCEPT !.job = x, !.last = y].job = x /\ [l EXCEPT !.job = x, !.last = y].batch = l.batch
         /\ [l EXCEPT !.job = x, !.last = y].move = l.move
         /\ [l EXCEPT !.jobs = x].job = l.job /\ [l EXCEPT !.jobs = x].batch = l.batch
         /\ [l EXCEPT !.jobs = x].jobs = x
         /\ [l EXCEPT !.rows = x, !.sum = y].job = l.job
         /\ [l EXCEPT !.rows = x, !.sum = y].batch = l.batch
         /\ [l EXCEPT !.rows = x, !.sum = y].jobs = l.jobs
         /\ [l EXCEPT !.batch = x, !.rows = y, !.sum = z].job = l.job
         /\ [l EXCEPT !.batch = x, !.rows = y, !.sum = z].batch = x
         /\ [l EXCEPT !.batch = x, !.rows = y, !.sum = z].jobs = l.jobs
         /\ [l EXCEPT !.last = x, !.batch = y].job = l.job
         /\ [l EXCEPT !.last = x, !.batch = y].move = l.move
         /\ [l EXCEPT !.last = x, !.batch = y].batch = y /\ [l EXCEPT !.last = x, !.batch = y].last = x
         /\ [l EXCEPT !.batch = @ \ {x}].job = l.job /\ [l EXCEPT !.batch = @ \ {x}].jobs = l.jobs
         /\ [l EXCEPT !.batch = @ \ {x}].batch = l.batch \ {x}
<1>1. PICK U : l \in Locals(U) BY DEF IsLocal
<1>2. /\ [l EXCEPT !.move = x].job = l.job /\ [l EXCEPT !.move = x].batch = l.batch
      /\ [l EXCEPT !.job = x].job = x /\ [l EXCEPT !.job = x].batch = l.batch
      /\ [l EXCEPT !.job = x].move = l.move
  BY <1>1 DEF Locals
<1>3. /\ [l EXCEPT !.job = x, !.last = y].job = x /\ [l EXCEPT !.job = x, !.last = y].batch = l.batch
      /\ [l EXCEPT !.job = x, !.last = y].move = l.move
  BY <1>1 DEF Locals
<1>4. /\ [l EXCEPT !.jobs = x].job = l.job /\ [l EXCEPT !.jobs = x].batch = l.batch
      /\ [l EXCEPT !.jobs = x].jobs = x
  BY <1>1 DEF Locals
<1>5. /\ [l EXCEPT !.rows = x, !.sum = y].job = l.job
      /\ [l EXCEPT !.rows = x, !.sum = y].batch = l.batch
      /\ [l EXCEPT !.rows = x, !.sum = y].jobs = l.jobs
  BY <1>1 DEF Locals
<1>6. /\ [l EXCEPT !.batch = x, !.rows = y, !.sum = z].job = l.job
      /\ [l EXCEPT !.batch = x, !.rows = y, !.sum = z].batch = x
      /\ [l EXCEPT !.batch = x, !.rows = y, !.sum = z].jobs = l.jobs
  BY <1>1 DEF Locals
<1>7. /\ [l EXCEPT !.last = x, !.batch = y].job = l.job
      /\ [l EXCEPT !.last = x, !.batch = y].move = l.move
      /\ [l EXCEPT !.last = x, !.batch = y].batch = y /\ [l EXCEPT !.last = x, !.batch = y].last = x
  BY <1>1 DEF Locals
<1>8. /\ [l EXCEPT !.batch = @ \ {x}].job = l.job /\ [l EXCEPT !.batch = @ \ {x}].jobs = l.jobs
      /\ [l EXCEPT !.batch = @ \ {x}].batch = l.batch \ {x}
  BY <1>1 DEF Locals
<1> QED BY <1>2, <1>3, <1>4, <1>5, <1>6, <1>7, <1>8

OneCopied(l, row) ==
  [l EXCEPT !.batch = @ \ {row}, !.job.rows = @ + 1, !.job.sum = Xor(@, {row})]

LEMMA CopyFields ==
  ASSUME NEW l, IsLocal(l), NEW row
  PROVE  /\ OneCopied(l, row).job = Counted(l.job, row)
         /\ OneCopied(l, row).batch = l.batch \ {row}
         /\ OneCopied(l, row).move = l.move /\ OneCopied(l, row).last = l.last
<1>1. PICK U : l \in Locals(U) BY DEF IsLocal
<1> QED BY <1>1 DEF Locals, OneCopied, Counted

Small(b, n) == IsFiniteSet(b) /\ Cardinality(b) <= ChunkSize + n

LEMMA SmallIs ==
  ASSUME NEW n \in Nat
  PROVE  /\ Small({}, n)
         /\ \A b, x : Small(b, n) => Small(b \ {x}, n)
         /\ \A b \in SUBSET (1..n) : Small(b, n)
<1>0. ChunkSize \in Nat BY ChunkAssumption
<1>1. Small({}, n)
  <2>1. 0 <= ChunkSize + n BY <1>0
  <2> QED BY <2>1, FS_EmptySet DEF Small
<1>2. ASSUME NEW b, NEW x, Small(b, n) PROVE Small(b \ {x}, n)
  <2>1. b \ {x} \in SUBSET b /\ IsFiniteSet(b) BY <1>2 DEF Small
  <2>2. IsFiniteSet(b \ {x}) /\ Cardinality(b \ {x}) <= Cardinality(b) BY <2>1, FS_Subset
  <2>3. Cardinality(b) \in Nat /\ Cardinality(b \ {x}) \in Nat BY <2>1, <2>2, FS_CardinalityType
  <2> QED BY <1>0, <1>2, <2>2, <2>3 DEF Small
<1>3. ASSUME NEW b \in SUBSET (1..n) PROVE Small(b, n)
  <2>1. IsFiniteSet(1..n) /\ Cardinality(1..n) = n BY FS_Interval
  <2>2. IsFiniteSet(b) /\ Cardinality(b) <= n BY <2>1, FS_Subset
  <2>3. Cardinality(b) \in Nat BY <2>2, FS_CardinalityType
  <2> QED BY <1>0, <2>2, <2>3 DEF Small
<1> QED BY <1>1, <1>2, <1>3

(* A process that has no chunk and no jobs to save.                        *)
LEMMA LocPlain ==
  ASSUME NEW p, NEW l, NEW t, NEW n, l.job \in Within(t), Small(l.batch, n),
         p \notin {"reopen", "check", "scan", "copy", "source", "target", "verified"}
  PROVE  LocOK(p, l, t, n)
<1>1. l.job \in JobSet(t) BY JobEdits
<1> QED BY <1>1 DEF LocOK, Small

LEMMA LocBackfill ==
  ASSUME NEW p, NEW l, NEW t, NEW n, l.job \in Within(t), Small(l.batch, n), l.move \in 1..n,
         p \in {"reopen", "check", "scan"}
  PROVE  LocOK(p, l, t, n)
<1>1. l.job \in JobSet(t) BY JobEdits
<1> QED BY <1>1 DEF LocOK, Small

LEMMA LocVerify ==
  ASSUME NEW p, NEW l, NEW t, NEW n, l.job \in Within(t), Small(l.batch, n),
         l.jobs \in [1..n -> Within(t)], p \in {"source", "target", "verified"}
  PROVE  LocOK(p, l, t, n)
<1>1. l.job \in JobSet(t) BY JobEdits
<1> QED BY <1>1 DEF LocOK, Small

LEMMA LocParts ==
  ASSUME NEW p, NEW l, NEW t, NEW n, LocOK(p, l, t, n)
  PROVE  /\ Small(l.batch, n) /\ (p # "copy" => l.job \in Within(t))
         /\ p \in {"reopen", "check", "scan", "copy"} => l.move \in 1..n
         /\ p \in {"source", "target", "verified"} => l.jobs \in [1..n -> Within(t)]
BY DEF LocOK, Small

LEMMA RowStep ==
  ASSUME TInv, Next PROVE RowTypes'
<1> DEFINE n == Len(plan)
           W == Within(setup)
           V == Versions(setup)
<1>0. /\ Len(plan) \in Nat /\ MoveIds = 1..Len(plan) /\ Ops \subseteq Holders
      /\ \A m \in 1..Len(plan) : plan[m].from \in Shards
      /\ setup' = setup /\ plan' = plan /\ setup.writes \in Nat
  BY FixedStep, PlanIs DEF TInv, FInv, fixed
<1>1. /\ DOMAIN pc = Holders /\ pc = [o \in Holders |-> pc[o]]
      /\ DOMAIN loc = Holders /\ loc = [o \in Holders |-> loc[o]]
      /\ \A o \in Holders : IsLocal(loc[o])
  BY DEF TInv, FInv, ProcTypes, OfHolders
<1>2. /\ data \in [Shards -> [Keys -> V]] /\ job \in [1..n -> W]
      /\ \A o \in Holders : LocOK(pc[o], loc[o], setup, n)
  BY DEF TInv, RowTypes
<1>3. /\ NoJob \in W /\ \A j \in W : \A ph \in Phases : [j EXCEPT !.phase = ph] \in W BY JobEdits
<1> HIDE DEF n, W, V
<1>4. n \in Nat /\ n = Len(plan) /\ Small({}, n) BY <1>0, SmallIs DEF n
<1>5. /\ IsLocal(Local) /\ Local.job = NoJob /\ Local.batch = {}
      /\ \A x : [Local EXCEPT !.move = x].job = NoJob /\ [Local EXCEPT !.move = x].batch = {}
  BY LocalIs DEF Local
(* The processes other than o are as they were.                            *)
<1>6. ASSUME NEW o \in Ops, UNCHANGED pc \/ \E p : To(o, p), UNCHANGED loc \/ \E l : Set(o, l),
             LocOK(pc'[o], loc'[o], setup, n), data' \in [Shards -> [Keys -> V]],
             job' \in [1..n -> W]
      PROVE  RowTypes'
  <2>1. ASSUME NEW q \in Holders PROVE LocOK(pc'[q], loc'[q], setup, n)
    <3>1. CASE q = o BY <1>6, <3>1
    <3>2. CASE q # o
      <4>1. pc'[q] = pc[q] BY <1>1, <1>6, <3>2 DEF To
      <4>2. loc'[q] = loc[q] BY <1>1, <1>6, <3>2 DEF Set
      <4> QED BY <1>2, <4>1, <4>2
    <3> QED BY <3>1, <3>2
  <2> QED BY <1>0, <1>6, <2>1 DEF RowTypes, n, W, V
<1>7. ASSUME UNCHANGED <<pc, loc, job>>, data' \in [Shards -> [Keys -> V]] PROVE RowTypes'
  BY <1>0, <1>2, <1>7 DEF RowTypes, n, W, V
<1>8. ASSUME NEW x, NEW y, NEW v \in V PROVE [data EXCEPT ![x][y] = v] \in [Shards -> [Keys -> V]]
  BY <1>2
<1>9. ASSUME NEW o \in Ops, NEW p, To(o, p) PROVE pc'[o] = p BY <1>0, <1>1, <1>9 DEF To
<1>10. ASSUME NEW o \in Ops, NEW l, Set(o, l) PROVE loc'[o] = l BY <1>0, <1>1, <1>10 DEF Set
<1>11. ASSUME NEW o \in Ops
       PROVE  /\ IsLocal(loc[o]) /\ Small(loc[o].batch, n) /\ (pc[o] # "copy" => loc[o].job \in W)
              /\ pc[o] \in {"reopen", "check", "scan", "copy"} => loc[o].move \in 1..n
              /\ pc[o] \in {"source", "target", "verified"} => loc[o].jobs \in [1..n -> W]
  <2>1. LocOK(pc[o], loc[o], setup, n) BY <1>0, <1>2
  <2> QED BY <1>0, <1>1, <2>1, LocParts DEF W
<1>12. ASSUME NEW o \in Ops, Return(o), UNCHANGED <<data, job>> PROVE RowTypes'
  <2>1. pc'[o] = "idle" /\ loc'[o] = Local /\ To(o, "idle") /\ Set(o, Local) BY <1>9, <1>10, <1>12 DEF Return
  <2>2. LocOK("idle", Local, setup, n) BY <1>3, <1>4, <1>5, LocPlain DEF W
  <2> QED BY <1>2, <1>6, <1>12, <2>1, <2>2
<1>13. ASSUME NEW o \in Ops, OpenMove(o) PROVE RowTypes'
  <2> DEFINE l == loc[o]
             m == l.move
  <2>0. pc[o] = "open" /\ UNCHANGED data BY <1>13 DEF OpenMove
  <2>1. IsLocal(l) /\ Small(l.batch, n) /\ l.job \in W BY <1>11, <2>0
  <2>2. CASE m \notin MoveIds /\ To(o, "release") /\ UNCHANGED <<loc, job>>
    <3>1. pc'[o] = "release" /\ loc'[o] = l BY <1>9, <2>2
    <3>2. LocOK("release", l, setup, n) BY <2>1, LocPlain DEF W
    <3> QED BY <1>2, <1>6, <2>0, <2>2, <3>1, <3>2
  <2>3. CASE Set(o, [l EXCEPT !.move = m + 1]) /\ UNCHANGED <<pc, job>>
    <3> DEFINE e == [l EXCEPT !.move = m + 1]
    <3>1. e.job = l.job /\ e.batch = l.batch BY <2>1, LocalFields
    <3>2. loc'[o] = e BY <1>10, <2>3
    <3>3. Set(o, e) BY <2>3
    <3> HIDE DEF e
    <3>4. LocOK("open", e, setup, n) BY <2>1, <3>1, LocPlain DEF W
    <3> QED BY <1>2, <1>6, <2>0, <2>3, <3>2, <3>3, <3>4
  <2>4. CASE /\ m \in MoveIds
             /\ job' = [job EXCEPT ![m].phase = IF @ = "none" THEN "pending" ELSE @]
             /\ Set(o, [loc[o] EXCEPT !.job = job'[m]]) /\ To(o, AfterOpen(job'[m]))
    <3>0. m \in 1..n BY <1>0, <2>4 DEF n
    <3> DEFINE j == [job[m] EXCEPT !.phase = IF @ = "none" THEN "pending" ELSE @]
               e == [l EXCEPT !.job = j]
    <3>1. j \in W
      <4>1. job[m] \in W BY <1>2, <3>0
      <4>2. job[m] \in JobSet(setup) BY <4>1 DEF W, Within
      <4> DEFINE ph == IF job[m].phase = "none" THEN "pending" ELSE job[m].phase
      <4>3. ph \in Phases BY <4>2 DEF JobSet, Phases
      <4>4. j = [job[m] EXCEPT !.phase = ph] OBVIOUS
      <4> HIDE DEF ph
      <4> QED BY <1>3, <4>1, <4>3, <4>4
    <3>2. job' = [job EXCEPT ![m] = j] /\ job'[m] = j BY <1>2, <2>4, <3>0
    <3>3. Set(o, e) /\ To(o, AfterOpen(j)) BY <2>4, <3>2
    <3> HIDE DEF j
    <3>4. e.job = j /\ e.batch = l.batch /\ e.move = m BY <2>1, LocalFields
    <3> HIDE DEF e
    <3>5. AfterOpen(j) \in {"reopen", "check"} BY DEF AfterOpen
    <3>6. LocOK(AfterOpen(j), e, setup, n) BY <2>1, <3>0, <3>1, <3>4, <3>5, LocBackfill DEF W
    <3>7. pc'[o] = AfterOpen(j) /\ loc'[o] = e BY <1>9, <1>10, <3>3
    <3>8. job' \in [1..n -> W] BY <1>2, <3>1, <3>2
    <3> QED BY <1>2, <1>6, <2>0, <3>3, <3>6, <3>7, <3>8
  <2> QED BY <1>13, <2>2, <2>3, <2>4 DEF OpenMove
<1>14. ASSUME NEW o \in Ops, Reopen(o) PROVE RowTypes'
  <2> DEFINE l == loc[o]
             j == [l.job EXCEPT !.phase = "backfilling"]
             e == [l EXCEPT !.job = j]
  <2>1. pc[o] = "reopen" /\ UNCHANGED data /\ job' = [job EXCEPT ![l.move] = j] /\ Set(o, e) /\ To(o, "check")
    BY <1>14 DEF Reopen
  <2>2. IsLocal(l) /\ Small(l.batch, n) /\ l.job \in W /\ l.move \in 1..n BY <1>11, <2>1
  <2>3. j \in W BY <1>3, <2>2 DEF Phases
  <2> HIDE DEF j
  <2>4. e.job = j /\ e.batch = l.batch /\ e.move = l.move BY <2>2, LocalFields
  <2> HIDE DEF e
  <2>5. LocOK("check", e, setup, n) BY <2>2, <2>3, <2>4, LocBackfill DEF W
  <2>6. pc'[o] = "check" /\ loc'[o] = e BY <1>9, <1>10, <2>1
  <2>7. job' \in [1..n -> W] BY <1>2, <2>1, <2>3
  <2> QED BY <1>2, <1>6, <2>1, <2>5, <2>6, <2>7
<1>15. ASSUME NEW o \in Ops, CheckFence(o) PROVE RowTypes'
  <2>1. pc[o] = "check" /\ UNCHANGED <<data, job, loc>> /\ (To(o, "scan") \/ To(o, "release"))
    BY <1>15 DEF CheckFence
  <2>2. Small(loc[o].batch, n) /\ loc[o].job \in W /\ loc[o].move \in 1..n BY <1>11, <2>1
  <2>3. LocOK("scan", loc[o], setup, n) BY <2>2, LocBackfill DEF W
  <2>4. LocOK("release", loc[o], setup, n) BY <2>2, LocPlain DEF W
  <2>5. pc'[o] = "scan" \/ pc'[o] = "release" BY <1>9, <2>1
  <2>6. LocOK(pc'[o], loc'[o], setup, n) BY <2>1, <2>3, <2>4, <2>5
  <2> QED BY <1>2, <1>6, <2>1, <2>6
<1>16. ASSUME NEW o \in Ops, ScanChunk(o) PROVE RowTypes'
  <2> DEFINE l == loc[o]
             mv == plan[l.move]
             keys == Chunk(mv.from, mv, l.job.cursor)
             C == {j \in keys : RoutesTo(setup.new, mv, j)}
             b == Rows(C, data[mv.from])
             last == CHOOSE k \in keys : \A j \in keys : j <= k
  <2>1. pc[o] = "scan" /\ UNCHANGED <<data, job>> BY <1>16 DEF ScanChunk
  <2>2. IsLocal(l) /\ Small(l.batch, n) /\ l.job \in W /\ l.move \in 1..n BY <1>11, <2>1
  <2>3. CASE Set(o, [Local EXCEPT !.move = l.move + 1]) /\ To(o, "open")
    <3> DEFINE e == [Local EXCEPT !.move = l.move + 1]
    <3>1. e.job = NoJob /\ e.batch = {} BY <1>5
    <3>2. Set(o, e) BY <2>3
    <3> HIDE DEF e
    <3>3. LocOK("open", e, setup, n) BY <1>3, <1>4, <3>1, LocPlain DEF W
    <3>4. pc'[o] = "open" /\ loc'[o] = e BY <1>9, <1>10, <2>3, <3>2
    <3> QED BY <1>2, <1>6, <2>1, <2>3, <3>2, <3>3, <3>4
  <2>4. CASE keys # {} /\ Set(o, [l EXCEPT !.last = last, !.batch = b]) /\ To(o, "copy")
    <3> DEFINE e == [l EXCEPT !.last = last, !.batch = b]
    <3>0. Set(o, e) BY <2>4
    <3>1. /\ keys \in SUBSET Keys /\ IsFiniteSet(keys) /\ Cardinality(keys) \in Nat
          /\ Cardinality(keys) <= ChunkSize /\ \A k \in keys : k > l.job.cursor
      <4> DEFINE S == Scan(mv.from, mv, l.job.cursor)
      <4>1. S \in SUBSET Keys /\ \A k \in S : k > l.job.cursor BY DEF Scan
      <4> HIDE DEF S
      <4>2. keys = {k \in S : Cardinality({j \in S : j < k}) < ChunkSize} BY DEF Chunk, S
      <4> HIDE DEF keys
      <4>3. keys \subseteq S /\ IsFiniteSet(keys) /\ Cardinality(keys) \in Nat
            /\ Cardinality(keys) <= ChunkSize
        BY <4>1, <4>2, ChunkIs
      <4> QED BY <4>1, <4>3
    <3>2. last \in keys /\ \A j \in keys : j <= last
      <4> HIDE DEF keys
      <4>1. \E k \in keys : \A j \in keys : j <= k BY <2>4, <3>1, GreatestKey
      <4> QED BY <4>1
    <3>3. data[mv.from] \in [Keys -> V] BY <1>0, <1>2, <2>2 DEF n
    <3>4. C \in SUBSET keys /\ C \in SUBSET Keys BY <3>1
    <3> HIDE DEF last, keys, C
    <3>5. Cardinality(C) <= Cardinality(keys) /\ Cardinality(C) \in Nat BY <3>1, <3>4, FS_Subset, KeysAre
    <3>6. IsFiniteSet(b) /\ Cardinality(b) \in Nat /\ Cardinality(b) <= Cardinality(C)
      BY <3>4, RowsAre
    <3>7. b \subseteq Keys \X V
      <4>1. \A k \in C : k \in Keys /\ data[mv.from][k] \in V BY <3>3, <3>4
      <4> QED BY <4>1 DEF Rows
    <3> HIDE DEF b
    <3>8. e.job = l.job /\ e.move = l.move /\ e.batch = b /\ e.last = last BY <2>2, LocalFields
    <3> HIDE DEF e
    <3>9. /\ l.job.cursor \in Int /\ MinKey - 1 <= l.job.cursor /\ l.job.rows \in Nat
          /\ l.job.rows <= (l.job.cursor - MinKey) + 1 /\ l.job \in JobSet(setup)
      <4>1. l.job \in JobSet(setup) /\ l.job.rows <= (l.job.cursor - MinKey) + 1
        BY <2>2 DEF W, Within
      <4>2. l.job.cursor \in (MinKey - 1)..MaxKey /\ l.job.rows \in 0..Cardinality(Keys)
        BY <4>1 DEF JobSet
      <4> QED BY <4>1, <4>2, KeyCount, KeysAssumption
    <3>10. last \in Int /\ last \in Keys /\ last > l.job.cursor BY <3>1, <3>2, KeysAre
    <3>11. Cardinality(keys) <= last - l.job.cursor
      <4> DEFINE c == l.job.cursor
                 I == (c + 1)..last
      <4>1. \A k \in keys : k \in Int /\ k > c /\ k <= last BY <3>1, <3>2, KeysAre
      <4>2. keys \in SUBSET I BY <3>9, <3>10, <4>1
      <4>3. c + 1 \in Int /\ ~(c + 1 > last) /\ (last - (c + 1)) + 1 = last - c BY <3>9, <3>10
      <4>4. IsFiniteSet(I) /\ Cardinality(I) = last - c BY <3>10, <4>3, FS_Interval
      <4> HIDE DEF I, c
      <4>5. Cardinality(keys) <= last - c BY <4>2, <4>4, FS_Subset
      <4> QED BY <4>5 DEF c
    <3>12. l.job.rows + Cardinality(b) <= (last - MinKey) + 1
      BY <3>1, <3>5, <3>6, <3>9, <3>10, <3>11, KeysAssumption
    <3>13. Cardinality(b) <= ChunkSize + n BY <1>4, <3>1, <3>5, <3>6, ChunkAssumption
    <3>14. LocOK("copy", e, setup, n)
      BY <2>2, <3>6, <3>7, <3>8, <3>9, <3>10, <3>12, <3>13 DEF LocOK, V
    <3>15. pc'[o] = "copy" /\ loc'[o] = e BY <1>9, <1>10, <2>4, <3>0
    <3> QED BY <1>2, <1>6, <2>1, <2>4, <3>0, <3>14, <3>15
  <2> QED BY <1>16, <2>3, <2>4 DEF ScanChunk, Rows
<1>17. ASSUME NEW o \in Ops, CopyRow(o) PROVE RowTypes'
  <2> DEFINE l == loc[o]
             b == l.batch
             row == CHOOSE r \in b : \A q \in b : r[1] <= q[1]
             e == OneCopied(l, row)
  <2>1. /\ pc[o] = "copy" /\ b # {} /\ Set(o, e) /\ UNCHANGED <<pc, job>>
        /\ data' = [data EXCEPT ![plan[l.move].to][row[1]] = row[2]]
    BY <1>17 DEF CopyRow, OneCopied
  <2>2. LocOK("copy", l, setup, n) /\ IsLocal(l) BY <1>0, <1>1, <1>2, <2>1
  <2>3. /\ b \subseteq Keys \X V /\ IsFiniteSet(b) /\ l.job \in JobSet(setup) /\ l.last \in Keys
        /\ l.job.rows + Cardinality(b) <= (l.last - MinKey) + 1 /\ l.move \in 1..n /\ Small(b, n)
    BY <2>2 DEF LocOK, V, Small
  <2>4. row \in b
    <3>1. \A r \in b : r[1] \in Keys BY <2>3
    <3> QED BY <2>1, <3>1, FirstRow
  <2> HIDE DEF row
  <2>5. e.job = Counted(l.job, row) /\ e.batch = b \ {row} /\ e.move = l.move /\ e.last = l.last
    BY <2>2, CopyFields
  <2> HIDE DEF b, e
  <2>6. row \in Keys \X V /\ row[2] \in V BY <2>3, <2>4
  <2>7. data' \in [Shards -> [Keys -> V]] BY <1>8, <2>1, <2>6
  <2>8. Cardinality(b) \in Nat /\ IsFiniteSet(b \ {row}) /\ Cardinality(b \ {row}) = Cardinality(b) - 1
        /\ Cardinality(b \ {row}) \in Nat
    BY <2>3, <2>4, FS_RemoveElement, FS_CardinalityType
  <2>9. l.job.rows \in Nat /\ l.last \in Int /\ l.last <= MaxKey BY <2>3, KeyCount DEF JobSet
  <2>10. l.job.rows + 1 <= Cardinality(Keys)
         /\ (l.job.rows + 1) + Cardinality(b \ {row}) <= (l.last - MinKey) + 1
    BY <2>3, <2>8, <2>9, KeyCount, KeysAssumption
  <2>11. e.job \in JobSet(setup) /\ e.job.rows = l.job.rows + 1
    BY <2>3, <2>5, <2>6, <2>10, JobGrows DEF V
  <2>12. Small(b \ {row}, n) BY <1>4, <2>3, SmallIs
  <2>13. LocOK("copy", e, setup, n)
    <3>1. b \ {row} \subseteq Keys \X V BY <2>3
    <3> QED BY <2>3, <2>5, <2>10, <2>11, <2>12, <3>1 DEF LocOK, V, Small
  <2>14. loc'[o] = e /\ pc'[o] = "copy" BY <1>10, <2>1
  <2> QED BY <1>2, <1>6, <2>1, <2>7, <2>13, <2>14
<1>18. ASSUME NEW o \in Ops, SaveChunk(o) PROVE RowTypes'
  <2> DEFINE l == loc[o]
             j == Copied(l)
             e == [l EXCEPT !.job = j, !.last = MinKey - 1]
  <2>1. /\ pc[o] = "copy" /\ l.batch = {} /\ UNCHANGED data /\ Set(o, e) /\ To(o, "check")
        /\ job' = [job EXCEPT ![l.move] = j]
    BY <1>18 DEF SaveChunk
  <2>2. LocOK("copy", l, setup, n) /\ IsLocal(l) BY <1>0, <1>1, <1>2, <2>1
  <2>3. /\ l.job \in JobSet(setup) /\ l.last \in Keys /\ l.move \in 1..n /\ Small(l.batch, n)
        /\ l.job.rows + Cardinality(l.batch) <= (l.last - MinKey) + 1
    BY <2>2 DEF LocOK, Small
  <2>4. l.job.rows <= (l.last - MinKey) + 1
    <3>1. Cardinality(l.batch) = 0 /\ l.job.rows \in Int BY <2>1, <2>3, FS_EmptySet, KeyCount DEF JobSet
    <3> QED BY <2>3, <3>1
  <2>5. j \in W BY <2>3, <2>4, JobCopied DEF Copied, W
  <2> HIDE DEF j
  <2>6. e.job = j /\ e.batch = l.batch /\ e.move = l.move BY <2>2, LocalFields
  <2> HIDE DEF e
  <2>7. LocOK("check", e, setup, n) BY <2>3, <2>5, <2>6, LocBackfill DEF W
  <2>8. pc'[o] = "check" /\ loc'[o] = e BY <1>9, <1>10, <2>1
  <2>9. job' \in [1..n -> W] BY <1>2, <2>1, <2>5
  <2> QED BY <1>2, <1>6, <2>1, <2>7, <2>8, <2>9
<1>19. ASSUME NEW o \in Ops, EndBackfill(o) PROVE RowTypes'
  BY <1>12, <1>19 DEF EndBackfill
<1>20. ASSUME NEW o \in Ops, VerifyLoad(o) PROVE RowTypes'
  <2> DEFINE l == loc[o]
  <2>1. pc[o] = "load" /\ UNCHANGED <<data, job>> BY <1>20 DEF VerifyLoad
  <2>2. IsLocal(l) /\ Small(l.batch, n) /\ l.job \in W BY <1>11, <2>1
  <2>3. CASE Return(o) BY <1>12, <2>1, <2>3
  <2>4. CASE Set(o, [Local EXCEPT !.move = loc[o].move + 1]) /\ UNCHANGED pc
    <3> DEFINE e == [Local EXCEPT !.move = loc[o].move + 1]
    <3>1. e.job = NoJob /\ e.batch = {} BY <1>5
    <3>2. Set(o, e) BY <2>4
    <3> HIDE DEF e
    <3>3. LocOK("load", e, setup, n) BY <1>3, <1>4, <3>1, LocPlain DEF W
    <3>4. pc'[o] = "load" /\ loc'[o] = e BY <1>10, <2>1, <2>4, <3>2
    <3> QED BY <1>2, <1>6, <2>1, <2>4, <3>2, <3>3, <3>4
  <2>5. CASE Set(o, [loc[o] EXCEPT !.jobs = job]) /\ To(o, "source")
    <3> DEFINE e == [l EXCEPT !.jobs = job]
    <3>1. e.job = l.job /\ e.batch = l.batch /\ e.jobs = job BY <2>2, LocalFields
    <3>2. Set(o, e) BY <2>5
    <3> HIDE DEF e
    <3>3. LocOK("source", e, setup, n) BY <1>2, <2>2, <3>1, LocVerify DEF W
    <3>4. pc'[o] = "source" /\ loc'[o] = e BY <1>9, <1>10, <2>5, <3>2
    <3> QED BY <1>2, <1>6, <2>1, <2>5, <3>2, <3>3, <3>4
  <2> QED BY <1>20, <2>3, <2>4, <2>5 DEF VerifyLoad
<1>21. ASSUME NEW o \in Ops, VerifySource(o) PROVE RowTypes'
  <2> DEFINE l == loc[o]
  <2>1. pc[o] = "source" /\ UNCHANGED <<data, job>> /\ To(o, "target") BY <1>21 DEF VerifySource
  <2>2. IsLocal(l) /\ Small(l.batch, n) /\ l.job \in W /\ l.jobs \in [1..n -> W] BY <1>11, <2>1
  <2>3. \E x, y : Set(o, [l EXCEPT !.rows = x, !.sum = y]) BY <1>21 DEF VerifySource
  <2>4. PICK x, y : Set(o, [l EXCEPT !.rows = x, !.sum = y]) BY <2>3
  <2> DEFINE e == [l EXCEPT !.rows = x, !.sum = y]
  <2>5. e.job = l.job /\ e.batch = l.batch /\ e.jobs = l.jobs BY <2>2, LocalFields
  <2>6. Set(o, e) BY <2>4
  <2> HIDE DEF e
  <2>7. LocOK("target", e, setup, n) BY <2>2, <2>5, LocVerify DEF W
  <2>8. pc'[o] = "target" /\ loc'[o] = e BY <1>9, <1>10, <2>1, <2>6
  <2> QED BY <1>2, <1>6, <2>1, <2>6, <2>7, <2>8
<1>22. ASSUME NEW o \in Ops, VerifyTarget(o) PROVE RowTypes'
  <2> DEFINE l == loc[o]
             g == Group(Targets[loc[o].move])
             e == [l EXCEPT !.batch = g, !.rows = 0, !.sum = {}]
  <2>1. pc[o] = "target" /\ UNCHANGED <<data, job>> /\ (Return(o) \/ (Set(o, e) /\ To(o, "verified")))
    BY <1>22 DEF VerifyTarget
  <2>2. IsLocal(l) /\ Small(l.batch, n) /\ l.job \in W /\ l.jobs \in [1..n -> W] BY <1>11, <2>1
  <2>3. CASE Return(o) BY <1>12, <2>1, <2>3
  <2>4. CASE Set(o, e) /\ To(o, "verified")
    <3>1. Small(g, n)
      <4>1. g \in SUBSET (1..n) BY <1>0 DEF Group, n
      <4> QED BY <1>4, <4>1, SmallIs
    <3> HIDE DEF g
    <3>2. e.job = l.job /\ e.batch = g /\ e.jobs = l.jobs BY <2>2, LocalFields
    <3> HIDE DEF e
    <3>3. LocOK("verified", e, setup, n) BY <2>2, <3>1, <3>2, LocVerify DEF W
    <3>4. pc'[o] = "verified" /\ loc'[o] = e BY <1>9, <1>10, <2>4
    <3> QED BY <1>2, <1>6, <2>1, <2>4, <3>3, <3>4
  <2> QED BY <2>1, <2>3, <2>4
<1>23. ASSUME NEW o \in Ops, SaveVerified(o) PROVE RowTypes'
  <2> DEFINE l == loc[o]
             m == CHOOSE q \in l.batch : \A i \in l.batch : q <= i
             d == [Local EXCEPT !.move = l.move + 1]
             e == [l EXCEPT !.batch = @ \ {m}]
             j == [l.jobs[m] EXCEPT !.phase = "verified"]
  <2>1. /\ pc[o] = "verified" /\ UNCHANGED data
        /\ \/ Set(o, d) /\ To(o, "load") /\ UNCHANGED job
           \/ job' = [job EXCEPT ![m] = j] /\ Set(o, e) /\ UNCHANGED pc
    BY <1>23 DEF SaveVerified
  <2>2. IsLocal(l) /\ Small(l.batch, n) /\ l.job \in W /\ l.jobs \in [1..n -> W] BY <1>11, <2>1
  <2>3. CASE Set(o, d) /\ To(o, "load") /\ UNCHANGED job
    <3>1. d.job = NoJob /\ d.batch = {} BY <1>5
    <3> HIDE DEF d
    <3>2. LocOK("load", d, setup, n) BY <1>3, <1>4, <3>1, LocPlain DEF W
    <3>3. pc'[o] = "load" /\ loc'[o] = d BY <1>9, <1>10, <2>3
    <3> QED BY <1>2, <1>6, <2>1, <2>3, <3>2, <3>3
  <2>4. CASE job' = [job EXCEPT ![m] = j] /\ Set(o, e) /\ UNCHANGED pc
    <3> HIDE DEF m
    <3>1. e.job = l.job /\ e.batch = l.batch \ {m} /\ e.jobs = l.jobs BY <2>2, LocalFields
    <3>2. Small(l.batch \ {m}, n) BY <1>4, <2>2, SmallIs
    <3> HIDE DEF e
    <3>3. LocOK("verified", e, setup, n) BY <2>2, <3>1, <3>2, LocVerify DEF W
    <3>4. pc'[o] = "verified" /\ loc'[o] = e BY <1>10, <2>1, <2>4
    <3>5. m \in 1..n => j \in W BY <1>3, <2>2 DEF Phases
    <3> HIDE DEF j
    <3>6. job' \in [1..n -> W] BY <1>2, <2>4, <3>5
    <3> QED BY <1>2, <1>6, <2>1, <2>4, <3>3, <3>4, <3>6
  <2> QED BY <2>1, <2>3, <2>4
<1>24. ASSUME NEW o \in Ops, UNCHANGED <<loc, data, job>>,
              pc[o] \in {"idle", "reload"},
              \E p \in {"open", "load", "reload", "done", "rolled_back"} : To(o, p)
       PROVE  RowTypes'
  <2>1. Small(loc[o].batch, n) /\ loc[o].job \in W BY <1>11, <1>24
  <2>2. PICK p \in {"open", "load", "reload", "done", "rolled_back"} : To(o, p) BY <1>24
  <2>3. LocOK(p, loc[o], setup, n) BY <2>1, LocPlain DEF W
  <2>4. pc'[o] = p BY <1>9, <2>2
  <2> QED BY <1>2, <1>6, <1>24, <2>2, <2>3, <2>4
<1>25. ASSUME NEW o \in Ops, SaveFinal(o) PROVE RowTypes'
  <2> DEFINE l == loc[o]
             m == l.move
             d == [Local EXCEPT !.move = m + 1]
             e == [l EXCEPT !.move = m + 1]
             f == [l EXCEPT !.job = job[m]]
             j == [l.job EXCEPT !.phase = pc[o]]
  <2>1. /\ pc[o] \in {"done", "rolled_back"} /\ UNCHANGED data
        /\ \/ Return(o) /\ UNCHANGED job
           \/ m \in MoveIds /\ (Set(o, e) \/ Set(o, f)) /\ UNCHANGED <<pc, job>>
           \/ m \in MoveIds /\ job' = [job EXCEPT ![m] = j] /\ Set(o, d) /\ UNCHANGED pc
    BY <1>25 DEF SaveFinal
  <2>2. IsLocal(l) /\ Small(l.batch, n) /\ l.job \in W BY <1>11, <2>1
  <2>3. CASE Return(o) /\ UNCHANGED job BY <1>12, <2>1, <2>3
  <2>4. CASE Set(o, e) /\ UNCHANGED <<pc, job>>
    <3>1. e.job = l.job /\ e.batch = l.batch BY <2>2, LocalFields
    <3> HIDE DEF e
    <3>2. LocOK(pc[o], e, setup, n) BY <2>1, <2>2, <3>1, LocPlain DEF W
    <3>3. loc'[o] = e BY <1>10, <2>4
    <3> QED BY <1>2, <1>6, <2>1, <2>4, <3>2, <3>3
  <2>5. CASE m \in MoveIds /\ Set(o, f) /\ UNCHANGED <<pc, job>>
    <3>1. f.job = job[m] /\ f.batch = l.batch BY <2>2, LocalFields
    <3>2. job[m] \in W BY <1>0, <1>2, <2>5 DEF n
    <3> HIDE DEF f
    <3>3. LocOK(pc[o], f, setup, n) BY <2>1, <2>2, <3>1, <3>2, LocPlain DEF W
    <3>4. loc'[o] = f BY <1>10, <2>5
    <3> QED BY <1>2, <1>6, <2>1, <2>5, <3>3, <3>4
  <2>6. CASE job' = [job EXCEPT ![m] = j] /\ Set(o, d) /\ UNCHANGED pc
    <3>1. d.job = NoJob /\ d.batch = {} BY <1>5
    <3>2. j \in W
      <4>1. pc[o] \in Phases BY <2>1 DEF Phases
      <4> QED BY <1>3, <2>2, <4>1
    <3> HIDE DEF d, j
    <3>3. LocOK(pc[o], d, setup, n) BY <1>3, <1>4, <2>1, <3>1, LocPlain DEF W
    <3>4. loc'[o] = d BY <1>10, <2>6
    <3>5. job' \in [1..n -> W] BY <1>2, <2>6, <3>2
    <3> QED BY <1>2, <1>6, <2>1, <2>6, <3>3, <3>4, <3>5
  <2> QED BY <2>1, <2>3, <2>4, <2>5, <2>6
<1>26. ASSUME NEW o \in Ops, Reload(o) \/ Backfill(o) \/ StartVerify(o) \/ Cutover(o) \/ Rollback(o)
       PROVE  RowTypes'
  <2>1. UNCHANGED <<loc, data, job>> /\ pc[o] \in {"idle", "reload"}
    BY <1>26 DEF Reload, Backfill, StartVerify, Cutover, Rollback
  <2>2. \E p \in {"open", "load", "reload", "done", "rolled_back"} : To(o, p)
    BY <1>26 DEF Reload, Backfill, StartVerify, Cutover, Rollback
  <2> QED BY <1>24, <2>1, <2>2
<1>27. ASSUME NEW o \in Ops, BackfillLost(o) \/ Crash(o) \/ Fail(o) PROVE RowTypes'
  <2>1. CASE BackfillLost(o) BY <1>2, <1>7, <2>1 DEF BackfillLost
  <2>2. CASE Crash(o) BY <1>12, <2>2 DEF Crash
  <2>3. CASE Fail(o)
    <3>1. UNCHANGED <<data, job>> /\ (Return(o) \/ (To(o, "release") /\ Set(o, Local)))
      BY <2>3 DEF Fail
    <3>2. CASE Return(o) BY <1>12, <3>1, <3>2
    <3>3. CASE To(o, "release") /\ Set(o, Local)
      <4>1. LocOK("release", Local, setup, n) BY <1>3, <1>4, <1>5, LocPlain DEF W
      <4>2. pc'[o] = "release" /\ loc'[o] = Local BY <1>9, <1>10, <3>3
      <4> QED BY <1>2, <1>6, <3>1, <3>3, <4>1, <4>2
    <3> QED BY <3>1, <3>2, <3>3
  <2> QED BY <1>27, <2>1, <2>2, <2>3
<1>28. CASE (\E k \in Keys : BindWrite(k)) \/ MirrorFails \/ Lapse
  BY <1>2, <1>7, <1>28 DEF BindWrite, MirrorFails, Lapse
<1>29. CASE WritePrimary
  <2>1. AppTypes' BY AppStep
  <2>2. app.key \in Keys BY DEF TInv, AppTypes
  <2>3. latest'[app.key] \in V
    <3>1. latest' \in [Keys -> 0..(1 + writes')] /\ writes' \in 0..setup.writes
      BY <1>0, <2>1 DEF AppTypes
    <3>2. latest'[app.key] \in 0..(1 + writes') BY <2>2, <3>1
    <3> QED BY <1>0, <3>1, <3>2 DEF V, Versions
  <2>4. UNCHANGED <<pc, loc, job>> /\ data' = [data EXCEPT ![app.primary][app.key] = latest'[app.key]]
    BY <1>29 DEF WritePrimary
  <2> QED BY <1>7, <1>8, <2>3, <2>4
<1>30. CASE WriteMirror
  <2>1. app.key \in Keys BY DEF TInv, AppTypes
  <2>2. latest[app.key] \in V
    <3>1. latest \in [Keys -> 0..(1 + writes)] /\ writes \in 0..setup.writes
      BY DEF TInv, AppTypes
    <3>2. latest[app.key] \in 0..(1 + writes) BY <2>1, <3>1
    <3> QED BY <1>0, <3>1, <3>2 DEF V, Versions
  <2>3. UNCHANGED <<pc, loc, job>> /\ data' = [data EXCEPT ![MirrorShard][app.key] = latest[app.key]]
    BY <1>30 DEF WriteMirror
  <2> QED BY <1>7, <1>8, <2>2, <2>3
<1> QED BY <1>13, <1>14, <1>15, <1>16, <1>17, <1>18, <1>19, <1>20, <1>21, <1>22, <1>23, <1>25,
           <1>26, <1>27, <1>28, <1>29, <1>30 DEF Next, Step

LEMMA TypedStep == TInv /\ [Next]_vars => TInv'
<1> SUFFICES ASSUME TInv, [Next]_vars PROVE TInv' OBVIOUS
<1>1. CASE Next
  <2>1. setup' = setup /\ plan' = plan BY <1>1, FixedStep DEF fixed
  <2>2. Planned' BY <2>1 DEF TInv, FInv, Planned
  <2>3. FInv' BY <1>1, <2>2, ProcTypesStep, FencedStep, LateStep DEF TInv, FInv
  <2> QED BY <1>1, <2>3, AppStep, RowStep DEF TInv
<1>2. CASE UNCHANGED vars
  <2>1. FInv'
    BY <1>2 DEF vars, fixed, TInv, FInv, Planned, ProcTypes, OfHolders, LockTypeOK, Fenced, Late,
       InBackfill, Ops
  <2>2. AppTypes' BY <1>2 DEF vars, fixed, TInv, AppTypes
  <2>3. RowTypes' BY <1>2 DEF vars, fixed, TInv, RowTypes
  <2> QED BY <2>1, <2>2, <2>3 DEF TInv
<1> QED BY <1>1, <1>2

LEMMA AlwaysTyped == Spec => []TInv
BY TypesInit, TypedStep, PTL DEF Spec

(* The types; a job never counts more rows than there are keys, whatever   *)
(* is copied again, and no process has more than a chunk or the moves of a *)
(* plan in memory (backfill.rs:59-83, verify.rs).                          *)
THEOREM TypeCorrect == Spec => []TypeOK
<1>1. TInv => TypeOK
  <2> SUFFICES ASSUME TInv PROVE TypeOK OBVIOUS
  <2>1. /\ Len(plan) \in Nat /\ MoveIds = 1..Len(plan) /\ Ops \subseteq Holders
        /\ setup.writes \in Nat
    BY PlanIs DEF TInv, FInv
  <2>2. Versions(setup) = Version /\ JobSet(setup) = JobType BY DEF Versions, Version, JobSet, JobType, Phases
  <2>3. LockTypeOK /\ setup \in Setups /\ late \in [Holders -> Nat]
    BY DEF TInv, FInv, Planned, ProcTypes
  <2>4. data \in [Shards -> [Keys -> Version]] BY <2>2 DEF TInv, RowTypes
  <2>5. \A m \in MoveIds : job[m] \in JobType BY <2>1, <2>2 DEF TInv, RowTypes, Within
  <2>6. \A o \in Ops : loc[o].job \in JobType /\ Cardinality(loc[o].batch) <= ChunkSize + Len(plan)
    BY <2>1, <2>2 DEF TInv, RowTypes, LocOK
  <2>7. lapsed \subseteq Ops BY DEF TInv, FInv, Fenced
  <2>8. latest \in [Keys -> Version]
    <3>1. latest \in [Keys -> 0..(1 + writes)] /\ writes \in 0..setup.writes BY DEF TInv, AppTypes
    <3>2. \A k \in Keys : latest[k] \in 0..(1 + setup.writes) BY <2>1, <3>1
    <3> QED BY <3>1, <3>2 DEF Version
  <2>9. app.pc \in {"idle", "primary", "mirror"} BY DEF TInv, AppTypes
  <2>10. router \in {"old", "new"} /\ behind \subseteq Keys /\ overlap \in BOOLEAN BY DEF TInv, AppTypes
  <2> QED BY <2>3, <2>4, <2>5, <2>6, <2>7, <2>8, <2>9, <2>10 DEF TypeOK
<1> QED BY <1>1, AlwaysTyped, PTL

-----------------------------------------------------------------------------
(* The plan, move by move, and the checksum of a group of moves.           *)

(* The XOR of the checksums of a group of moves: a row that one of them    *)
(* has is in it, a row that none of them has is not.                       *)
XorStep(f, sums, s) ==
  IF s = {} THEN {}
  ELSE Xor(sums[CHOOSE x \in s : TRUE], f[s \ {CHOOSE x \in s : TRUE}])
Xors(f, sums, D) == f = [s \in D |-> XorStep(f, sums, s)]

UpTo(G, n) == {s \in SUBSET G : Cardinality(s) <= n}

LEMMA OneLess ==
  ASSUME NEW G, IsFiniteSet(G), NEW s \in SUBSET G, s # {}
  PROVE  /\ (CHOOSE x \in s : TRUE) \in s
         /\ s \ {CHOOSE x \in s : TRUE} \in SUBSET G
         /\ Cardinality(s) \in Nat /\ Cardinality(s) > 0
         /\ Cardinality(s \ {CHOOSE x \in s : TRUE}) = Cardinality(s) - 1
<1>1. (CHOOSE x \in s : TRUE) \in s OBVIOUS
<1> DEFINE c == CHOOSE x \in s : TRUE
<1> HIDE DEF c
<1>2. IsFiniteSet(s) BY FS_Subset
<1>3. Cardinality(s \ {c}) = Cardinality(s) - 1 BY <1>1, <1>2, FS_RemoveElement DEF c
<1>4. Cardinality(s) \in Nat /\ IsFiniteSet(s \ {c}) /\ Cardinality(s \ {c}) \in Nat
  BY <1>2, FS_CardinalityType, FS_Subset
<1> QED BY <1>1, <1>3, <1>4 DEF c

LEMMA XorsExist ==
  ASSUME NEW G, IsFiniteSet(G), NEW sums PROVE \E f : Xors(f, sums, SUBSET G)
<1> DEFINE T == {n \in Nat : \E f : Xors(f, sums, UpTo(G, n))}
<1>0. \A s \in SUBSET G : IsFiniteSet(s) /\ Cardinality(s) \in Nat /\ (Cardinality(s) = 0 <=> s = {})
  BY FS_Subset, FS_CardinalityType, FS_EmptySet
<1>1. 0 \in T
  <2> DEFINE g == [s \in UpTo(G, 0) |-> {}]
  <2>1. \A s \in UpTo(G, 0) : s = {} BY <1>0 DEF UpTo
  <2>2. \A s \in UpTo(G, 0) : XorStep(g, sums, s) = {} BY <2>1 DEF XorStep
  <2>3. Xors(g, sums, UpTo(G, 0)) BY <2>2 DEF Xors
  <2> QED BY <2>3
<1>2. ASSUME NEW n \in T PROVE n + 1 \in T
  <2>0. n \in Nat OBVIOUS
  <2>1. PICK f : Xors(f, sums, UpTo(G, n)) OBVIOUS
  <2> DEFINE D == UpTo(G, n + 1)
             g == [s \in D |-> IF Cardinality(s) <= n THEN f[s] ELSE XorStep(f, sums, s)]
  <2>2. ASSUME NEW s \in D PROVE g[s] = XorStep(g, sums, s)
    <3>1. s \in SUBSET G /\ Cardinality(s) \in Nat /\ Cardinality(s) <= n + 1 BY <1>0 DEF UpTo
    <3>2. g[s] = XorStep(f, sums, s)
      <4>1. Cardinality(s) <= n => s \in UpTo(G, n) BY <3>1 DEF UpTo
      <4>2. s \in UpTo(G, n) => f[s] = XorStep(f, sums, s) BY <2>1 DEF Xors
      <4> QED BY <4>1, <4>2
    <3>3. XorStep(f, sums, s) = XorStep(g, sums, s)
      <4>1. CASE s = {} BY <4>1 DEF XorStep
      <4>2. CASE s # {}
        <5> DEFINE r == s \ {CHOOSE x \in s : TRUE}
        <5>1. r \in SUBSET G /\ Cardinality(r) = Cardinality(s) - 1 BY <3>1, <4>2, OneLess
        <5>2. Cardinality(r) <= n /\ Cardinality(r) <= n + 1 BY <2>0, <3>1, <5>1
        <5>3. r \in D BY <5>1, <5>2 DEF UpTo
        <5> HIDE DEF r, D
        <5>4. g[r] = f[r] BY <5>2, <5>3
        <5> HIDE DEF g
        <5> QED BY <4>2, <5>4 DEF XorStep, r
      <4> QED BY <4>1, <4>2
    <3> QED BY <3>2, <3>3
  <2>3. DOMAIN g = D /\ g = [s \in D |-> g[s]] OBVIOUS
  <2> HIDE DEF g
  <2>4. Xors(g, sums, UpTo(G, n + 1)) BY <2>2, <2>3 DEF Xors
  <2> QED BY <2>0, <2>4
<1>3. T = Nat
  <2>1. T \in SUBSET Nat OBVIOUS
  <2> HIDE DEF T
  <2> QED BY <1>1, <1>2, <2>1, SetInduction
<1>4. Cardinality(G) \in Nat BY <1>0
<1>5. UpTo(G, Cardinality(G)) = SUBSET G
  <2>1. \A s \in SUBSET G : Cardinality(s) <= Cardinality(G) BY FS_Subset
  <2> QED BY <2>1 DEF UpTo
<1>6. Cardinality(G) \in T BY <1>3, <1>4
<1> QED BY <1>5, <1>6

Only(sums, s, r, m) == m \in s /\ r \in sums[m] /\ \A i \in s : r \in sums[i] => i = m

LEMMA XorHas ==
  ASSUME NEW G, IsFiniteSet(G), NEW sums, NEW f, Xors(f, sums, SUBSET G), NEW r
  PROVE  \A s \in SUBSET G : /\ (\A i \in s : r \notin sums[i]) => r \notin f[s]
                             /\ (\E m : Only(sums, s, r, m)) => r \in f[s]
<1> DEFINE P(s) == /\ (\A i \in s : r \notin sums[i]) => r \notin f[s]
                   /\ (\E m : Only(sums, s, r, m)) => r \in f[s]
           T == {n \in Nat : \A s \in SUBSET G : Cardinality(s) = n => P(s)}
<1>0. \A s \in SUBSET G : IsFiniteSet(s) /\ Cardinality(s) \in Nat /\ (Cardinality(s) = 0 <=> s = {})
  BY FS_Subset, FS_CardinalityType, FS_EmptySet
<1>1. \A s \in SUBSET G : f[s] = XorStep(f, sums, s) BY DEF Xors
<1>2. 0 \in T
  <2>1. ASSUME NEW s \in SUBSET G, Cardinality(s) = 0 PROVE P(s)
    <3>1. s = {} BY <1>0, <2>1
    <3>2. f[s] = {} BY <1>1, <3>1 DEF XorStep
    <3> QED BY <3>1, <3>2 DEF Only
  <2> QED BY <2>1
<1>3. ASSUME NEW n \in T PROVE n + 1 \in T
  <2>0. n \in Nat OBVIOUS
  <2>1. ASSUME NEW s \in SUBSET G, Cardinality(s) = n + 1 PROVE P(s)
    <3> DEFINE c == CHOOSE x \in s : TRUE
               q == s \ {CHOOSE x \in s : TRUE}
    <3>1. s # {} BY <1>0, <2>0, <2>1
    <3>2. c \in s /\ q \in SUBSET G /\ Cardinality(q) = n BY <2>0, <2>1, <3>1, OneLess
    <3>3. P(q) BY <3>2
    <3>4. f[s] = Xor(sums[c], f[q]) BY <1>1, <3>1 DEF XorStep
    <3>5. q = s \ {c} OBVIOUS
    <3> HIDE DEF c, q
    <3>6. r \in f[s] <=> ((r \in sums[c] /\ r \notin f[q]) \/ (r \notin sums[c] /\ r \in f[q]))
      BY <3>4 DEF Xor
    <3>7. (\A i \in s : r \notin sums[i]) => r \notin f[s] BY <3>2, <3>3, <3>5, <3>6
    <3>8. ASSUME NEW m, Only(sums, s, r, m) PROVE r \in f[s]
      <4>1. m \in s /\ r \in sums[m] /\ \A i \in s : r \in sums[i] => i = m BY <3>8 DEF Only
      <4>2. CASE m = c
        <5>1. \A i \in q : r \notin sums[i] BY <3>5, <4>1, <4>2
        <5> QED BY <3>3, <3>6, <4>1, <4>2, <5>1
      <4>3. CASE m # c
        <5>1. r \notin sums[c] BY <3>2, <4>1, <4>3
        <5>2. Only(sums, q, r, m) BY <3>5, <4>1, <4>3 DEF Only
        <5> QED BY <3>3, <3>6, <5>1, <5>2
      <4> QED BY <4>2, <4>3
    <3> QED BY <3>7, <3>8
  <2> HIDE DEF P
  <2> QED BY <2>0, <2>1
<1>4. T = Nat
  <2>1. T \in SUBSET Nat OBVIOUS
  <2> HIDE DEF T
  <2> QED BY <1>2, <1>3, <2>1, SetInduction
<1>5. ASSUME NEW s \in SUBSET G PROVE P(s)
  <2>1. Cardinality(s) \in T BY <1>0, <1>4
  <2> QED BY <2>1
<1> QED BY <1>5

LEMMA TotalHas ==
  ASSUME NEW G, IsFiniteSet(G), NEW sums, NEW r, NEW m, Only(sums, G, r, m)
  PROVE  r \in TotalSum(sums, G)
<1> DEFINE f == CHOOSE g : Xors(g, sums, SUBSET G)
<1>1. TotalSum(sums, G) = f[G]
  BY DEF TotalSum, FoldFunctionOnSet, MapThenFoldSet, Xors, XorStep
<1>2. Xors(f, sums, SUBSET G)
  <2>1. \E g : Xors(g, sums, SUBSET G) BY XorsExist
  <2> QED BY <2>1
<1> HIDE DEF f
<1>3. G \in SUBSET G OBVIOUS
<1>4. r \in f[G] BY <1>2, <1>3, XorHas
<1> QED BY <1>1, <1>4

(* A move picks up row k where it finds it, and takes it to its new shard. *)
Picks(new, mv, k) == InRange(mv, k) /\ RoutesTo(new, mv, k)

(* Of the moves from the shard that has row k one and only one picks it    *)
(* up, if the row changes its shard; and only a full copy picks up a row   *)
(* on a shard that is not its own.                                         *)
OneMove(ms, old, new, k) ==
  \E m \in 1..Len(ms) :
    /\ ms[m].from = ShardFor(old, k) /\ ms[m].to = ShardFor(new, k) /\ Picks(new, ms[m], k)
    /\ \A i \in 1..Len(ms) : ms[i].from = ShardFor(old, k) /\ Picks(new, ms[i], k) => i = m

Carried(ms, old, new) ==
  /\ \A m \in 1..Len(ms) : ms[m].from = ms[m].to => ms[m].full
  /\ \A k \in Keys :
       /\ ShardFor(old, k) # ShardFor(new, k) => OneMove(ms, old, new, k)
       /\ \A m \in 1..Len(ms) : Picks(new, ms[m], k) =>
            /\ ms[m].to = ShardFor(new, k)
            /\ ~ms[m].full => ms[m].from = ShardFor(old, k)

LEMMA RangeCarried ==
  ASSUME NEW old, NEW new, NEW ms, Moved(old, new, ms, NoHigh)
  PROVE  Carried(ms, old, new)
<1>1. ms \in Seq(MoveType(old, new)) /\ DOMAIN ms = 1..Len(ms) BY DEF Moved
<1>2. ASSUME NEW k \in Keys, NEW m \in 1..Len(ms), Picks(new, ms[m], k)
      PROVE  ms[m].to = ShardFor(new, k) /\ ms[m].from = ShardFor(old, k) /\ ms[m].from # ms[m].to
  <2>1. Right(old, new, ms[m]) BY DEF Moved
  <2> QED BY <1>2, <2>1 DEF Right, Picks
<1>3. ASSUME NEW k \in Keys, ShardFor(old, k) # ShardFor(new, k) PROVE OneMove(ms, old, new, k)
  <2>1. k < NoHigh BY KeysAre
  <2>2. PICK j \in 1..Len(ms) : InRange(ms[j], k) BY <1>3, <2>1 DEF Moved
  <2>3. Right(old, new, ms[j]) BY DEF Moved
  <2>4. Picks(new, ms[j], k) BY <2>2, <2>3 DEF Right, RoutesTo, Picks
  <2>5. ASSUME NEW i \in 1..Len(ms), Picks(new, ms[i], k) PROVE i = j
    <3>3. ms[i] \in MoveType(old, new) /\ ms[j] \in MoveType(old, new) BY <1>1
    <3>4. /\ ms[i].low \in Int /\ ms[i].high \in Int
          /\ ms[j].low \in Int /\ ms[j].high \in Int /\ k \in Int
      BY <3>3, EndsAre, KeysAre DEF MoveType
    <3>5. /\ ms[i].low <= k /\ k < ms[i].high /\ ms[j].low <= k /\ k < ms[j].high
      BY <2>2, <2>5 DEF InRange, Picks
    <3>6. ~(i < j)
      <4>1. i < j => ms[i].high <= ms[j].low BY DEF Moved
      <4> QED BY <3>4, <3>5, <4>1
    <3>7. ~(j < i)
      <4>1. j < i => ms[j].high <= ms[i].low BY DEF Moved
      <4> QED BY <3>4, <3>5, <4>1
    <3> QED BY <3>6, <3>7
  <2> QED BY <1>2, <2>4, <2>5 DEF OneMove
<1>4. ASSUME NEW m \in 1..Len(ms) PROVE ms[m].from # ms[m].to
  <2>1. Right(old, new, ms[m]) BY DEF Moved
  <2> QED BY <2>1 DEF Right
<1> QED BY <1>2, <1>3, <1>4 DEF Carried

(* No two places in a list of rows are of the same pair.                   *)
LEMMA PlaceIs ==
  ASSUME NEW n \in Nat \ {0}, NEW i \in Nat \ {0}, NEW j \in Nat \ {0},
         (i - 1) \div n = (j - 1) \div n, (i - 1) % n = (j - 1) % n
  PROVE  i = j
<1> DEFINE a == i - 1
           b == j - 1
<1>1. a \in Nat /\ b \in Nat OBVIOUS
<1>2. a \div n = b \div n /\ a % n = b % n OBVIOUS
<1> HIDE DEF a, b
<1>3. ASSUME NEW c \in Nat PROVE c = (c \div n) * n + (c % n)
  <2> DEFINE q == c \div n
             r == c % n
  <2>1. q \in Nat /\ r \in 0..(n - 1) /\ c = q * n + r BY SMTT(30)
  <2> QED BY <2>1
<1>4. a = (a \div n) * n + (a % n) /\ b = (b \div n) * n + (b % n) BY <1>1, <1>3
<1>5. a = b BY <1>2, <1>4
<1> QED BY <1>5 DEF a, b

LEMMA SameShard ==
  ASSUME NEW c, Valid(c), NEW i \in 1..Len(c.shards), NEW j \in 1..Len(c.shards),
         c.shards[i] = c.shards[j]
  PROVE  i = j
<1>1. c.shards \in Seq(ToSet(c.shards)) /\ IsInjective(c.shards) BY DEF Valid, IsCatalog
<1>2. DOMAIN c.shards = 1..Len(c.shards) BY <1>1
<1> QED BY <1>1, <1>2 DEF IsInjective

LEMMA FullCarried ==
  ASSUME NEW old, NEW new, Valid(old), Valid(new)
  PROVE  Carried(FullCopyMoves(old, new), old, new)
<1> DEFINE m == Len(old.shards)
           n == Len(new.shards)
           ms == FullCopyMoves(old, new)
           copy(i) == [from |-> old.shards[1 + ((i - 1) \div n)],
                       to   |-> new.shards[1 + ((i - 1) % n)],
                       full |-> TRUE, low |-> MinKey, high |-> NoHigh]
<1>1. m \in Nat /\ n \in Nat \ {0}
  <2>1. /\ old.shards \in Seq(ToSet(old.shards)) /\ new.shards \in Seq(ToSet(new.shards))
        /\ new.shards # <<>>
    BY DEF Valid, IsCatalog
  <2> QED BY <2>1
<1>2. ms = [i \in 1..(m * n) |-> copy(i)] BY DEF FullCopyMoves
<1> HIDE DEF m, n, ms
<1>3. Len(ms) = m * n
  <2>1. m * n \in Nat BY <1>1
  <2> HIDE DEF copy
  <2> QED BY <1>2, <2>1
<1>4. ASSUME NEW i \in 1..(m * n)
      PROVE  /\ ms[i].full = TRUE /\ ms[i].low = MinKey /\ ms[i].high = NoHigh
             /\ ms[i].from = old.shards[1 + ((i - 1) \div n)]
             /\ ms[i].to = new.shards[1 + ((i - 1) % n)]
  BY <1>2
<1>5. ASSUME NEW k \in Keys, NEW i \in 1..(m * n)
      PROVE  Picks(new, ms[i], k) <=> ms[i].to = ShardFor(new, k)
  <2>1. MinKey <= k /\ k < NoHigh BY KeysAre
  <2> QED BY <1>4, <2>1 DEF Picks, InRange, RoutesTo
<1>6. ASSUME NEW k \in Keys PROVE OneMove(ms, old, new, k)
  <2>1. PICK a \in 1..m : ShardFor(old, k) = old.shards[a] BY ShardForIs DEF m
  <2>2. PICK b \in 1..n : ShardFor(new, k) = new.shards[b] BY ShardForIs DEF n
  <2>3. ASSUME NEW i \in 1..(m * n), ms[i].from = ShardFor(old, k), ms[i].to = ShardFor(new, k)
        PROVE  1 + ((i - 1) \div n) = a /\ 1 + ((i - 1) % n) = b
    <3> DEFINE x == 1 + ((i - 1) \div n)
               y == 1 + ((i - 1) % n)
    <3>1. x \in 1..m /\ y \in 1..n BY <1>1, RowOf
    <3>2. old.shards[x] = old.shards[a] /\ new.shards[y] = new.shards[b] BY <1>4, <2>1, <2>2, <2>3
    <3> HIDE DEF x, y
    <3>3. x = a BY <3>1, <3>2, SameShard DEF m
    <3>4. y = b BY <3>1, <3>2, SameShard DEF n
    <3> QED BY <3>3, <3>4 DEF x, y
  <2>4. Placed(m, n, a, b) BY <1>1, RowByRow
  <2>5. PICK i \in 1..(m * n) : 1 + ((i - 1) \div n) = a /\ 1 + ((i - 1) % n) = b
    BY <2>4, Zenon DEF Placed
  <2>6. ms[i].from = ShardFor(old, k) /\ ms[i].to = ShardFor(new, k)
    BY <1>4, <2>1, <2>2, <2>5
  <2>7. ASSUME NEW j \in 1..(m * n), ms[j].from = ShardFor(old, k), Picks(new, ms[j], k)
        PROVE  j = i
    <3>1. 1 + ((j - 1) \div n) = a /\ 1 + ((j - 1) % n) = b BY <1>5, <2>3, <2>7
    <3>2. i \in Nat \ {0} /\ j \in Nat \ {0} BY <1>1
    <3>3. (i - 1) \div n \in Int /\ (j - 1) \div n \in Int /\ (i - 1) % n \in Int /\ (j - 1) % n \in Int
      BY <1>1, <3>2
    <3>4. (i - 1) \div n = (j - 1) \div n /\ (i - 1) % n = (j - 1) % n BY <2>5, <3>1, <3>3
    <3> QED BY <1>1, <3>2, <3>4, PlaceIs
  <2> QED BY <1>3, <1>5, <2>5, <2>6, <2>7 DEF OneMove
<1> QED BY <1>3, <1>4, <1>5, <1>6 DEF Carried, ms

LEMMA DiffCarried ==
  ASSUME NEW old, NEW new, Valid(old), Valid(new)
  PROVE  Carried(Diff(old, new), old, new)
<1>1. CASE old.algorithm = "range" /\ new.algorithm = "range"
  <2>1. Moved(old, new, RangeMoves(old, new), NoHigh) BY <1>1, RangeMovesAre
  <2>2. Carried(RangeMoves(old, new), old, new) BY <2>1, RangeCarried
  <2> QED BY <1>1, <2>2 DEF Diff
<1>2. CASE /\ ~(old.algorithm = "range" /\ new.algorithm = "range")
           /\ old.algorithm = new.algorithm /\ old.shards = new.shards
  <2>1. \A k : ShardFor(old, k) = ShardFor(new, k) BY <1>2 DEF ShardFor
  <2>2. 1..Len(<<>>) = {} OBVIOUS
  <2>3. Carried(<<>>, old, new) BY <2>1, <2>2 DEF Carried
  <2> QED BY <1>2, <2>3 DEF Diff
<1>3. CASE /\ ~(old.algorithm = "range" /\ new.algorithm = "range")
           /\ ~(old.algorithm = new.algorithm /\ old.shards = new.shards)
  BY <1>3, FullCarried DEF Diff
<1> QED BY <1>1, <1>2, <1>3

-----------------------------------------------------------------------------
(* Where a row's copies are, and which of them are up to date.             *)

OldShard(t, k) == ShardFor(t.old, k)
NewShard(t, k) == ShardFor(t.new, k)
SelfMove(t, p, k) ==
  \E m \in 1..Len(p) : /\ p[m].from = OldShard(t, k) /\ p[m].to = p[m].from
                       /\ RoutesTo(t.new, p[m], k)
GroupOf(p, s) == {m \in 1..Len(p) : p[m].to = s}

(* A batch has rows that belong on the target of its move.                 *)
BatchOK(l, t, p, lat) ==
  \A r \in l.batch : /\ r[2] <= lat[r[1]] /\ NewShard(t, r[1]) = p[l.move].to
                     /\ OldShard(t, r[1]) = NewShard(t, r[1]) => SelfMove(t, p, r[1])

(* Rows are only where the old or the new catalog looks for them; a write  *)
(* goes to these two; verify saves jobs of the target it has compared.     *)
Copies ==
  /\ \A k \in Keys : \A s \in Shards :
       /\ s # OldShard(setup, k) /\ s # NewShard(setup, k) => data[s][k] = 0
       /\ data[s][k] <= latest[k]
  /\ \A o \in Ops : pc[o] = "copy" => BatchOK(loc[o], setup, plan, latest)
  /\ \A o \in Ops : pc[o] = "verified" => loc[o].batch \subseteq GroupOf(plan, Targets[loc[o].move])
  /\ app.pc # "idle" =>
       \/ app.primary = OldShard(setup, app.key) /\ app.mirror = NewShard(setup, app.key)
       \/ app.primary = NewShard(setup, app.key) /\ app.mirror = OldShard(setup, app.key)
  /\ app.pc = "mirror" => app.primary # app.mirror

(* The copy is as the application wrote it, or will be by the write in     *)
(* flight.                                                                 *)
UpToDate(d, lat, a, k, s) ==
  d[s][k] = lat[k] \/ (a.pc = "mirror" /\ a.key = k /\ a.mirror = s)

(* A process that has compared target s, or is past cutover's check.       *)
Vouches(p, l, T, s) == p \in {"reload", "done"} \/ (p = "verified" /\ T[l.move] = s)
Passed == {"verified", "done"}

(* The targets that somebody may read from: they have been compared.       *)
Sure ==
  {s \in Shards : \/ router = "new"
                  \/ \A m \in GroupOf(plan, s) : job[m].phase \in Passed
                  \/ \E o \in Ops : Vouches(pc[o], loc[o], Targets, s)}

(* The checksum of the source has the row, unless the target has the same. *)
Seen(sum, d, t, k) ==
  LET a == d[OldShard(t, k)][k]
  IN  a # 0 /\ a # d[NewShard(t, k)][k] => <<k, a>> \in sum

(* The old copy of a row is up to date, and the new one once verify has    *)
(* compared it; in between verify has the checksum of a source that it     *)
(* will find different from a target that is not up to date.               *)
FreshRow(k) ==
  /\ ~SelfMove(setup, plan, k) => UpToDate(data, latest, app, k, OldShard(setup, k))
  /\ OldShard(setup, k) # NewShard(setup, k) =>
       /\ NewShard(setup, k) \in Sure => UpToDate(data, latest, app, k, NewShard(setup, k))
       /\ \A o \in Ops : pc[o] = "target" /\ Targets[loc[o].move] = NewShard(setup, k) =>
            \/ UpToDate(data, latest, app, k, NewShard(setup, k))
            \/ Seen(loc[o].sum, data, setup, k)
Fresh ==
  ~overlap => /\ app.pc = "mirror" => data[app.primary][app.key] = latest[app.key]
              /\ \A k \in Keys \ behind : FreshRow(k)

CInv == TInv /\ Copies /\ Fresh

(* What the plan says of a migration's rows.                               *)
LEMMA RowsMove ==
  ASSUME Planned
  PROVE  /\ Carried(plan, setup.old, setup.new)
         /\ \A k \in Keys : OldShard(setup, k) \in Shards /\ NewShard(setup, k) \in Shards
         /\ \A m \in 1..Len(plan) : plan[m].to \in Shards /\ plan[m].full \in BOOLEAN
         /\ \A s : Group(s) = GroupOf(plan, s)
         /\ \A k \in Keys : SelfCopied(k) <=> SelfMove(setup, plan, k)
         /\ \A k \in Keys : OldShard(setup, k) # NewShard(setup, k) =>
              GroupOf(plan, NewShard(setup, k)) # {}
<1>0. MoveIds = 1..Len(plan) BY PlanIs
<1>1. setup \in Setups /\ Valid(setup.old) /\ Valid(setup.new) BY SetupsAssumption DEF Planned
<1>2. plan \in Seq(MoveType(setup.old, setup.new)) BY <1>1, DiffIs DEF Planned
<1>3. Carried(plan, setup.old, setup.new) BY <1>1, DiffCarried DEF Planned
<1>4. ASSUME NEW m \in 1..Len(plan) PROVE plan[m].to \in Shards /\ plan[m].full \in BOOLEAN
  <2>1. plan[m] \in MoveType(setup.old, setup.new) BY <1>2
  <2>2. plan[m].to \in ToSet(setup.new.shards) /\ plan[m].full \in BOOLEAN BY <2>1 DEF MoveType
  <2> QED BY <1>1, <2>2 DEF Shards
<1>5. ASSUME NEW k \in Keys PROVE OldShard(setup, k) \in Shards /\ NewShard(setup, k) \in Shards
  <2>1. PICK i \in 1..Len(setup.old.shards) : ShardFor(setup.old, k) = setup.old.shards[i]
    BY <1>1, ShardForIs
  <2>2. PICK j \in 1..Len(setup.new.shards) : ShardFor(setup.new, k) = setup.new.shards[j]
    BY <1>1, ShardForIs
  <2>3. setup.old.shards[i] \in ToSet(setup.old.shards) /\ setup.new.shards[j] \in ToSet(setup.new.shards)
    BY <1>1 DEF Valid, IsCatalog
  <2> QED BY <1>1, <2>1, <2>2, <2>3 DEF Shards, OldShard, NewShard
<1>6. ASSUME NEW k \in Keys, OldShard(setup, k) # NewShard(setup, k)
      PROVE  GroupOf(plan, NewShard(setup, k)) # {}
  <2>1. OneMove(plan, setup.old, setup.new, k) BY <1>3, <1>6 DEF Carried, OldShard, NewShard
  <2>2. \E m \in 1..Len(plan) : plan[m].to = NewShard(setup, k) BY <2>1 DEF OneMove, NewShard
  <2> QED BY <2>2 DEF GroupOf
<1>7. \A s : Group(s) = GroupOf(plan, s) BY <1>0 DEF Group, GroupOf
<1>8. \A k \in Keys : SelfCopied(k) <=> SelfMove(setup, plan, k)
  BY <1>0 DEF SelfCopied, SelfMove, OldShard
<1> QED BY <1>3, <1>4, <1>5, <1>6, <1>7, <1>8

LEMMA CopiesInit == Init => CInv
<1> SUFFICES ASSUME Init PROVE CInv OBVIOUS
<1>1. TInv BY TypesInit
<1>2. Planned BY <1>1 DEF TInv, FInv
<1>3. /\ Ops \subseteq Holders /\ MoveIds = 1..Len(plan)
      /\ \A k \in Keys : OldShard(setup, k) \in Shards /\ NewShard(setup, k) \in Shards
      /\ \A k \in Keys : OldShard(setup, k) # NewShard(setup, k) =>
           GroupOf(plan, NewShard(setup, k)) # {}
  BY <1>2, PlanIs, RowsMove
<1>4. /\ app.pc = "idle" /\ router = "old" /\ \A o \in Ops : pc[o] = "idle"
      /\ \A m \in 1..Len(plan) : job[m].phase = "none"
  BY <1>3 DEF Init, NoWrite, NoJob
<1>5. ASSUME NEW k \in Keys, NEW s \in Shards
      PROVE  /\ data[s][k] = IF s = OldShard(setup, k) THEN latest[k] ELSE 0
             /\ latest[k] \in {0, 1}
  BY DEF Init, OldShard
<1>6. Copies
  <2>1. \A k \in Keys : \A s \in Shards :
          /\ s # OldShard(setup, k) /\ s # NewShard(setup, k) => data[s][k] = 0
          /\ data[s][k] <= latest[k]
    BY <1>5
  <2> QED BY <1>4, <2>1 DEF Copies
<1>7. Fresh
  <2>1. ASSUME NEW k \in Keys PROVE FreshRow(k)
    <3>1. UpToDate(data, latest, app, k, OldShard(setup, k)) BY <1>3, <1>5 DEF UpToDate
    <3>2. OldShard(setup, k) # NewShard(setup, k) => NewShard(setup, k) \notin Sure
      <4>1. \A m \in GroupOf(plan, NewShard(setup, k)) : job[m].phase \notin Passed
        BY <1>4 DEF GroupOf, Passed
      <4>2. \A o \in Ops : ~Vouches(pc[o], loc[o], Targets, NewShard(setup, k)) BY <1>4 DEF Vouches
      <4> QED BY <1>3, <1>4, <4>1, <4>2 DEF Sure
    <3> QED BY <1>4, <3>1, <3>2 DEF FreshRow
  <2> QED BY <1>4, <2>1 DEF Fresh
<1> QED BY <1>1, <1>6, <1>7 DEF CInv

(* The steps of a process that touch no row and compare nothing.           *)
Quiet(o) ==
  \/ OpenMove(o) \/ Reopen(o) \/ CheckFence(o) \/ SaveChunk(o) \/ EndBackfill(o) \/ VerifyLoad(o)
  \/ Reload(o) \/ SaveFinal(o) \/ Backfill(o) \/ StartVerify(o) \/ Cutover(o) \/ Rollback(o)
  \/ BackfillLost(o) \/ Fail(o) \/ Crash(o)
Process(o) ==
  Quiet(o) \/ ScanChunk(o) \/ CopyRow(o) \/ VerifySource(o) \/ VerifyTarget(o) \/ SaveVerified(o)

LEMMA NextIs ==
  ASSUME Next
  PROVE  \/ \E o \in Ops : Process(o)
         \/ \E k \in Keys : BindWrite(k)
         \/ WritePrimary \/ WriteMirror \/ MirrorFails \/ Lapse
BY DEF Next, Step, Process, Quiet

LEMMA ProcessStep ==
  ASSUME TInv, NEW o \in Ops, Process(o)
  PROVE  /\ UNCHANGED <<latest, app, behind>>
         /\ \A q \in Ops : q # o => pc'[q] = pc[q] /\ loc'[q] = loc[q]
         /\ \A p : To(o, p) => pc'[o] = p
         /\ \A l : Set(o, l) => loc'[o] = l
         /\ Return(o) => pc'[o] = "idle" /\ loc'[o] = Local
<1>0. Ops \subseteq Holders BY PlanIs DEF TInv, FInv
<1>1. /\ DOMAIN pc = Holders /\ pc = [q \in Holders |-> pc[q]]
      /\ DOMAIN loc = Holders /\ loc = [q \in Holders |-> loc[q]]
  BY DEF TInv, FInv, ProcTypes, OfHolders
<1>2. UNCHANGED <<latest, app, behind>>
  <2>1. CASE Quiet(o)
    BY <2>1 DEF Quiet, history, OpenMove, Reopen, CheckFence, SaveChunk, EndBackfill, VerifyLoad,
       Reload, SaveFinal, Backfill, StartVerify, Cutover, Rollback, BackfillLost, Fail, Crash
  <2>2. CASE ~Quiet(o)
    BY <2>2 DEF Process, history, ScanChunk, CopyRow, VerifySource, VerifyTarget, SaveVerified
  <2> QED BY <2>1, <2>2
<1>3. UNCHANGED pc \/ \E p : To(o, p)
  <2>1. CASE Quiet(o)
    BY <2>1 DEF Quiet, OpenMove, Reopen, CheckFence, SaveChunk, EndBackfill, VerifyLoad,
       Reload, SaveFinal, Backfill, StartVerify, Cutover, Rollback, BackfillLost, Fail, Crash, Return
  <2>2. CASE ~Quiet(o)
    BY <2>2 DEF Process, ScanChunk, CopyRow, VerifySource, VerifyTarget, SaveVerified, Return
  <2> QED BY <2>1, <2>2
<1>4. UNCHANGED loc \/ \E l : Set(o, l)
  <2>1. CASE Quiet(o)
    BY <2>1 DEF Quiet, OpenMove, Reopen, CheckFence, SaveChunk, EndBackfill, VerifyLoad,
       Reload, SaveFinal, Backfill, StartVerify, Cutover, Rollback, BackfillLost, Fail, Crash, Return
  <2>2. CASE ~Quiet(o)
    BY <2>2 DEF Process, ScanChunk, CopyRow, VerifySource, VerifyTarget, SaveVerified, Return
  <2> QED BY <2>1, <2>2
<1>5. ASSUME NEW q \in Ops, q # o PROVE pc'[q] = pc[q] /\ loc'[q] = loc[q]
  BY <1>0, <1>1, <1>3, <1>4, <1>5 DEF To, Set
<1>6. ASSUME NEW p, To(o, p) PROVE pc'[o] = p BY <1>0, <1>1, <1>6 DEF To
<1>7. ASSUME NEW l, Set(o, l) PROVE loc'[o] = l BY <1>0, <1>1, <1>7 DEF Set
<1> QED BY <1>2, <1>5, <1>6, <1>7 DEF Return

LEMMA QuietStep ==
  ASSUME TInv, NEW o \in Ops, Quiet(o)
  PROVE  /\ UNCHANGED <<data, overlap>>
         /\ pc'[o] \notin {"copy", "verified", "target"}
<1>1. UNCHANGED <<data, overlap>>
    BY DEF Quiet, history, OpenMove, Reopen, CheckFence, SaveChunk, EndBackfill, VerifyLoad,
       Reload, SaveFinal, Backfill, StartVerify, Cutover, Rollback, BackfillLost, Fail, Crash
<1>2. Process(o) BY DEF Process
<1>3. /\ \A p : To(o, p) => pc'[o] = p
      /\ Return(o) => pc'[o] = "idle"
  BY <1>2, ProcessStep
<1>4. CASE OpenMove(o) BY <1>1, <1>3, <1>4 DEF OpenMove, AfterOpen
<1>5. CASE Reopen(o) BY <1>1, <1>3, <1>5 DEF Reopen
<1>6. CASE CheckFence(o) BY <1>1, <1>3, <1>6 DEF CheckFence
<1>7. CASE SaveChunk(o) BY <1>1, <1>3, <1>7 DEF SaveChunk
<1>8. CASE EndBackfill(o) BY <1>1, <1>3, <1>8 DEF EndBackfill
<1>9. CASE VerifyLoad(o) BY <1>1, <1>3, <1>9 DEF VerifyLoad
<1>10. CASE Reload(o) BY <1>1, <1>3, <1>10 DEF Reload
<1>11. CASE SaveFinal(o) BY <1>1, <1>3, <1>11 DEF SaveFinal
<1>12. CASE Backfill(o) BY <1>1, <1>3, <1>12 DEF Backfill
<1>13. CASE StartVerify(o) BY <1>1, <1>3, <1>13 DEF StartVerify
<1>14. CASE Cutover(o) BY <1>1, <1>3, <1>14 DEF Cutover
<1>15. CASE Rollback(o) BY <1>1, <1>3, <1>15 DEF Rollback
<1>16. CASE BackfillLost(o) BY <1>1, <1>3, <1>16 DEF BackfillLost
<1>17. CASE Fail(o) BY <1>1, <1>3, <1>17 DEF Fail
<1>18. CASE Crash(o) BY <1>1, <1>3, <1>18 DEF Crash
<1> QED BY <1>1, <1>4, <1>5, <1>6, <1>7, <1>8, <1>9, <1>10, <1>11, <1>12, <1>13, <1>14, <1>15, <1>16, <1>17, <1>18 DEF Quiet

TargetsOf(p) ==
  LET seen == {m \in DOMAIN p : \A n \in 1..(m - 1) : p[n].to # p[m].to}
  IN  [i \in 1..Cardinality(seen) |->
         p[CHOOSE m \in seen : Cardinality({n \in seen : n <= m}) = i].to]

LEMMA SameTargets == plan' = plan => Targets' = Targets
<1>1. Targets = TargetsOf(plan) BY DEF Targets, TargetsOf, MoveIds
<1>2. Targets' = TargetsOf(plan') BY DEF Targets, TargetsOf, MoveIds
<1> HIDE DEF TargetsOf
<1> QED BY <1>1, <1>2

LEMMA ChunkRows ==
  ASSUME NEW s, NEW mv, NEW c, NEW k \in Chunk(s, mv, c)
  PROVE  k \in Keys /\ data[s][k] # 0 /\ InRange(mv, k)
BY DEF Chunk, Scan

LEMMA CopiesStep ==
  ASSUME CInv, Next PROVE Copies'
<1>0. /\ Len(plan) \in Nat /\ MoveIds = 1..Len(plan) /\ Ops \subseteq Holders
      /\ \A m \in 1..Len(plan) : plan[m].from \in Shards
      /\ setup' = setup /\ plan' = plan /\ TInv /\ Planned
  BY FixedStep, PlanIs DEF CInv, TInv, FInv, fixed
<1>1. Ops' = Ops /\ Targets' = Targets BY <1>0, SameTargets DEF Ops
<1>2. /\ Carried(plan, setup.old, setup.new)
      /\ \A k \in Keys : OldShard(setup, k) \in Shards /\ NewShard(setup, k) \in Shards
      /\ \A m \in 1..Len(plan) : plan[m].to \in Shards /\ plan[m].full \in BOOLEAN
      /\ \A s : Group(s) = GroupOf(plan, s)
  BY <1>0, RowsMove
<1>3. /\ \A k \in Keys : \A s \in Shards :
           /\ s # OldShard(setup, k) /\ s # NewShard(setup, k) => data[s][k] = 0
           /\ data[s][k] <= latest[k]
      /\ \A q \in Ops : pc[q] = "copy" => BatchOK(loc[q], setup, plan, latest)
      /\ \A q \in Ops : pc[q] = "verified" => loc[q].batch \subseteq GroupOf(plan, Targets[loc[q].move])
  BY DEF CInv, Copies
<1>4. /\ app.pc # "idle" =>
           \/ app.primary = OldShard(setup, app.key) /\ app.mirror = NewShard(setup, app.key)
           \/ app.primary = NewShard(setup, app.key) /\ app.mirror = OldShard(setup, app.key)
      /\ app.pc = "mirror" => app.primary # app.mirror
  BY DEF CInv, Copies
<1>5. \A q \in Ops : LocOK(pc[q], loc[q], setup, Len(plan)) /\ IsLocal(loc[q])
  BY <1>0 DEF TInv, RowTypes, FInv, ProcTypes
<1>6. /\ data \in [Shards -> [Keys -> Versions(setup)]] /\ latest \in [Keys -> Nat]
      /\ app.key \in Keys
  <2>1. latest \in [Keys -> 0..(1 + writes)] /\ writes \in Nat
    BY <1>0, PlanIs DEF TInv, AppTypes
  <2>2. latest \in [Keys -> Nat] BY <2>1
  <2> QED BY <1>0, <2>2 DEF TInv, RowTypes, AppTypes
<1>7. ASSUME NEW o \in Ops, Process(o), UNCHANGED data,
             pc'[o] = "copy" => BatchOK(loc'[o], setup, plan, latest),
             pc'[o] = "verified" => loc'[o].batch \subseteq GroupOf(plan, Targets[loc'[o].move])
      PROVE  Copies'
  <2>1. /\ UNCHANGED <<latest, app>>
        /\ \A q \in Ops : q # o => pc'[q] = pc[q] /\ loc'[q] = loc[q]
    BY <1>0, <1>7, ProcessStep
  <2>2. \A q \in Ops : pc'[q] = "copy" => BatchOK(loc'[q], setup, plan, latest)
    BY <1>3, <1>7, <2>1
  <2>3. \A q \in Ops : pc'[q] = "verified" => loc'[q].batch \subseteq GroupOf(plan, Targets[loc'[q].move])
    BY <1>3, <1>7, <2>1
  <2> QED BY <1>0, <1>1, <1>3, <1>4, <1>7, <2>1, <2>2, <2>3 DEF Copies
<1>8. ASSUME UNCHANGED <<data, latest, pc, loc>>,
             app'.pc # "idle" =>
                \/ app'.primary = OldShard(setup, app'.key) /\ app'.mirror = NewShard(setup, app'.key)
                \/ app'.primary = NewShard(setup, app'.key) /\ app'.mirror = OldShard(setup, app'.key),
             app'.pc = "mirror" => app'.primary # app'.mirror
      PROVE  Copies'
  BY <1>0, <1>1, <1>3, <1>8 DEF Copies
<1>9. ASSUME NEW o \in Ops, Quiet(o) PROVE Copies'
  <2>1. Process(o) BY <1>9 DEF Process
  <2> QED BY <1>0, <1>7, <1>9, <2>1, QuietStep
<1>10. ASSUME NEW o \in Ops, ScanChunk(o) PROVE Copies'
  <2> DEFINE l == loc[o]
             mv == plan[l.move]
             keys == Chunk(mv.from, mv, l.job.cursor)
             C == {j \in keys : RoutesTo(setup.new, mv, j)}
             b == Rows(C, data[mv.from])
             last == CHOOSE k \in keys : \A j \in keys : j <= k
             e == [l EXCEPT !.last = last, !.batch = b]
  <2>1. /\ pc[o] = "scan" /\ UNCHANGED data /\ Process(o)
        /\ \/ To(o, "open")
           \/ To(o, "copy") /\ Set(o, e)
    BY <1>10 DEF ScanChunk, Process, Rows
  <2>2. l.move \in 1..Len(plan) /\ IsLocal(l) BY <1>5, <2>1 DEF LocOK
  <2>3. (\A p : To(o, p) => pc'[o] = p) /\ (\A x : Set(o, x) => loc'[o] = x)
    BY <1>0, <2>1, ProcessStep
  <2>4. CASE To(o, "open") BY <1>7, <2>1, <2>3, <2>4
  <2>5. CASE To(o, "copy") /\ Set(o, e)
    <3>1. \A k \in C : k \in Keys /\ data[mv.from][k] # 0 /\ Picks(setup.new, mv, k)
      BY ChunkRows DEF Picks
    <3>2. \A r \in b : \E k \in C : r = <<k, data[mv.from][k]>> BY DEF Rows
    <3> HIDE DEF last, C, keys, b
    <3>3. e.batch = b /\ e.move = l.move BY <2>2, LocalFields
    <3> HIDE DEF e
    <3>4. ASSUME NEW k \in C
          PROVE  /\ data[mv.from][k] <= latest[k] /\ NewShard(setup, k) = mv.to
                 /\ OldShard(setup, k) = NewShard(setup, k) => SelfMove(setup, plan, k)
      <4>1. k \in Keys /\ data[mv.from][k] # 0 /\ Picks(setup.new, mv, k) /\ mv.from \in Shards
        BY <1>0, <2>2, <3>1
      <4>2. /\ mv.to = NewShard(setup, k)
            /\ ~mv.full => mv.from = OldShard(setup, k) /\ mv.from # mv.to
        BY <1>2, <2>2, <4>1 DEF Carried, OldShard, NewShard
      <4>3. mv.from = OldShard(setup, k) \/ mv.from = NewShard(setup, k) BY <1>3, <4>1
      <4>4. RoutesTo(setup.new, mv, k) BY <4>1 DEF Picks
      <4>5. OldShard(setup, k) = NewShard(setup, k) => SelfMove(setup, plan, k)
        BY <2>2, <4>2, <4>3, <4>4 DEF SelfMove
      <4> QED BY <1>3, <4>1, <4>2, <4>5
    <3>5. BatchOK(e, setup, plan, latest)
      <4>1. ASSUME NEW r \in e.batch
            PROVE  /\ r[2] <= latest[r[1]] /\ NewShard(setup, r[1]) = plan[e.move].to
                   /\ OldShard(setup, r[1]) = NewShard(setup, r[1]) => SelfMove(setup, plan, r[1])
        <5>1. PICK k \in C : r = <<k, data[mv.from][k]>> BY <3>2, <3>3
        <5>2. r[1] = k /\ r[2] = data[mv.from][k] BY <5>1
        <5> QED BY <3>3, <3>4, <5>2
      <4> QED BY <4>1 DEF BatchOK
    <3>6. loc'[o] = e /\ pc'[o] = "copy" BY <2>3, <2>5
    <3> QED BY <1>7, <2>1, <3>5, <3>6
  <2> QED BY <2>1, <2>4, <2>5
<1>11. ASSUME NEW o \in Ops, CopyRow(o) PROVE Copies'
  <2> DEFINE l == loc[o]
             b == l.batch
             row == CHOOSE r \in b : \A q \in b : r[1] <= q[1]
             e == OneCopied(l, row)
  <2>1. /\ pc[o] = "copy" /\ b # {} /\ Set(o, e) /\ UNCHANGED pc /\ Process(o)
        /\ data' = [data EXCEPT ![plan[l.move].to][row[1]] = row[2]]
    BY <1>11 DEF CopyRow, OneCopied, Process
  <2>2. LocOK("copy", l, setup, Len(plan)) /\ IsLocal(l) BY <1>5, <2>1
  <2>3. b \subseteq Keys \X Versions(setup) /\ l.move \in 1..Len(plan) BY <2>2 DEF LocOK
  <2>4. row \in b
    <3>1. \A r \in b : r[1] \in Keys BY <2>3
    <3> QED BY <2>1, <3>1, FirstRow
  <2> HIDE DEF row
  <2>5. e.batch = b \ {row} /\ e.move = l.move BY <2>2, CopyFields
  <2>6. BatchOK(l, setup, plan, latest) BY <1>3, <2>1
  <2>7. /\ row[1] \in Keys /\ row[2] <= latest[row[1]] /\ NewShard(setup, row[1]) = plan[l.move].to
    BY <2>3, <2>4, <2>6 DEF BatchOK
  <2> HIDE DEF e
  <2>8. BatchOK(e, setup, plan, latest) BY <2>5, <2>6 DEF BatchOK
  <2>9. /\ UNCHANGED <<latest, app>> /\ loc'[o] = e
        /\ \A q \in Ops : q # o => pc'[q] = pc[q] /\ loc'[q] = loc[q]
    BY <1>0, <2>1, ProcessStep
  <2>10. \A q \in Ops : pc'[q] = "copy" => BatchOK(loc'[q], setup, plan, latest)
    BY <1>3, <2>1, <2>8, <2>9
  <2>11. \A q \in Ops : pc'[q] = "verified" => loc'[q].batch \subseteq GroupOf(plan, Targets[loc'[q].move])
    BY <1>3, <2>1, <2>9
  <2>12. ASSUME NEW k \in Keys, NEW s \in Shards
         PROVE  /\ s # OldShard(setup, k) /\ s # NewShard(setup, k) => data'[s][k] = 0
                /\ data'[s][k] <= latest[k]
    <3>1. CASE s = plan[l.move].to /\ k = row[1]
      <4>1. data'[s][k] = row[2] BY <1>6, <2>1, <3>1
      <4> QED BY <2>7, <3>1, <4>1
    <3>2. CASE ~(s = plan[l.move].to /\ k = row[1])
      <4>1. data'[s][k] = data[s][k] BY <1>6, <2>1, <3>2
      <4> QED BY <1>3, <4>1
    <3> QED BY <3>1, <3>2
  <2> QED BY <1>0, <1>1, <1>4, <2>9, <2>10, <2>11, <2>12 DEF Copies
<1>12. ASSUME NEW o \in Ops, VerifySource(o) PROVE Copies'
  <2>1. pc'[o] = "target" /\ UNCHANGED data /\ Process(o)
    <3>1. Process(o) BY <1>12 DEF Process
    <3> QED BY <1>0, <1>12, <3>1, ProcessStep DEF VerifySource
  <2> QED BY <1>7, <2>1
<1>13. ASSUME NEW o \in Ops, VerifyTarget(o) PROVE Copies'
  <2> DEFINE l == loc[o]
             g == Group(Targets[loc[o].move])
             e == [l EXCEPT !.batch = g, !.rows = 0, !.sum = {}]
  <2>1. UNCHANGED data /\ Process(o) /\ (Return(o) \/ (Set(o, e) /\ To(o, "verified")))
    BY <1>13 DEF VerifyTarget, Process
  <2>2. IsLocal(l) BY <1>5
  <2>3. e.batch = g /\ e.move = l.move
    <3> HIDE DEF g
    <3>1. PICK U : l \in Locals(U) BY <2>2 DEF IsLocal
    <3> QED BY <3>1 DEF Locals
  <2> HIDE DEF e
  <2>4. /\ pc'[o] = "idle" \/ (pc'[o] = "verified" /\ loc'[o] = e) BY <1>0, <2>1, ProcessStep
  <2>5. pc'[o] = "verified" => loc'[o].batch \subseteq GroupOf(plan, Targets[loc'[o].move])
    BY <1>2, <2>3, <2>4
  <2> QED BY <1>7, <2>1, <2>4, <2>5
<1>14. ASSUME NEW o \in Ops, SaveVerified(o) PROVE Copies'
  <2> DEFINE l == loc[o]
             m == CHOOSE q \in l.batch : \A i \in l.batch : q <= i
             e == [l EXCEPT !.batch = @ \ {m}]
  <2>1. /\ pc[o] = "verified" /\ UNCHANGED data /\ Process(o)
        /\ To(o, "load") \/ (Set(o, e) /\ UNCHANGED pc)
    BY <1>14 DEF SaveVerified, Process
  <2>2. IsLocal(l) BY <1>5
  <2> HIDE DEF m
  <2>3. e.batch = l.batch \ {m} /\ e.move = l.move
    <3>1. PICK U : l \in Locals(U) BY <2>2 DEF IsLocal
    <3> QED BY <3>1 DEF Locals
  <2> HIDE DEF e
  <2>4. /\ pc'[o] = "load" \/ (pc'[o] = "verified" /\ loc'[o] = e) BY <1>0, <2>1, ProcessStep
  <2>5. pc'[o] = "verified" => loc'[o].batch \subseteq GroupOf(plan, Targets[loc'[o].move])
    BY <1>3, <2>1, <2>3, <2>4
  <2> QED BY <1>7, <2>1, <2>4, <2>5
<1>15. ASSUME NEW k \in Keys, BindWrite(k) PROVE Copies'
  <2>1. UNCHANGED <<data, latest, pc, loc>> BY <1>15 DEF BindWrite, history
  <2>2. /\ app'.pc = "primary" /\ app'.key = k
        /\ \/ app'.primary = OldShard(setup, k) /\ app'.mirror = NewShard(setup, k)
           \/ app'.primary = NewShard(setup, k) /\ app'.mirror = OldShard(setup, k)
    BY <1>15 DEF BindWrite, OldShard, NewShard
  <2> QED BY <1>8, <2>1, <2>2
<1>16. CASE MirrorFails \/ Lapse
  <2>1. UNCHANGED <<data, latest, pc, loc>> /\ (app' = app \/ app' = NoWrite)
    BY <1>16 DEF MirrorFails, Lapse
  <2>2. NoWrite.pc = "idle" BY DEF NoWrite
  <2>3. CASE app' = app
    <3>1. /\ app'.pc # "idle" =>
                \/ app'.primary = OldShard(setup, app'.key) /\ app'.mirror = NewShard(setup, app'.key)
                \/ app'.primary = NewShard(setup, app'.key) /\ app'.mirror = OldShard(setup, app'.key)
          /\ app'.pc = "mirror" => app'.primary # app'.mirror
      BY <1>4, <2>3
    <3> QED BY <1>8, <2>1, <3>1
  <2>4. CASE app' = NoWrite
    <3>1. app'.pc = "idle" BY <2>2, <2>4
    <3> QED BY <1>8, <2>1, <3>1
  <2> QED BY <2>1, <2>3, <2>4
(* A write of version v of row x to one of its two shards.                 *)
<1>17. ASSUME NEW x \in Keys, NEW s \in Shards, NEW v,
              s = OldShard(setup, x) \/ s = NewShard(setup, x), v <= latest'[x],
              \A k \in Keys : latest'[k] \in Nat /\ latest[k] <= latest'[k],
              data' = [data EXCEPT ![s][x] = v], UNCHANGED <<pc, loc>>,
              app'.pc # "idle" => app'.key = app.key /\ app'.primary = app.primary
                                  /\ app'.mirror = app.mirror /\ app.pc # "idle",
              app'.pc = "mirror" => app.primary # app.mirror
       PROVE  Copies'
  <2>1. ASSUME NEW k \in Keys, NEW r \in Shards
        PROVE  /\ r # OldShard(setup, k) /\ r # NewShard(setup, k) => data'[r][k] = 0
               /\ data'[r][k] <= latest'[k]
    <3>1. CASE r = s /\ k = x
      <4>1. data'[r][k] = v BY <1>6, <1>17, <3>1
      <4> QED BY <1>17, <3>1, <4>1
    <3>2. CASE ~(r = s /\ k = x)
      <4>1. data'[r][k] = data[r][k] BY <1>6, <1>17, <3>2
      <4>2. data[r][k] <= latest[k] /\ latest[k] \in Nat /\ data[r][k] \in Int
        BY <1>3, <1>6 DEF Versions
      <4> QED BY <1>3, <1>17, <4>1, <4>2
    <3> QED BY <3>1, <3>2
  <2>2. ASSUME NEW q \in Ops, pc'[q] = "copy" PROVE BatchOK(loc'[q], setup, plan, latest')
    <3>1. BatchOK(loc[q], setup, plan, latest) BY <1>3, <1>17, <2>2
    <3>2. loc[q].batch \subseteq Keys \X Versions(setup) BY <1>5, <1>17, <2>2 DEF LocOK
    <3>3. ASSUME NEW r \in loc[q].batch PROVE r[2] <= latest'[r[1]]
      <4>1. r[1] \in Keys /\ r[2] \in Int BY <3>2 DEF Versions
      <4>2. r[2] <= latest[r[1]] BY <3>1 DEF BatchOK
      <4> QED BY <1>6, <1>17, <4>1, <4>2
    <3> QED BY <1>17, <3>1, <3>3 DEF BatchOK
  <2> QED BY <1>0, <1>1, <1>3, <1>4, <1>17, <2>1, <2>2 DEF Copies
<1>18. CASE WritePrimary
  <2> DEFINE x == app.key
             v == latest'[x]
  <2>1. /\ app.pc = "primary" /\ latest' = [latest EXCEPT ![x] = @ + 1] /\ UNCHANGED <<pc, loc>>
        /\ data' = [data EXCEPT ![app.primary][x] = v]
        /\ app' = IF app.primary = app.mirror THEN NoWrite ELSE [app EXCEPT !.pc = "mirror"]
    BY <1>18 DEF WritePrimary
  <2>2. \A k \in Keys : latest'[k] \in Nat /\ latest[k] <= latest'[k] BY <1>6, <2>1
  <2>3. /\ app'.pc # "idle" => app'.key = app.key /\ app'.primary = app.primary
                                  /\ app'.mirror = app.mirror /\ app.pc # "idle"
        /\ app'.pc = "mirror" => app.primary # app.mirror
    <3>1. PICK U : app \in [pc : {"idle", "primary", "mirror"}, key : Keys, primary : U, mirror : U]
      BY <1>0 DEF TInv, AppTypes
    <3>2. [app EXCEPT !.pc = "mirror"].key = app.key /\ [app EXCEPT !.pc = "mirror"].primary = app.primary
          /\ [app EXCEPT !.pc = "mirror"].mirror = app.mirror
      BY <3>1
    <3> QED BY <2>1, <3>2 DEF NoWrite
  <2>4. app.primary = OldShard(setup, x) \/ app.primary = NewShard(setup, x) BY <1>4, <2>1
  <2>5. app.primary \in Shards /\ x \in Keys /\ v <= latest'[x] BY <1>2, <1>6, <2>2, <2>4
  <2> HIDE DEF v
  <2> QED BY <1>17, <2>1, <2>2, <2>3, <2>4, <2>5
<1>19. CASE WriteMirror
  <2> DEFINE x == app.key
             v == latest[x]
  <2>1. /\ app.pc = "mirror" /\ UNCHANGED <<pc, loc, latest>> /\ app' = NoWrite
        /\ data' = [data EXCEPT ![app.mirror][x] = v]
    BY <1>19 DEF WriteMirror, MirrorShard, history
  <2>2. \A k \in Keys : latest'[k] \in Nat /\ latest[k] <= latest'[k] BY <1>6, <2>1
  <2>3. app'.pc = "idle" BY <2>1 DEF NoWrite
  <2>4. app.mirror = OldShard(setup, x) \/ app.mirror = NewShard(setup, x) BY <1>4, <2>1
  <2>5. app.mirror \in Shards /\ x \in Keys /\ v <= latest'[x] BY <1>2, <1>6, <2>1, <2>2, <2>4
  <2> HIDE DEF v
  <2> QED BY <1>17, <2>1, <2>2, <2>3, <2>4, <2>5
<1> QED BY <1>9, <1>10, <1>11, <1>12, <1>13, <1>14, <1>15, <1>16, <1>18, <1>19, NextIs DEF Process

(* A process that compares nothing makes no target sure.                   *)
LEMMA SureStep ==
  ASSUME TInv, NEW o \in Ops, Process(o), UNCHANGED <<setup, plan>>,
         router' = "new" => router = "new",
         \A m \in 1..Len(plan) : job'[m].phase \in Passed => job[m].phase \in Passed,
         \/ pc'[o] \notin {"reload", "done", "verified"}
         \/ pc'[o] = pc[o] /\ pc[o] # "verified"
         \/ pc'[o] = pc[o] /\ loc'[o].move = loc[o].move
  PROVE  Sure' \subseteq Sure
<1>1. Ops' = Ops /\ Targets' = Targets BY SameTargets DEF Ops
<1>2. \A q \in Ops : q # o => pc'[q] = pc[q] /\ loc'[q] = loc[q] BY ProcessStep
<1>3. ASSUME NEW s, NEW q \in Ops, Vouches(pc'[q], loc'[q], Targets, s)
      PROVE  Vouches(pc[q], loc[q], Targets, s)
  BY <1>2, <1>3 DEF Vouches
<1>4. ASSUME NEW s \in Shards, s \in Sure' PROVE s \in Sure
  <2>1. \/ router' = "new"
        \/ \A m \in GroupOf(plan, s) : job'[m].phase \in Passed
        \/ \E q \in Ops : Vouches(pc'[q], loc'[q], Targets, s)
    BY <1>1, <1>4 DEF Sure
  <2>2. GroupOf(plan, s) \subseteq 1..Len(plan) BY DEF GroupOf
  <2>3. \/ router = "new"
        \/ \A m \in GroupOf(plan, s) : job[m].phase \in Passed
        \/ \E q \in Ops : Vouches(pc[q], loc[q], Targets, s)
    BY <1>3, <2>1, <2>2
  <2> QED BY <2>3 DEF Sure
<1> QED BY <1>4 DEF Sure

(* The phases that the steps of a process give to jobs.                    *)
LEMMA PhaseStep ==
  ASSUME TInv, UNCHANGED <<setup, plan>>, NEW o \in Ops, Quiet(o)
  PROVE  Sure' \subseteq Sure
<1>0. /\ Len(plan) \in Nat /\ MoveIds = 1..Len(plan) /\ job \in [1..Len(plan) -> Within(setup)]
      /\ LocOK(pc[o], loc[o], setup, Len(plan)) /\ IsLocal(loc[o])
  BY PlanIs DEF TInv, FInv, RowTypes, ProcTypes
<1>1. Process(o) BY DEF Process
<1>2. (\A p : To(o, p) => pc'[o] = p) /\ (Return(o) => pc'[o] = "idle") BY <1>1, ProcessStep
<1>3. \A m \in 1..Len(plan) : job[m] \in JobSet(setup) BY <1>0, JobEdits
<1>4. Within(setup) \subseteq JobSet(setup) BY JobEdits
<1>5. CASE OpenMove(o)
  <2>1. router' = router /\ pc[o] = "open" BY <1>5 DEF OpenMove
  <2>2. pc'[o] \notin {"reload", "done", "verified"} BY <1>2, <1>5 DEF OpenMove, AfterOpen
  <2>3. ASSUME NEW m \in 1..Len(plan), job'[m].phase \in Passed PROVE job[m].phase \in Passed
    <3>1. CASE job' = job BY <2>3, <3>1
    <3>2. CASE job' # job
      <4>1. job' = [job EXCEPT ![loc[o].move].phase = IF @ = "none" THEN "pending" ELSE @]
        BY <1>5, <3>2 DEF OpenMove
      <4>2. job'[m].phase \in {"pending", job[m].phase} BY <1>0, <1>3, <4>1 DEF JobSet
      <4> QED BY <2>3, <4>2 DEF Passed
    <3> QED BY <3>1, <3>2
  <2> QED BY <1>1, <2>1, <2>2, <2>3, SureStep
<1>6. CASE Reopen(o) \/ SaveChunk(o)
  <2>1. router' = router /\ pc'[o] = "check" BY <1>2, <1>6 DEF Reopen, SaveChunk
  <2>2. loc[o].job \in JobSet(setup) BY <1>0 DEF LocOK
  <2>3. [loc[o].job EXCEPT !.phase = "backfilling"].phase = "backfilling" BY <2>2 DEF JobSet
  <2>4. Copied(loc[o]).phase = "backfilling" BY <2>2 DEF JobSet, Copied
  <2>5. \E j : j.phase = "backfilling" /\ job' = [job EXCEPT ![loc[o].move] = j]
    BY <1>6, <2>3, <2>4 DEF Reopen, SaveChunk
  <2>6. ASSUME NEW m \in 1..Len(plan), job'[m].phase \in Passed PROVE job[m].phase \in Passed
    <3>1. job'[m].phase \in {"backfilling", job[m].phase} BY <1>0, <2>5
    <3> QED BY <2>6, <3>1 DEF Passed
  <2> QED BY <1>1, <2>1, <2>6, SureStep
<1>7. CASE \/ CheckFence(o) \/ EndBackfill(o) \/ VerifyLoad(o) \/ Backfill(o) \/ StartVerify(o)
           \/ Rollback(o) \/ BackfillLost(o) \/ Fail(o) \/ Crash(o)
  <2>1. job' = job /\ (router' = "new" => router = "new")
    BY <1>7 DEF CheckFence, EndBackfill, VerifyLoad, Backfill, StartVerify, Rollback,
       BackfillLost, Fail, Crash
  <2>2. pc'[o] \notin {"reload", "done", "verified"}
    <3>1. CASE CheckFence(o) BY <1>2, <3>1 DEF CheckFence
    <3>2. CASE EndBackfill(o) BY <1>2, <3>2 DEF EndBackfill
    <3>3. CASE VerifyLoad(o) BY <1>2, <3>3 DEF VerifyLoad
    <3>4. CASE Backfill(o) BY <1>2, <3>4 DEF Backfill
    <3>5. CASE StartVerify(o) BY <1>2, <3>5 DEF StartVerify
    <3>6. CASE Rollback(o) BY <1>2, <3>6 DEF Rollback
    <3>7. CASE BackfillLost(o) BY <1>2, <3>7 DEF BackfillLost
    <3>8. CASE Fail(o) BY <1>2, <3>8 DEF Fail
    <3>9. CASE Crash(o) BY <1>2, <3>9 DEF Crash
    <3> QED BY <1>7, <3>1, <3>2, <3>3, <3>4, <3>5, <3>6, <3>7, <3>8, <3>9
  <2> QED BY <1>1, <2>1, <2>2, SureStep
<1>8. CASE Cutover(o)
  <2>1. \A m \in 1..Len(plan) : job[m].phase \in Passed BY <1>0, <1>8 DEF Cutover, Ready, Passed
  <2>2. \A s \in Shards : s \in Sure BY <2>1 DEF Sure, GroupOf
  <2> QED BY <2>2 DEF Sure
<1>9. CASE pc[o] \in {"reload", "done"}
  <2>1. \A s \in Shards : s \in Sure BY <1>9 DEF Sure, Vouches
  <2> QED BY <2>1 DEF Sure
<1>10. CASE SaveFinal(o) /\ pc[o] # "done"
  <2>1. router' = router /\ pc[o] = "rolled_back" BY <1>10 DEF SaveFinal
  <2>2. pc'[o] \in {"rolled_back", "idle"} BY <1>2, <1>10, <2>1 DEF SaveFinal
  <2>3. ASSUME NEW m \in 1..Len(plan), job'[m].phase \in Passed PROVE job[m].phase \in Passed
    <3>1. CASE job' = job BY <2>3, <3>1
    <3>2. CASE job' # job
      <4>1. loc[o].job \in JobSet(setup) BY <1>0 DEF LocOK
      <4>2. job' = [job EXCEPT ![loc[o].move] = [loc[o].job EXCEPT !.phase = pc[o]]]
        BY <1>10, <3>2 DEF SaveFinal
      <4>3. [loc[o].job EXCEPT !.phase = pc[o]].phase = "rolled_back" BY <2>1, <4>1 DEF JobSet
      <4> DEFINE j == [loc[o].job EXCEPT !.phase = pc[o]]
      <4> HIDE DEF j
      <4>4. job' = [job EXCEPT ![loc[o].move] = j] /\ j.phase = "rolled_back" BY <4>2, <4>3 DEF j
      <4>5. job'[m].phase \in {"rolled_back", job[m].phase} BY <1>0, <4>4
      <4> QED BY <2>3, <4>5 DEF Passed
    <3> QED BY <3>1, <3>2
  <2> QED BY <1>1, <2>1, <2>2, <2>3, SureStep
<1>11. Reload(o) => pc[o] = "reload" BY DEF Reload
<1>12. SaveFinal(o) /\ pc[o] = "done" => pc[o] \in {"reload", "done"} OBVIOUS
<1> QED BY <1>5, <1>6, <1>7, <1>8, <1>9, <1>10, <1>11, <1>12 DEF Quiet

(* The checksum of a source that has row k, on the old shard of the row.   *)
LEMMA SourceSeen ==
  ASSUME Planned, Copies, NEW k \in Keys, OldShard(setup, k) # NewShard(setup, k),
         NEW g, g = GroupOf(plan, NewShard(setup, k))
  PROVE  Seen(TotalSum([m \in g |-> SourceRows(m)], g), data, setup, k)
<1> DEFINE a == data[OldShard(setup, k)][k]
           r == <<k, a>>
           sums == [m \in g |-> SourceRows(m)]
<1> SUFFICES ASSUME a # 0, a # data[NewShard(setup, k)][k] PROVE r \in TotalSum(sums, g)
  BY DEF Seen
<1>1. /\ Len(plan) \in Nat /\ \A m \in 1..Len(plan) : plan[m].from \in Shards
      /\ Carried(plan, setup.old, setup.new)
  BY PlanIs, RowsMove
<1>2. OneMove(plan, setup.old, setup.new, k) BY <1>1 DEF Carried, OldShard, NewShard
<1>3. PICK m \in 1..Len(plan) :
        /\ plan[m].from = OldShard(setup, k) /\ plan[m].to = NewShard(setup, k)
        /\ Picks(setup.new, plan[m], k)
        /\ \A i \in 1..Len(plan) :
             plan[i].from = OldShard(setup, k) /\ Picks(setup.new, plan[i], k) => i = m
  BY <1>2 DEF OneMove, OldShard, NewShard
<1>4. k \in Int /\ MinKey <= k /\ k > MinKey - 1 BY KeysAre, KeysAssumption
<1>5. m \in g BY <1>3 DEF GroupOf
<1>6. r \in SourceRows(m)
  <2>1. k \in Scan(plan[m].from, plan[m], MinKey - 1) BY <1>3, <1>4 DEF Scan, Picks
  <2> QED BY <1>3, <2>1 DEF SourceRows, Picks
<1>7. ASSUME NEW i \in g, r \in SourceRows(i) PROVE i = m
  <2>1. i \in 1..Len(plan) /\ plan[i].to = NewShard(setup, k) BY DEF GroupOf
  <2>2. PICK x \in Keys : /\ r = <<x, data[plan[i].from][x]>>
                          /\ x \in Scan(plan[i].from, plan[i], MinKey - 1)
                          /\ RoutesTo(setup.new, plan[i], x)
    BY <1>7 DEF SourceRows, Scan
  <2>3. x = k /\ a = data[plan[i].from][k] BY <2>2
  <2>4. Picks(setup.new, plan[i], k) BY <2>2, <2>3 DEF Scan, Picks
  <2>5. plan[i].from \in Shards BY <1>1, <2>1
  <2>6. plan[i].from = OldShard(setup, k) \/ plan[i].from = NewShard(setup, k)
    BY <2>3, <2>5 DEF Copies
  <2>7. plan[i].from = OldShard(setup, k) BY <2>3, <2>6
  <2> QED BY <1>3, <2>1, <2>4, <2>7
<1>8. IsFiniteSet(g)
  <2>1. g \subseteq 1..Len(plan) BY DEF GroupOf
  <2>2. IsFiniteSet(1..Len(plan)) BY <1>1, FS_Interval
  <2> QED BY <2>1, <2>2, FS_Subset
<1>9. \A i \in g : sums[i] = SourceRows(i) OBVIOUS
<1> HIDE DEF sums, r
<1>10. Only(sums, g, r, m) BY <1>5, <1>6, <1>7, <1>9 DEF Only
<1> QED BY <1>8, <1>10, TotalHas

LEMMA FreshStep ==
  ASSUME CInv, Next PROVE Fresh'
<1>0. /\ Len(plan) \in Nat /\ MoveIds = 1..Len(plan) /\ Ops \subseteq Holders
      /\ setup' = setup /\ plan' = plan /\ TInv /\ Planned
  BY FixedStep, PlanIs DEF CInv, TInv, FInv, fixed
<1>1. Ops' = Ops /\ Targets' = Targets BY <1>0, SameTargets DEF Ops
<1>2. /\ \A k \in Keys : OldShard(setup, k) \in Shards /\ NewShard(setup, k) \in Shards
      /\ \A s : Group(s) = GroupOf(plan, s)
      /\ \A k \in Keys : OldShard(setup, k) # NewShard(setup, k) =>
           GroupOf(plan, NewShard(setup, k)) # {}
  BY <1>0, RowsMove
<1>3. /\ data \in [Shards -> [Keys -> Versions(setup)]] /\ latest \in [Keys -> Nat]
      /\ app.key \in Keys /\ overlap \in BOOLEAN /\ behind \subseteq Keys
  <2>1. latest \in [Keys -> 0..(1 + writes)] /\ writes \in Nat BY <1>0, PlanIs DEF TInv, AppTypes
  <2>2. latest \in [Keys -> Nat] BY <2>1
  <2> QED BY <1>0, <2>2 DEF TInv, RowTypes, AppTypes
<1>4. \A q \in Ops : LocOK(pc[q], loc[q], setup, Len(plan)) /\ IsLocal(loc[q])
  BY <1>0 DEF TInv, RowTypes, FInv, ProcTypes
<1>5. /\ app.pc # "idle" =>
           \/ app.primary = OldShard(setup, app.key) /\ app.mirror = NewShard(setup, app.key)
           \/ app.primary = NewShard(setup, app.key) /\ app.mirror = OldShard(setup, app.key)
      /\ app.pc = "mirror" => app.primary # app.mirror
  BY DEF CInv, Copies
<1>6. /\ ~overlap /\ app.pc = "mirror" => data[app.primary][app.key] = latest[app.key]
      /\ ~overlap => \A k \in Keys \ behind :
           /\ ~SelfMove(setup, plan, k) => UpToDate(data, latest, app, k, OldShard(setup, k))
           /\ OldShard(setup, k) # NewShard(setup, k) =>
                /\ NewShard(setup, k) \in Sure =>
                     UpToDate(data, latest, app, k, NewShard(setup, k))
                /\ \A q \in Ops : pc[q] = "target" /\ Targets[loc[q].move] = NewShard(setup, k) =>
                     \/ UpToDate(data, latest, app, k, NewShard(setup, k))
                     \/ Seen(loc[q].sum, data, setup, k)
  BY DEF CInv, Fresh, FreshRow
<1> DEFINE Kept(k) ==
             /\ ~SelfMove(setup, plan, k) => UpToDate(data', latest', app', k, OldShard(setup, k))
             /\ OldShard(setup, k) # NewShard(setup, k) =>
                  /\ NewShard(setup, k) \in Sure' =>
                       UpToDate(data', latest', app', k, NewShard(setup, k))
                  /\ \A q \in Ops : pc'[q] = "target" /\ Targets[loc'[q].move] = NewShard(setup, k) =>
                       \/ UpToDate(data', latest', app', k, NewShard(setup, k))
                       \/ Seen(loc'[q].sum, data', setup, k)
           Mirrored == app'.pc = "mirror" => data'[app'.primary][app'.key] = latest'[app'.key]
(* What is to be shown of every step.                                      *)
<1>7. ASSUME ~overlap' => Mirrored /\ \A k \in Keys \ behind' : Kept(k) PROVE Fresh'
  BY <1>0, <1>1, <1>7 DEF Fresh, FreshRow
<1> HIDE DEF Mirrored
(* A row that the step does not touch.                                     *)
<1>8. ASSUME ~overlap, NEW k \in Keys \ behind, \A s \in Shards : data'[s][k] = data[s][k],
             \A s \in Shards : UpToDate(data, latest, app, k, s) => UpToDate(data', latest', app', k, s),
             Sure' \subseteq Sure,
             \A q \in Ops : pc'[q] = "target" => pc[q] = "target" /\ loc'[q] = loc[q]
      PROVE  Kept(k)
  <2>1. OldShard(setup, k) \in Shards /\ NewShard(setup, k) \in Shards /\ k \in Keys BY <1>2
  <2>2. \A sum : Seen(sum, data, setup, k) => Seen(sum, data', setup, k) BY <1>8, <2>1 DEF Seen
  <2> QED BY <1>6, <1>8, <2>1, <2>2
<1>9. ASSUME ~overlap, NEW o \in Ops, Process(o), UNCHANGED <<data, overlap>>, Sure' \subseteq Sure,
             pc'[o] # "target"
      PROVE  Fresh'
  <2>1. /\ UNCHANGED <<latest, app, behind>>
        /\ \A q \in Ops : q # o => pc'[q] = pc[q] /\ loc'[q] = loc[q]
    BY <1>0, <1>9, ProcessStep
  <2>2. Mirrored BY <1>6, <1>9, <2>1 DEF Mirrored
  <2>3. ASSUME NEW k \in Keys \ behind PROVE Kept(k)
    <3>1. \A s : UpToDate(data, latest, app, k, s) => UpToDate(data', latest', app', k, s)
      BY <1>9, <2>1
    <3>2. \A q \in Ops : pc'[q] = "target" => pc[q] = "target" /\ loc'[q] = loc[q] BY <1>9, <2>1
    <3>3. \A s \in Shards : data'[s][k] = data[s][k] BY <1>9
    <3> HIDE DEF Kept
    <3> QED BY <1>8, <1>9, <3>1, <3>2, <3>3
  <2> QED BY <1>7, <2>1, <2>2, <2>3
<1>10. ASSUME NEW o \in Ops, Quiet(o), ~overlap PROVE Fresh'
  <2>1. Process(o) BY <1>10 DEF Process
  <2>2. UNCHANGED <<data, overlap>> /\ pc'[o] # "target" BY <1>0, <1>10, QuietStep
  <2>3. Sure' \subseteq Sure BY <1>0, <1>10, PhaseStep
  <2> QED BY <1>9, <1>10, <2>1, <2>2, <2>3
<1>11. ASSUME NEW o \in Ops, ScanChunk(o), ~overlap PROVE Fresh'
  <2>1. Process(o) BY <1>11 DEF Process
  <2>2. UNCHANGED <<data, overlap, job, router>> /\ (To(o, "open") \/ To(o, "copy"))
    BY <1>11 DEF ScanChunk, history
  <2>3. pc'[o] \in {"open", "copy"} BY <1>0, <2>1, <2>2, ProcessStep
  <2>4. Sure' \subseteq Sure BY <1>0, <2>1, <2>2, <2>3, SureStep
  <2> QED BY <1>9, <1>11, <2>1, <2>2, <2>3, <2>4
<1>12. ASSUME NEW o \in Ops, VerifySource(o), ~overlap PROVE Fresh'
  <2> DEFINE g == Group(Targets[loc[o].move])
             n == TotalRows([m \in g |-> Cardinality(SourceRows(m))], g)
             sum == TotalSum([m \in g |-> SourceRows(m)], g)
             e == [loc[o] EXCEPT !.rows = n, !.sum = sum]
  <2>1. /\ Process(o) /\ pc[o] = "source" /\ UNCHANGED <<data, overlap, job, router>>
        /\ To(o, "target") /\ Set(o, e)
    BY <1>12 DEF VerifySource, history, Process
  <2>2. /\ UNCHANGED <<latest, app, behind>> /\ pc'[o] = "target" /\ loc'[o] = e
        /\ \A q \in Ops : q # o => pc'[q] = pc[q] /\ loc'[q] = loc[q]
    BY <1>0, <2>1, ProcessStep
  <2>3. g = GroupOf(plan, Targets[loc[o].move]) BY <1>2
  <2> HIDE DEF sum, n
  <2>4. e.sum = sum /\ e.move = loc[o].move
    <3>1. PICK U : loc[o] \in Locals(U) BY <1>4 DEF IsLocal
    <3> QED BY <3>1 DEF Locals
  <2> HIDE DEF e
  <2>5. Sure' \subseteq Sure BY <1>0, <2>1, <2>2, SureStep
  <2>6. Mirrored BY <1>6, <1>12, <2>1, <2>2 DEF Mirrored
  <2>7. ASSUME NEW k \in Keys \ behind PROVE Kept(k)
    <3>1. Targets[loc[o].move] = NewShard(setup, k) /\ OldShard(setup, k) # NewShard(setup, k) =>
            Seen(sum, data, setup, k)
      <4> SUFFICES ASSUME Targets[loc[o].move] = NewShard(setup, k),
                          OldShard(setup, k) # NewShard(setup, k)
                   PROVE  Seen(sum, data, setup, k)
        OBVIOUS
      <4>1. g = GroupOf(plan, NewShard(setup, k)) /\ Copies BY <2>3 DEF CInv
      <4> HIDE DEF g
      <4> QED BY <1>0, <4>1, SourceSeen DEF sum
    <3>2. UpToDate(data', latest', app', k, NewShard(setup, k)) <=>
            UpToDate(data, latest, app, k, NewShard(setup, k))
      BY <2>1, <2>2
    <3>3. UpToDate(data', latest', app', k, OldShard(setup, k)) <=>
            UpToDate(data, latest, app, k, OldShard(setup, k))
      BY <2>1, <2>2
    <3>4. \A q \in Ops : pc'[q] = "target" =>
            \/ q = o /\ loc'[q].sum = sum /\ loc'[q].move = loc[o].move
            \/ pc[q] = "target" /\ loc'[q] = loc[q]
      BY <2>2, <2>4
    <3>5. data' = data BY <2>1
    <3> QED BY <1>6, <1>12, <2>5, <3>1, <3>2, <3>3, <3>4, <3>5
  <2> QED BY <1>7, <2>2, <2>6, <2>7
<1>13. ASSUME NEW o \in Ops, VerifyTarget(o), ~overlap PROVE Fresh'
  <2> DEFINE t == Targets[loc[o].move]
             e == [loc[o] EXCEPT !.batch = Group(t), !.rows = 0, !.sum = {}]
  <2>1. /\ Process(o) /\ pc[o] = "target" /\ UNCHANGED <<data, overlap, job, router>>
        /\ \/ Return(o)
           \/ loc[o].sum = TargetRows(t) /\ Set(o, e) /\ To(o, "verified")
    BY <1>13 DEF VerifyTarget, history, Process, Agree
  <2>2. CASE Return(o)
    <3>1. pc'[o] = "idle" BY <1>0, <2>1, <2>2, ProcessStep
    <3>2. Sure' \subseteq Sure BY <1>0, <2>1, <3>1, SureStep
    <3> QED BY <1>9, <1>13, <2>1, <3>1, <3>2
  <2>3. CASE loc[o].sum = TargetRows(t) /\ Set(o, e) /\ To(o, "verified")
    <3>1. /\ UNCHANGED <<latest, app, behind>> /\ pc'[o] = "verified" /\ loc'[o] = e
          /\ \A q \in Ops : q # o => pc'[q] = pc[q] /\ loc'[q] = loc[q]
      BY <1>0, <2>1, <2>3, ProcessStep
    <3>2. e.move = loc[o].move
      <4> DEFINE G == Group(t)
      <4>0. e = [loc[o] EXCEPT !.batch = G, !.rows = 0, !.sum = {}] OBVIOUS
      <4> HIDE DEF G, e
      <4>1. PICK U : loc[o] \in Locals(U) BY <1>4 DEF IsLocal
      <4> QED BY <4>0, <4>1 DEF Locals
    <3> HIDE DEF e
    <3>3. \A s \in Sure' : s \in Sure \/ s = t
      <4>1. ASSUME NEW s \in Shards, NEW q \in Ops, Vouches(pc'[q], loc'[q], Targets, s), s # t
            PROVE  Vouches(pc[q], loc[q], Targets, s)
        BY <3>1, <3>2, <4>1 DEF Vouches
      <4>2. ASSUME NEW s \in Shards, s \in Sure', s # t PROVE s \in Sure
        <5>1. \/ router = "new"
              \/ \A m \in GroupOf(plan, s) : job[m].phase \in Passed
              \/ \E q \in Ops : Vouches(pc'[q], loc'[q], Targets, s)
          BY <1>0, <1>1, <2>1, <4>2 DEF Sure
        <5> QED BY <4>1, <4>2, <5>1 DEF Sure
      <4> QED BY <4>2 DEF Sure
    <3>4. Mirrored BY <1>6, <1>13, <2>1, <3>1 DEF Mirrored
    <3>5. ASSUME NEW k \in Keys \ behind, OldShard(setup, k) # NewShard(setup, k),
                 t = NewShard(setup, k)
          PROVE  UpToDate(data, latest, app, k, NewShard(setup, k))
      <4> DEFINE A == OldShard(setup, k)
                 B == NewShard(setup, k)
      <4> SUFFICES ASSUME Seen(loc[o].sum, data, setup, k), ~UpToDate(data, latest, app, k, B)
                   PROVE  FALSE
        BY <1>6, <1>13, <2>1, <3>5
      <4>0. A \in Shards /\ B \in Shards /\ k \in Keys BY <1>2
      <4>1. \A r \in TargetRows(t) : r[2] = data[t][r[1]] BY DEF TargetRows
      <4>2. <<k, data[A][k]>> \in loc[o].sum => data[A][k] = data[B][k]
        <5>1. ASSUME <<k, data[A][k]>> \in TargetRows(t) PROVE data[A][k] = data[t][k]
          BY <4>1, <5>1
        <5> QED BY <2>3, <3>5, <5>1
      <4>3. data[A][k] = 0 \/ data[A][k] = data[B][k] BY <4>2 DEF Seen
      <4>4. data[A][k] = latest[k]
        <5>1. SelfMove(setup, plan, k) \/ UpToDate(data, latest, app, k, A) BY <1>6, <1>13, <3>5
        <5>2. ~SelfMove(setup, plan, k)
          <6>1. Carried(plan, setup.old, setup.new) BY <1>0, RowsMove
          <6> QED BY <3>5, <6>1 DEF SelfMove, Carried, RoutesTo, OldShard, NewShard
        <5>3. CASE app.pc = "mirror" /\ app.key = k /\ app.mirror = A
          <6>1. app.primary = B BY <1>5, <3>5, <5>3
          <6>2. data[B][k] = latest[k] BY <1>6, <1>13, <5>3, <6>1
          <6> QED BY <6>2 DEF UpToDate
        <5> QED BY <5>1, <5>2, <5>3 DEF UpToDate
      <4>5. data[B][k] # latest[k] BY DEF UpToDate
      <4>6. data[A][k] = 0 /\ latest[k] = 0 BY <4>3, <4>4, <4>5
      <4>7. data[B][k] <= latest[k] /\ data[B][k] \in Nat
        BY <1>3, <4>0 DEF CInv, Copies, Versions
      <4> QED BY <4>5, <4>6, <4>7
    <3>6. ASSUME NEW k \in Keys \ behind PROVE Kept(k)
      <4>1. \A s : UpToDate(data', latest', app', k, s) <=> UpToDate(data, latest, app, k, s)
        BY <2>1, <3>1
      <4>2. \A q \in Ops : pc'[q] = "target" => pc[q] = "target" /\ loc'[q] = loc[q] BY <3>1
      <4>3. data' = data BY <2>1
      <4> QED BY <1>6, <1>13, <3>3, <3>5, <4>1, <4>2, <4>3
    <3> QED BY <1>7, <3>1, <3>4, <3>6
  <2> QED BY <2>1, <2>2, <2>3
<1>14. ASSUME NEW o \in Ops, SaveVerified(o), ~overlap PROVE Fresh'
  <2> DEFINE l == loc[o]
             m == CHOOSE q \in l.batch : \A i \in l.batch : q <= i
             e == [l EXCEPT !.batch = @ \ {m}]
             j == [l.jobs[m] EXCEPT !.phase = "verified"]
  <2>1. /\ Process(o) /\ pc[o] = "verified" /\ UNCHANGED <<data, overlap, router>>
        /\ \/ To(o, "load") /\ UNCHANGED job
           \/ l.batch # {} /\ job' = [job EXCEPT ![m] = j] /\ Set(o, e) /\ UNCHANGED pc
    BY <1>14 DEF SaveVerified, history, Process
  <2>2. CASE To(o, "load") /\ UNCHANGED job
    <3>1. pc'[o] = "load" BY <1>0, <2>1, <2>2, ProcessStep
    <3>2. Sure' \subseteq Sure BY <1>0, <2>1, <2>2, <3>1, SureStep
    <3> QED BY <1>9, <1>14, <2>1, <3>1, <3>2
  <2>3. CASE l.batch # {} /\ job' = [job EXCEPT ![m] = j] /\ Set(o, e) /\ UNCHANGED pc
    <3>1. l.batch \subseteq GroupOf(plan, Targets[l.move]) BY <2>1 DEF CInv, Copies
    <3>2. m \in l.batch
      <4>1. l.batch \in SUBSET Nat BY <3>1 DEF GroupOf
      <4>2. \E x \in l.batch : \A i \in l.batch : x <= i BY <2>3, <4>1, LeastIs
      <4> QED BY <4>2
    <3> HIDE DEF m, j
    <3>3. plan[m].to = Targets[l.move] BY <3>1, <3>2 DEF GroupOf
    <3>4. /\ pc'[o] = "verified" /\ loc'[o] = e
          /\ \A q \in Ops : q # o => pc'[q] = pc[q] /\ loc'[q] = loc[q]
      BY <1>0, <2>1, <2>3, ProcessStep
    <3>5. e.move = l.move
      <4>1. PICK U : l \in Locals(U) BY <1>4 DEF IsLocal
      <4> QED BY <4>1 DEF Locals
    <3> HIDE DEF e
    <3>6. ASSUME NEW s \in Shards, s \in Sure' PROVE s \in Sure
      <4>1. \/ router = "new"
            \/ \A i \in GroupOf(plan, s) : job'[i].phase \in Passed
            \/ \E q \in Ops : Vouches(pc'[q], loc'[q], Targets, s)
        BY <1>0, <1>1, <2>1, <3>6 DEF Sure
      <4>2. ASSUME NEW q \in Ops, Vouches(pc'[q], loc'[q], Targets, s)
            PROVE  Vouches(pc[q], loc[q], Targets, s)
        BY <2>1, <3>4, <3>5, <4>2 DEF Vouches
      <4>3. CASE s = Targets[l.move]
        <5>1. Vouches(pc[o], loc[o], Targets, s) BY <2>1, <4>3 DEF Vouches
        <5> QED BY <5>1 DEF Sure
      <4>4. CASE s # Targets[l.move]
        <5>1. \A i \in GroupOf(plan, s) : i # m /\ job'[i] = job[i]
          <6>1. job \in [1..Len(plan) -> Within(setup)] BY <1>0 DEF TInv, RowTypes
          <6> QED BY <2>3, <3>3, <4>4, <6>1 DEF GroupOf
        <5> QED BY <4>1, <4>2, <5>1 DEF Sure
      <4> QED BY <4>3, <4>4
    <3>7. Sure' \subseteq Sure BY <3>6 DEF Sure
    <3> QED BY <1>9, <1>14, <2>1, <3>4, <3>7
  <2> QED BY <2>1, <2>2, <2>3
<1>15. ASSUME NEW o \in Ops, CopyRow(o) PROVE Fresh'
  <2> DEFINE l == loc[o]
             b == l.batch
             row == CHOOSE r \in b : \A q \in b : r[1] <= q[1]
             e == OneCopied(l, row)
             B == plan[l.move].to
  <2>1. /\ pc[o] = "copy" /\ b # {} /\ Set(o, e) /\ UNCHANGED <<pc, job, router>> /\ Process(o)
        /\ data' = [data EXCEPT ![B][row[1]] = row[2]]
        /\ overlap' = (overlap \/ ~Alone(o))
    BY <1>15 DEF CopyRow, OneCopied, Process
  <2>2. LocOK("copy", l, setup, Len(plan)) /\ IsLocal(l) BY <1>4, <2>1
  <2>3. b \subseteq Keys \X Versions(setup) /\ l.move \in 1..Len(plan) BY <2>2 DEF LocOK
  <2>4. row \in b
    <3>1. \A r \in b : r[1] \in Keys BY <2>3
    <3> QED BY <2>1, <3>1, FirstRow
  <2> HIDE DEF row
  <2>5. e.move = l.move BY <2>2, CopyFields
  <2> DEFINE x == row[1]
  <2>6. /\ x \in Keys /\ NewShard(setup, x) = B
        /\ OldShard(setup, x) = NewShard(setup, x) => SelfMove(setup, plan, x)
    <3>1. BatchOK(l, setup, plan, latest) BY <2>1 DEF CInv, Copies
    <3> QED BY <2>3, <2>4, <3>1 DEF BatchOK
  <2> HIDE DEF e
  <2>7. /\ UNCHANGED <<latest, app, behind>> /\ loc'[o] = e
        /\ \A q \in Ops : q # o => pc'[q] = pc[q] /\ loc'[q] = loc[q]
    BY <1>0, <2>1, ProcessStep
  <2>8. Sure' \subseteq Sure BY <1>0, <2>1, <2>5, <2>7, SureStep
  <2> SUFFICES ASSUME ~overlap' PROVE Fresh' BY <1>7
  <2>9. ~overlap /\ Alone(o) BY <2>1, <1>3
  <2>10. /\ router = "old" /\ job[l.move].phase \notin Passed
         /\ \A q \in Ops : q # o => pc[q] = "idle"
         /\ app.pc = "idle" \/ app.primary = OldShard(setup, app.key)
    BY <2>9 DEF Alone, Passed, OldShard
  <2>11. B \notin Sure
    <3>1. l.move \in GroupOf(plan, B) BY <2>3 DEF GroupOf
    <3>2. \A q \in Ops : ~Vouches(pc[q], loc[q], Targets, B) BY <2>1, <2>10 DEF Vouches
    <3> QED BY <2>10, <3>1, <3>2 DEF Sure
  <2>12. \A q \in Ops : pc'[q] # "target" BY <2>1, <2>7, <2>10
  <2>13. ASSUME NEW s \in Shards, NEW k \in Keys, s # B \/ k # x PROVE data'[s][k] = data[s][k]
    BY <1>3, <2>1, <2>13
  <2>14. Mirrored
    <3> SUFFICES ASSUME app.pc = "mirror" PROVE data'[app.primary][app.key] = latest[app.key]
      BY <2>7 DEF Mirrored
    <3>1. app.primary = OldShard(setup, app.key) /\ app.primary # NewShard(setup, app.key)
      BY <1>5, <2>10
    <3>2. app.primary # B \/ app.key # x BY <2>6, <3>1
    <3> QED BY <1>2, <1>3, <1>6, <2>9, <2>13, <3>1, <3>2
  <2>15. ASSUME NEW k \in Keys \ behind PROVE Kept(k)
    <3>1. CASE k # x
      <4>1. \A s \in Shards : data'[s][k] = data[s][k] BY <2>13, <3>1
      <4>2. \A s \in Shards : UpToDate(data, latest, app, k, s) => UpToDate(data', latest', app', k, s)
        BY <2>7, <4>1 DEF UpToDate
      <4> HIDE DEF Kept
      <4> QED BY <1>8, <2>8, <2>9, <2>12, <4>1, <4>2
    <3>2. CASE k = x
      <4>1. OldShard(setup, k) # B =>
              (UpToDate(data, latest, app, k, OldShard(setup, k)) =>
                 UpToDate(data', latest', app', k, OldShard(setup, k)))
        BY <1>2, <2>7, <2>13, <3>2 DEF UpToDate
      <4> QED BY <1>6, <2>6, <2>8, <2>9, <2>11, <2>12, <3>2, <4>1
    <3> QED BY <3>1, <3>2
  <2> QED BY <1>7, <2>7, <2>14, <2>15
(* The application's steps leave the processes and the jobs alone.         *)
<1>16. ASSUME UNCHANGED <<pc, loc, job, router>>
       PROVE  /\ Sure' = Sure
              /\ \A q \in Ops : pc'[q] = "target" => pc[q] = "target" /\ loc'[q] = loc[q]
  BY <1>0, <1>1, <1>16 DEF Sure
<1>17. CASE (\E k \in Keys : BindWrite(k)) \/ Lapse
  <2>1. /\ UNCHANGED <<pc, loc, job, router, data, latest, behind, overlap>>
        /\ app' = app \/ (app.pc = "idle" /\ app'.pc = "primary")
    BY <1>17 DEF BindWrite, Lapse, history
  <2> SUFFICES ASSUME ~overlap' PROVE Fresh' BY <1>7
  <2>2. Mirrored
    <3>1. CASE app' = app BY <1>6, <2>1, <3>1 DEF Mirrored
    <3>2. CASE app'.pc = "primary" BY <3>2 DEF Mirrored
    <3> QED BY <2>1, <3>1, <3>2
  <2>3. ASSUME NEW k \in Keys \ behind PROVE Kept(k)
    <3>1. \A s : UpToDate(data, latest, app, k, s) => UpToDate(data', latest', app', k, s)
      BY <2>1 DEF UpToDate
    <3>2. (\A s \in Shards : data'[s][k] = data[s][k]) /\ ~overlap BY <2>1
    <3> HIDE DEF Kept
    <3> QED BY <1>8, <1>16, <2>1, <3>1, <3>2
  <2> QED BY <1>7, <2>1, <2>2, <2>3
<1>18. CASE WritePrimary
  <2> DEFINE x == app.key
             P == app.primary
             M == app.mirror
  <2>1. /\ app.pc = "primary" /\ latest' = [latest EXCEPT ![x] = @ + 1]
        /\ UNCHANGED <<pc, loc, job, router, behind, overlap>>
        /\ data' = [data EXCEPT ![P][x] = latest'[x]]
        /\ app' = IF P = M THEN NoWrite ELSE [app EXCEPT !.pc = "mirror"]
    BY <1>18 DEF WritePrimary
  <2>2. P \in Shards /\ M \in Shards /\ x \in Keys BY <1>2, <1>3, <1>5, <2>1
  <2>3. P # M => app'.pc = "mirror" /\ app'.key = x /\ app'.primary = P /\ app'.mirror = M
    <3>1. PICK U : app \in [pc : {"idle", "primary", "mirror"}, key : Keys, primary : U, mirror : U]
      BY <1>0 DEF TInv, AppTypes
    <3> QED BY <2>1, <3>1
  <2>4. P = M => app'.pc = "idle"
    <3>1. NoWrite.pc = "idle" BY DEF NoWrite
    <3> QED BY <2>1, <3>1
  <2>5. data'[P][x] = latest'[x]
    <3> DEFINE v == latest'[x]
    <3> HIDE DEF v
    <3>1. data' = [data EXCEPT ![P][x] = v] BY <2>1 DEF v
    <3>2. data'[P][x] = v BY <1>3, <2>2, <3>1
    <3> QED BY <3>2 DEF v
  <2>6. ASSUME NEW s \in Shards, NEW k \in Keys, k # x PROVE data'[s][k] = data[s][k] /\ latest'[k] = latest[k]
    <3> DEFINE v == latest'[x]
    <3> HIDE DEF v
    <3>1. data' = [data EXCEPT ![P][x] = v] BY <2>1 DEF v
    <3> QED BY <1>3, <2>1, <2>6, <3>1
  <2> SUFFICES ASSUME ~overlap' PROVE Fresh' BY <1>7
  <2>7. Mirrored BY <2>3, <2>4, <2>5 DEF Mirrored
  <2>8. ASSUME NEW k \in Keys \ behind PROVE Kept(k)
    <3>1. CASE k # x
      <4>1. \A s \in Shards : data'[s][k] = data[s][k] BY <2>6, <3>1
      <4>2. \A s \in Shards : UpToDate(data, latest, app, k, s) => UpToDate(data', latest', app', k, s)
        BY <2>1, <2>6, <3>1 DEF UpToDate
      <4>3. ~overlap BY <2>1
      <4> HIDE DEF Kept
      <4> QED BY <1>8, <1>16, <2>1, <4>1, <4>2, <4>3
    <3>2. CASE k = x
      <4>1. UpToDate(data', latest', app', k, P) BY <2>5, <3>2 DEF UpToDate
      <4>2. UpToDate(data', latest', app', k, M) BY <2>3, <3>2, <4>1 DEF UpToDate
      <4>3. /\ OldShard(setup, k) = P \/ OldShard(setup, k) = M
            /\ NewShard(setup, k) = P \/ NewShard(setup, k) = M
        BY <1>5, <2>1, <3>2
      <4> QED BY <4>1, <4>2, <4>3
    <3> QED BY <3>1, <3>2
  <2> QED BY <1>7, <2>1, <2>7, <2>8
<1>19. CASE WriteMirror
  <2> DEFINE x == app.key
             P == app.primary
             M == app.mirror
  <2>1. /\ app.pc = "mirror" /\ UNCHANGED <<pc, loc, job, router, behind, overlap, latest>>
        /\ data' = [data EXCEPT ![M][x] = latest[x]] /\ app' = NoWrite
    BY <1>19 DEF WriteMirror, MirrorShard, history
  <2>2. P \in Shards /\ M \in Shards /\ x \in Keys /\ P # M BY <1>2, <1>3, <1>5, <2>1
  <2>3. app'.pc = "idle" BY <2>1 DEF NoWrite
  <2>4. data'[M][x] = latest[x] /\ data'[P][x] = data[P][x] BY <1>3, <2>1, <2>2
  <2>5. ASSUME NEW s \in Shards, NEW k \in Keys, k # x PROVE data'[s][k] = data[s][k]
    BY <1>3, <2>1, <2>5
  <2> SUFFICES ASSUME ~overlap' PROVE Fresh' BY <1>7
  <2>6. Mirrored BY <2>3 DEF Mirrored
  <2>7. ASSUME NEW k \in Keys \ behind PROVE Kept(k)
    <3>1. CASE k # x
      <4>1. \A s \in Shards : data'[s][k] = data[s][k] BY <2>5, <3>1
      <4>2. \A s \in Shards : UpToDate(data, latest, app, k, s) => UpToDate(data', latest', app', k, s)
        BY <2>1, <2>5, <3>1 DEF UpToDate
      <4>3. ~overlap BY <2>1
      <4> HIDE DEF Kept
      <4> QED BY <1>8, <1>16, <2>1, <4>1, <4>2, <4>3
    <3>2. CASE k = x
      <4>1. data[P][x] = latest[x] BY <1>6, <2>1
      <4>2. UpToDate(data', latest', app', k, P) /\ UpToDate(data', latest', app', k, M)
        BY <2>1, <2>4, <3>2, <4>1 DEF UpToDate
      <4>3. /\ OldShard(setup, k) = P \/ OldShard(setup, k) = M
            /\ NewShard(setup, k) = P \/ NewShard(setup, k) = M
        BY <1>5, <2>1, <3>2
      <4> QED BY <4>2, <4>3
    <3> QED BY <3>1, <3>2
  <2> QED BY <1>7, <2>1, <2>6, <2>7
<1>20. CASE MirrorFails
  <2> DEFINE x == app.key
             P == app.primary
             M == app.mirror
             checked == \/ router = "new" \/ app.primary # ShardFor(setup.old, app.key)
                        \/ \E m \in MoveIds : job[m].phase \in {"verified", "done"}
                        \/ \E o \in Ops : pc[o] # "idle" /\ ~InBackfill(o)
  <2>1. /\ app.pc = "mirror" /\ UNCHANGED <<pc, loc, job, router, overlap, latest, data>>
        /\ behind' = (IF checked THEN behind \cup {x} ELSE behind) /\ app' = NoWrite
    BY <1>20 DEF MirrorFails
  <2>2. P \in Shards /\ M \in Shards /\ x \in Keys /\ P # M BY <1>2, <1>3, <1>5, <2>1
  <2>3. app'.pc = "idle" BY <2>1 DEF NoWrite
  <2>4. behind \subseteq behind' /\ (checked => x \in behind') BY <2>1
  <2> SUFFICES ASSUME ~overlap' PROVE Fresh' BY <1>7
  <2>5. ~overlap BY <2>1
  <2>6. Mirrored BY <2>3 DEF Mirrored
  <2>7. ASSUME NEW k \in Keys \ behind' PROVE Kept(k)
    <3>0. k \in Keys \ behind BY <2>4
    <3>1. CASE k # x
      <4>1. \A s \in Shards : data'[s][k] = data[s][k] BY <2>1
      <4>2. \A s \in Shards : UpToDate(data, latest, app, k, s) => UpToDate(data', latest', app', k, s)
        BY <2>1, <3>1 DEF UpToDate
      <4> HIDE DEF Kept
      <4> QED BY <1>8, <1>16, <2>1, <2>5, <3>0, <4>1, <4>2
    <3>2. CASE k = x
      <4>1. ~checked BY <2>4, <3>2
      <4>2. /\ router # "new" /\ P = OldShard(setup, x)
            /\ \A m \in 1..Len(plan) : job[m].phase \notin Passed
            /\ \A q \in Ops : pc[q] \notin {"reload", "done", "verified", "target"}
        <5>1. \A q \in Ops : pc[q] = "idle" \/ InBackfill(q) BY <4>1
        <5>2. \A q \in Ops : pc[q] \notin {"reload", "done", "verified", "target"}
          BY <5>1 DEF InBackfill
        <5> QED BY <1>0, <4>1, <5>2 DEF Passed, OldShard
      <4> HIDE DEF checked
      <4>3. M = NewShard(setup, x) BY <1>5, <2>1, <2>2, <4>2
      <4>4. M \notin Sure
        <5>1. GroupOf(plan, M) # {} BY <1>2, <2>2, <4>2, <4>3
        <5>2. \A m \in GroupOf(plan, M) : job[m].phase \notin Passed BY <4>2 DEF GroupOf
        <5>3. \A q \in Ops : ~Vouches(pc[q], loc[q], Targets, M) BY <4>2 DEF Vouches
        <5> QED BY <4>2, <5>1, <5>2, <5>3 DEF Sure
      <4>5. data[P][x] = latest[x] BY <1>6, <2>1, <2>5
      <4>6. UpToDate(data', latest', app', k, P) BY <2>1, <3>2, <4>5 DEF UpToDate
      <4>7. Sure' = Sure /\ pc' = pc BY <1>16, <2>1
      <4> QED BY <3>2, <4>2, <4>3, <4>4, <4>6, <4>7
    <3> QED BY <3>1, <3>2
  <2> QED BY <1>7, <2>6, <2>7
<1>21. ASSUME overlap, NEW o \in Ops, Process(o) PROVE Fresh'
  <2>1. overlap'
    <3>1. CASE Quiet(o) BY <1>0, <1>21, <3>1, QuietStep
    <3>2. CASE ~Quiet(o)
      BY <1>21, <3>2 DEF Process, history, ScanChunk, CopyRow, VerifySource, VerifyTarget, SaveVerified
    <3> QED BY <3>1, <3>2
  <2> QED BY <1>7, <2>1
<1> QED BY <1>10, <1>11, <1>12, <1>13, <1>14, <1>15, <1>17, <1>18, <1>19, <1>20, <1>21, NextIs
        DEF Process

LEMMA AlwaysFresh == Spec => []CInv
<1>1. CInv /\ [Next]_vars => CInv'
  <2> SUFFICES ASSUME CInv, [Next]_vars PROVE CInv' OBVIOUS
  <2>0. TInv' BY TypedStep DEF CInv
  <2>1. CASE Next BY <2>0, <2>1, CopiesStep, FreshStep DEF CInv
  <2>2. CASE UNCHANGED vars
    <3>0. setup' = setup /\ plan' = plan BY <2>2 DEF vars, fixed
    <3>1. Ops' = Ops /\ Targets' = Targets BY <3>0, SameTargets DEF Ops
    <3>2. Copies' BY <2>2, <3>0, <3>1 DEF vars, CInv, Copies
    <3>3. Sure' = Sure BY <2>2, <3>0, <3>1 DEF vars, Sure
    <3>4. Fresh' BY <2>2, <3>0, <3>1, <3>3 DEF vars, CInv, Fresh, FreshRow
    <3> QED BY <2>0, <3>2, <3>4 DEF CInv
  <2> QED BY <2>1, <2>2
<1> QED BY <1>1, CopiesInit, PTL DEF Spec

(* A row with no write in flight, in a migration of which every backfill   *)
(* was alone.                                                              *)
LEMMA CalmRow ==
  ASSUME CInv, ~overlap, NEW k \in Calm
  PROVE  /\ k \in Keys
         /\ ~SelfMove(setup, plan, k) => data[OldShard(setup, k)][k] = latest[k]
         /\ OldShard(setup, k) # NewShard(setup, k) =>
              /\ ~SelfMove(setup, plan, k)
              /\ router = "new" => data[NewShard(setup, k)][k] = latest[k]
<1>0. Planned BY DEF CInv, TInv, FInv
<1>1. k \in Keys \ behind /\ ~(app.pc = "mirror" /\ app.key = k) BY DEF Calm
<1>2. FreshRow(k) BY <1>1 DEF CInv, Fresh
<1>3. Carried(plan, setup.old, setup.new) /\ NewShard(setup, k) \in Shards BY <1>0, <1>1, RowsMove
<1>4. OldShard(setup, k) # NewShard(setup, k) => ~SelfMove(setup, plan, k)
  BY <1>3 DEF SelfMove, Carried, RoutesTo, OldShard, NewShard
<1>5. router = "new" => NewShard(setup, k) \in Sure BY <1>3 DEF Sure
<1> QED BY <1>1, <1>2, <1>4, <1>5 DEF FreshRow, UpToDate

(* A read by key through the router finds what the application last wrote, *)
(* through backfill, verify, cutover and rollback, whatever crashes and    *)
(* fails, if every backfill was alone, no write to the row is in flight or *)
(* lost its mirror where no verify compares it, and the row is not copied  *)
(* onto its own shard (backfill.rs, verify.rs:49-71, cutover.rs:8-39,      *)
(* dual_write.rs).                                                         *)
THEOREM RoutedIsLatestHolds == Spec => []RoutedIsLatest
<1>1. CInv => RoutedIsLatest
  <2> SUFFICES ASSUME CInv, ~overlap, NEW k \in Calm, ~SelfCopied(k) PROVE Routed(k) = latest[k]
    BY DEF RoutedIsLatest
  <2>0. Planned /\ router \in {"old", "new"} BY DEF CInv, TInv, FInv, AppTypes
  <2>1. k \in Keys /\ (~SelfMove(setup, plan, k) => data[OldShard(setup, k)][k] = latest[k])
    BY CalmRow
  <2>2. OldShard(setup, k) # NewShard(setup, k) /\ router = "new" =>
          data[NewShard(setup, k)][k] = latest[k]
    BY CalmRow
  <2>3. ~SelfMove(setup, plan, k) BY <2>0, <2>1, RowsMove
  <2>4. Routed(k) = data[IF router = "old" THEN OldShard(setup, k) ELSE NewShard(setup, k)][k]
    BY DEF Routed, Current, OldShard, NewShard
  <2> QED BY <2>0, <2>1, <2>2, <2>3, <2>4
<1> QED BY <1>1, AlwaysFresh, PTL

(* After the cutover a scatter query returns each row as a read by key     *)
(* does, although the copies on the old shards stay (scatter.rs:105-148).  *)
THEOREM ScatterAgreesHolds == Spec => []ScatterAgrees
<1>1. CInv => ScatterAgrees
  <2> SUFFICES ASSUME CInv, router = "new", ~overlap, NEW k \in Calm PROVE Merged(k) = Routed(k)
    BY DEF ScatterAgrees
  <2> DEFINE sh == setup.new.shards
             has == {i \in DOMAIN sh : data[sh[i]][k] # 0}
             least == CHOOSE i \in has : \A j \in has : i <= j
             v == data[NewShard(setup, k)][k]
  <2>0. Planned /\ k \in Keys BY CalmRow DEF CInv, TInv, FInv
  <2>1. setup \in Setups /\ Valid(setup.new) BY <2>0, SetupsAssumption DEF Planned
  <2>2. Current = setup.new BY DEF Current
  <2>3. Routed(k) = v BY <2>2 DEF Routed, NewShard
  <2>4. Merged(k) = IF has = {} THEN 0 ELSE data[sh[least]][k] BY <2>2 DEF Merged
  <2>5. sh \in Seq(ToSet(sh)) /\ DOMAIN sh = 1..Len(sh) BY <2>1 DEF Valid, IsCatalog
  <2>6. ASSUME NEW i \in has PROVE data[sh[i]][k] = v
    <3>1. sh[i] \in Shards
      <4>1. sh[i] \in ToSet(sh) BY <2>5 DEF ToSet
      <4> QED BY <2>1, <4>1 DEF Shards
    <3>2. sh[i] = OldShard(setup, k) \/ sh[i] = NewShard(setup, k)
      BY <2>0, <3>1 DEF CInv, Copies
    <3>3. OldShard(setup, k) # NewShard(setup, k) => data[OldShard(setup, k)][k] = v BY CalmRow
    <3> QED BY <3>2, <3>3
  <2>7. has = {} => v = 0
    <3>1. PICK j \in 1..Len(sh) : NewShard(setup, k) = sh[j] BY <2>0, <2>1, ShardForIs DEF NewShard
    <3> QED BY <2>5, <3>1
  <2>8. has # {} => least \in has
    <3>1. has \in SUBSET Nat BY <2>5
    <3> HIDE DEF has
    <3>2. has # {} => \E i \in has : \A j \in has : i <= j BY <3>1, LeastIs
    <3> QED BY <3>2
  <2> HIDE DEF has, least, v
  <2>9. has # {} => data[sh[least]][k] = v BY <2>6, <2>8
  <2> QED BY <2>3, <2>4, <2>7, <2>9
<1> QED BY <1>1, AlwaysFresh, PTL
==============================================================================
