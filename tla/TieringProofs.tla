---------------------------- MODULE TieringProofs ----------------------------
(***************************************************************************)
(* Proofs about Tiering, for any rows, batch size, jobs, crashes and       *)
(* restores: jobs are kept apart by the lock, the rows of a partition that *)
(* nobody writes to are never lost and are found by a query after the      *)
(* drop, a restored partition is verified anew, and the rows that a job    *)
(* counts before it drops are in the cold tier.                            *)
(***************************************************************************)
EXTENDS Tiering, FiniteSetTheorems, WellFoundedInduction, TLAPS

-----------------------------------------------------------------------------
(* Numbers and finite sets.                                                *)

LEMMA LeastIs ==
  ASSUME NEW S \in SUBSET Nat, S # {} PROVE \E m \in S : \A y \in S : m <= y
<1>1. PICK m \in S : \A y \in S : ~(<<y, m>> \in OpToRel(<, Nat))
  BY NatLessThanWellFounded, WFMin
<1>2. \A y \in S : ~(y < m) BY <1>1 DEF OpToRel
<1> QED BY <1>2

(* Induction over the naturals, for a set.                                 *)
LEMMA SetInduction ==
  ASSUME NEW T \in SUBSET Nat, 0 \in T, \A n \in T : n + 1 \in T
  PROVE  T = Nat
<1> SUFFICES ASSUME Nat \ T # {} PROVE FALSE OBVIOUS
<1>1. Nat \ T \in SUBSET Nat OBVIOUS
<1>2. PICK x \in Nat \ T : \A y \in Nat \ T : x <= y BY <1>1, LeastIs
<1>3. x # 0 /\ x - 1 \in Nat /\ ~(x <= x - 1) /\ (x - 1) + 1 = x OBVIOUS
<1>4. x - 1 \in T BY <1>2, <1>3
<1>5. (x - 1) + 1 \in T BY <1>4
<1> QED BY <1>3, <1>5

LEMMA MinIs ==
  ASSUME NEW S \in SUBSET Nat, S # {} PROVE Min(S) \in S /\ \A y \in S : Min(S) <= y
<1>1. \E m \in S : \A y \in S : m <= y BY LeastIs
<1> QED BY <1>1 DEF Min

LEMMA GreatestIs ==
  ASSUME NEW S \in SUBSET Nat, S # {}, IsFiniteSet(S)
  PROVE  \E m \in S : \A y \in S : m >= y
<1> DEFINE Has(U) == \E m \in U : \A y \in U : m >= y
           T == {n \in Nat : \A U \in SUBSET Nat :
                   IsFiniteSet(U) /\ Cardinality(U) = n + 1 => Has(U)}
<1>1. 0 \in T
  <2> SUFFICES ASSUME NEW U \in SUBSET Nat, IsFiniteSet(U), Cardinality(U) = 1
               PROVE  Has(U)
    OBVIOUS
  <2>1. PICK x : U = {x} BY FS_Singleton
  <2>2. x \in Nat BY <2>1
  <2> QED BY <2>1, <2>2
<1>2. ASSUME NEW n \in T PROVE n + 1 \in T
  <2>0. n \in Nat /\ n + 1 \in Nat OBVIOUS
  <2>1. ASSUME NEW U \in SUBSET Nat, IsFiniteSet(U), Cardinality(U) = (n + 1) + 1
        PROVE  Has(U)
    <3>1. U # {} BY <2>0, <2>1, FS_EmptySet
    <3>2. PICK x : x \in U BY <3>1
    <3> DEFINE V == U \ {x}
    <3>3. IsFiniteSet(V) /\ Cardinality(V) = (n + 1) + 1 - 1 BY <2>1, <3>2, FS_RemoveElement
    <3>4. V \in SUBSET Nat /\ Cardinality(V) = n + 1
      <4>1. (n + 1) + 1 - 1 = n + 1 BY <2>0
      <4> QED BY <3>3, <4>1
    <3>5. Has(V)
      <4> HIDE DEF Has, V
      <4> QED BY <3>3, <3>4
    <3>6. PICK m \in V : \A y \in V : m >= y BY <3>5
    <3>7. x \in Nat /\ m \in Nat /\ m \in U /\ \A y \in U : y = x \/ y \in V BY <3>2
    <3>8. CASE m >= x
      <4>1. \A y \in U : m >= y BY <3>6, <3>7, <3>8
      <4> QED BY <3>7, <4>1
    <3>9. CASE ~(m >= x)
      <4>1. \A y \in U : x >= y BY <3>6, <3>7, <3>9
      <4> QED BY <3>2, <4>1
    <3> QED BY <3>8, <3>9
  <2> HIDE DEF Has
  <2> QED BY <2>0, <2>1
<1>3. T = Nat
  <2> HIDE DEF Has
  <2>1. T \in SUBSET Nat OBVIOUS
  <2> HIDE DEF T
  <2> QED BY <1>1, <1>2, <2>1, SetInduction
<1>4. Cardinality(S) \in Nat /\ Cardinality(S) # 0 BY FS_CardinalityType, FS_EmptySet
<1>5. Cardinality(S) - 1 \in Nat /\ Cardinality(S) = (Cardinality(S) - 1) + 1 BY <1>4
<1>6. Has(S)
  <2> HIDE DEF Has
  <2>1. Cardinality(S) - 1 \in T BY <1>3, <1>5
  <2> QED BY <1>5, <2>1
<1> QED BY <1>6

LEMMA MaxIs ==
  ASSUME NEW S \in SUBSET Nat, S # {}, IsFiniteSet(S)
  PROVE  Max(S) \in S /\ \A y \in S : y <= Max(S)
<1>1. \E m \in S : \A y \in S : m >= y BY GreatestIs
<1>2. Max(S) \in S /\ \A y \in S : Max(S) >= y BY <1>1 DEF Max
<1> QED BY <1>2

-----------------------------------------------------------------------------
(* Pages.                                                                  *)

Before(S, r) == {q \in S : q.id < r.id}

(* Stored copies, and rows: what has one copy only, its first.             *)
Copied == [id : Nat, time : Nat, copy : Nat]
FiniteRows(S) == IsFiniteSet(S) /\ S \subseteq [id : Nat, time : Nat, copy : {0}]

LEMMA SliceIs ==
  ASSUME NEW S, FiniteRows(S), NEW limit \in Nat, NEW offset \in Nat
  PROVE  /\ \A r : /\ IsFiniteSet(Before(S, r)) /\ Cardinality(Before(S, r)) \in Nat
         /\ \A r : r \in Slice(S, limit, offset) <=>
              /\ r \in S /\ offset <= Cardinality(Before(S, r))
              /\ Cardinality(Before(S, r)) < offset + limit
<1>1. ASSUME NEW r PROVE IsFiniteSet(Before(S, r)) /\ Cardinality(Before(S, r)) \in Nat
  <2>1. Before(S, r) \in SUBSET S BY DEF Before
  <2>2. IsFiniteSet(Before(S, r)) BY <2>1, FS_Subset DEF FiniteRows
  <2> QED BY <2>2, FS_CardinalityType
<1>2. ASSUME NEW r \in S PROVE {q \in S : Precedes(q, r)} = Before(S, r)
  <2>1. \A q \in S : q.copy = 0 BY DEF FiniteRows
  <2>2. \A q \in S : Precedes(q, r) <=> q.id < r.id BY <2>1 DEF Precedes
  <2> QED BY <2>2 DEF Before
<1>3. ASSUME NEW r
      PROVE  r \in Slice(S, limit, offset) <=>
              /\ r \in S /\ offset <= Cardinality(Before(S, r))
              /\ Cardinality(Before(S, r)) < offset + limit
  <2>1. r \in Slice(S, limit, offset) <=>
          /\ r \in S /\ offset <= Cardinality({q \in S : Precedes(q, r)})
          /\ Cardinality({q \in S : Precedes(q, r)}) < offset + limit
    BY Zenon DEF Slice
  <2> QED BY <1>2, <2>1
<1> QED BY <1>1, <1>3

(* A page from the first row on that is long enough has everything.        *)
LEMMA WholeSlice ==
  ASSUME NEW S \in SUBSET Copied, IsFiniteSet(S), NEW n \in Nat, Cardinality(S) <= n
  PROVE  Slice(S, n, 0) = S
<1>1. ASSUME NEW r \in S
      PROVE  LET k == Cardinality({q \in S : Precedes(q, r)}) IN 0 <= k /\ k < 0 + n
  <2> DEFINE P == {q \in S : Precedes(q, r)}
  <2>1. r \in Copied OBVIOUS
  <2>2. ~Precedes(r, r) BY <2>1 DEF Precedes, Copied
  <2>3. P \in SUBSET S /\ r \notin P BY <2>2
  <2> HIDE DEF P
  <2>4. IsFiniteSet(P) /\ Cardinality(P) <= Cardinality(S)
        /\ (Cardinality(P) = Cardinality(S) => P = S)
    BY <2>3, FS_Subset
  <2>5. Cardinality(P) \in Nat /\ Cardinality(S) \in Nat BY <2>4, FS_CardinalityType
  <2>6. Cardinality(P) # Cardinality(S) BY <2>3, <2>4
  <2>7. 0 <= Cardinality(P) /\ Cardinality(P) < 0 + n BY <2>4, <2>5, <2>6
  <2> QED BY <2>7 DEF P
<1> QED BY <1>1 DEF Slice

LEMMA DedupeRows ==
  ASSUME NEW S, FiniteRows(S) PROVE Dedupe(S) = S
<1>1. \A r \in S : [id |-> r.id, time |-> r.time, copy |-> 0] = r BY DEF FiniteRows
<1> QED BY <1>1 DEF Dedupe

(* A page of the rows of two tiers is the page of what the two return when *)
(* each is asked for limit + offset rows from the first one on.            *)
SamePage(P, A, B, limit, offset) == Slice(P, limit, offset) = Slice(A \cup B, limit, offset)

LEMMA MergedPage ==
  ASSUME NEW A, NEW B, FiniteRows(A), FiniteRows(B),
         NEW limit \in Nat, NEW offset \in Nat, NEW n, n = limit + offset
  PROVE  SamePage(Slice(A, n, 0) \cup Slice(B, n, 0), A, B, limit, offset)
<1> DEFINE M == Slice(A, n, 0) \cup Slice(B, n, 0)
           X == A \cup B
<1>0. n \in Nat /\ offset + limit = n /\ 0 + n = n /\ 0 \in Nat OBVIOUS
<1>1. FiniteRows(X) /\ \A r \in X : r.id \in Nat
  <2>1. IsFiniteSet(X) BY FS_Union DEF FiniteRows
  <2> QED BY <2>1 DEF FiniteRows
<1>2. \A r : /\ r \in Slice(A, n, 0) <=>
                  r \in A /\ 0 <= Cardinality(Before(A, r)) /\ Cardinality(Before(A, r)) < 0 + n
             /\ r \in Slice(B, n, 0) <=>
                  r \in B /\ 0 <= Cardinality(Before(B, r)) /\ Cardinality(Before(B, r)) < 0 + n
  BY <1>0, SliceIs
<1>3. \A r : /\ Cardinality(Before(A, r)) \in Nat /\ Cardinality(Before(B, r)) \in Nat
             /\ IsFiniteSet(Before(X, r)) /\ Cardinality(Before(X, r)) \in Nat
  BY <1>1, SliceIs
<1>4. \A r : r \in M <=> \/ r \in A /\ Cardinality(Before(A, r)) < n
                         \/ r \in B /\ Cardinality(Before(B, r)) < n
  <2>1. \A k \in Nat : 0 <= k OBVIOUS
  <2> QED BY <1>0, <1>2, <1>3, <2>1
<1>5. M \in SUBSET X BY <1>4
<1>6. FiniteRows(M)
  <2>1. IsFiniteSet(M) BY <1>1, <1>5, FS_Subset DEF FiniteRows
  <2> QED BY <1>1, <1>5, <2>1 DEF FiniteRows
<1> HIDE DEF M
<1>7. \A r : IsFiniteSet(Before(M, r)) /\ Cardinality(Before(M, r)) \in Nat
  BY <1>6, SliceIs
<1>8. ASSUME NEW r \in X, Cardinality(Before(X, r)) < n PROVE r \in M
  <2>1. Before(A, r) \in SUBSET Before(X, r) /\ Before(B, r) \in SUBSET Before(X, r)
    BY DEF Before
  <2>2. /\ Cardinality(Before(A, r)) <= Cardinality(Before(X, r))
        /\ Cardinality(Before(B, r)) <= Cardinality(Before(X, r))
    BY <1>3, <2>1, FS_Subset
  <2>3. Cardinality(Before(A, r)) < n /\ Cardinality(Before(B, r)) < n
    BY <1>0, <1>3, <1>8, <2>2
  <2> QED BY <1>4, <2>3
<1>9. ASSUME NEW r \in X, Cardinality(Before(M, r)) < n PROVE Before(M, r) = Before(X, r)
  <2> DEFINE Out == {q \in Before(X, r) : q \notin M}
             I == {q.id : q \in Out}
  <2>1. Before(M, r) \subseteq Before(X, r) BY <1>5 DEF Before
  <2>2. ASSUME Out # {} PROVE FALSE
    <3>1. I \in SUBSET Nat /\ I # {} BY <1>1, <2>2 DEF Before
    <3>2. PICK m \in I : \A y \in I : m <= y
      <4> HIDE DEF I
      <4> QED BY <3>1, LeastIs
    <3>3. PICK q \in Out : q.id = m BY <3>2
    <3>4. q \in X /\ q.id < r.id /\ q.id \in Nat /\ r.id \in Nat /\ q \notin M
      BY <1>1, <3>3 DEF Before
    <3>5. ASSUME NEW x \in Before(X, q) PROVE x \in Before(M, r)
      <4>1. x \in X /\ x.id < q.id /\ x.id \in Nat BY <1>1, <3>4 DEF Before
      <4>2. x.id < r.id BY <3>4, <4>1
      <4>3. x \in Before(X, r) BY <4>1, <4>2 DEF Before
      <4>4. x \notin Out
        <5>1. ASSUME x \in Out PROVE FALSE
          <6>1. x.id \in I BY <5>1
          <6>2. m <= x.id BY <3>2, <6>1
          <6> QED BY <3>3, <3>4, <4>1, <6>2
        <5> QED BY <5>1
      <4>5. x \in M BY <4>3, <4>4
      <4> QED BY <4>2, <4>5 DEF Before
    <3>6. Before(X, q) \in SUBSET Before(M, r) BY <3>5
    <3>7. Cardinality(Before(X, q)) <= Cardinality(Before(M, r))
      BY <1>7, <3>6, FS_Subset
    <3>8. Cardinality(Before(X, q)) < n BY <1>0, <1>3, <1>7, <1>9, <3>7
    <3>9. q \in M BY <1>8, <3>4, <3>8
    <3> QED BY <3>4, <3>9
  <2>3. Before(X, r) \subseteq Before(M, r)
    <3> SUFFICES ASSUME NEW q \in Before(X, r) PROVE q \in Before(M, r) OBVIOUS
    <3>1. q \in M BY <2>2
    <3> QED BY <3>1 DEF Before
  <2> QED BY <2>1, <2>3
<1>10. \A r \in X : Cardinality(Before(M, r)) <= Cardinality(Before(X, r))
  <2> SUFFICES ASSUME NEW r \in X
               PROVE  Cardinality(Before(M, r)) <= Cardinality(Before(X, r))
    OBVIOUS
  <2>1. Before(M, r) \in SUBSET Before(X, r) BY <1>5 DEF Before
  <2> QED BY <1>3, <2>1, FS_Subset
<1>11. \A r : /\ r \in Slice(M, limit, offset) <=>
                   /\ r \in M /\ offset <= Cardinality(Before(M, r))
                   /\ Cardinality(Before(M, r)) < n
              /\ r \in Slice(X, limit, offset) <=>
                   /\ r \in X /\ offset <= Cardinality(Before(X, r))
                   /\ Cardinality(Before(X, r)) < n
  BY <1>0, <1>1, <1>6, SliceIs
<1>12. ASSUME NEW r \in Slice(M, limit, offset) PROVE r \in Slice(X, limit, offset)
  BY <1>5, <1>9, <1>11
<1>13. ASSUME NEW r \in Slice(X, limit, offset) PROVE r \in Slice(M, limit, offset)
  <2>1. r \in X /\ offset <= Cardinality(Before(X, r)) /\ Cardinality(Before(X, r)) < n
    BY <1>11
  <2>2. r \in M BY <1>8, <2>1
  <2>3. Cardinality(Before(M, r)) < n
    <3>1. Cardinality(Before(M, r)) <= Cardinality(Before(X, r)) BY <1>10, <2>1
    <3> QED BY <1>0, <1>3, <1>7, <2>1, <3>1
  <2>4. Before(M, r) = Before(X, r) BY <1>9, <2>1, <2>3
  <2> QED BY <1>11, <2>1, <2>2, <2>4
<1>14. Slice(M, limit, offset) = Slice(X, limit, offset) BY <1>12, <1>13
<1> QED BY <1>14 DEF M, SamePage

(* What is kept of the first n copies in the cold tier C, which has further *)
(* copies of its rows B, when there are no more than n.                     *)
LEMMA FoldedPage ==
  ASSUME NEW B, FiniteRows(B), NEW C \in SUBSET Copied, IsFiniteSet(C), Dedupe(C) = B,
         NEW n \in Nat, C = B \/ (Cardinality(C) <= n /\ Cardinality(B) <= n)
  PROVE  Dedupe(Slice(C, n, 0)) = Slice(B, n, 0)
<1>1. CASE C = B
  <2>1. Slice(B, n, 0) \subseteq B BY DEF Slice
  <2>2. IsFiniteSet(Slice(B, n, 0)) BY <2>1, FS_Subset DEF FiniteRows
  <2>3. FiniteRows(Slice(B, n, 0)) BY <2>1, <2>2 DEF FiniteRows
  <2> QED BY <1>1, <2>3, DedupeRows
<1>2. CASE Cardinality(C) <= n /\ Cardinality(B) <= n
  <2>1. B \in SUBSET Copied /\ IsFiniteSet(B) BY DEF FiniteRows, Copied
  <2>2. Slice(C, n, 0) = C BY <1>2, WholeSlice
  <2>3. Slice(B, n, 0) = B BY <1>2, <2>1, WholeSlice
  <2> QED BY <2>2, <2>3
<1> QED BY <1>1, <1>2

(* The page over the boundary, when P is what the cold tier returns.       *)
LEMMA SpanningPage ==
  ASSUME NEW A, NEW B, FiniteRows(A), FiniteRows(B),
         NEW limit \in Nat, NEW offset \in Nat, NEW n, n = limit + offset,
         NEW P, Dedupe(P) = Slice(B, n, 0)
  PROVE  SamePage(Dedupe(Slice(A, n, 0) \cup P), A, B, limit, offset)
<1>1. SamePage(Slice(A, n, 0) \cup Slice(B, n, 0), A, B, limit, offset) BY MergedPage, Zenon
<1>2. Slice(A, n, 0) \subseteq A BY DEF Slice
<1>3. FiniteRows(Slice(A, n, 0))
  <2>1. IsFiniteSet(Slice(A, n, 0)) BY <1>2, FS_Subset DEF FiniteRows
  <2> QED BY <1>2, <2>1 DEF FiniteRows
<1>4. Dedupe(Slice(A, n, 0)) = Slice(A, n, 0) BY <1>3, DedupeRows
<1>5. Dedupe(Slice(A, n, 0) \cup P) = Dedupe(Slice(A, n, 0)) \cup Dedupe(P) BY DEF Dedupe
<1> QED BY <1>1, <1>4, <1>5

(* What fmt_time drops.                                                    *)
LEMMA TimesSum ==
  ASSUME NEW k \in Nat \ {0}, NEW a \in Nat, NEW b \in Nat, a < b
  PROVE  k * a + k <= k * b
<1>1. PICK d \in Nat : b = a + 1 + d
  <2>1. b - a - 1 \in Nat /\ b = a + 1 + (b - a - 1) OBVIOUS
  <2> QED BY <2>1
<1>2. k * b = k * a + k + k * d BY <1>1
<1>3. k * d \in Nat /\ k * a \in Nat OBVIOUS
<1> QED BY <1>2, <1>3

LEMMA FmtTimeIs ==
  ASSUME NEW t \in Nat
  PROVE  /\ FmtTime(t) \in Nat /\ FmtTime(t) <= t
         /\ FmtTime(t) = TicksPerSecond * (t \div TicksPerSecond)
         /\ t \div TicksPerSecond \in Nat /\ t < FmtTime(t) + TicksPerSecond
<1> DEFINE k == TicksPerSecond
<1>1. k \in Nat \ {0} BY TimesAssumption
<1>2. t \div k \in Nat /\ t % k \in 0..k - 1 /\ t = k * (t \div k) + (t % k) BY <1>1
<1>3. k * (t \div k) \in Nat BY <1>1, <1>2
<1>4. FmtTime(t) = t - (t % k) BY DEF FmtTime
<1> HIDE DEF k
<1> QED BY <1>1, <1>2, <1>3, <1>4 DEF k

LEMMA FmtTimeOrder ==
  ASSUME NEW a \in Nat, NEW b \in Nat, a <= b PROVE FmtTime(a) <= FmtTime(b)
<1> DEFINE k == TicksPerSecond
           x == a \div k
           y == b \div k
<1>1. k \in Nat \ {0} BY TimesAssumption
<1>2. /\ x \in Nat /\ y \in Nat /\ FmtTime(a) = k * x /\ FmtTime(b) = k * y
      /\ FmtTime(a) \in Nat /\ FmtTime(b) \in Nat
      /\ FmtTime(a) <= a /\ b < FmtTime(b) + k
  BY FmtTimeIs
<1> HIDE DEF k, x, y
<1>3. ASSUME ~(FmtTime(a) <= FmtTime(b)) PROVE FALSE
  <2>1. CASE y < x
    <3>1. k * y + k <= k * x BY <1>1, <1>2, <2>1, TimesSum
    <3> QED BY <1>1, <1>2, <3>1
  <2>2. CASE x = y BY <1>2, <1>3, <2>2
  <2>3. CASE x < y
    <3>1. k * x + k <= k * y BY <1>1, <1>2, <2>3, TimesSum
    <3> QED BY <1>1, <1>2, <1>3, <3>1
  <2> QED BY <1>2, <2>1, <2>2, <2>3
<1> QED BY <1>3

LEMMA TablesFinite == ASSUME NEW T \in Tables PROVE IsFiniteSet(T) /\ \A r \in T : r \in QRows
<1> DEFINE f == [r \in T |-> r.id]
<1>1. T \in SUBSET QRows /\ \A r, q \in T : r.id = q.id => r = q BY DEF Tables
<1>2. f \in [T -> QIds] BY <1>1 DEF QRows
<1>3. f \in Injection(T, QIds) BY <1>1, <1>2 DEF Injection, IsInjective
<1>4. IsFiniteSet(T)
  <2>1. IsFiniteSet(QIds) BY TimesAssumption
  <2> HIDE DEF f
  <2> QED BY <1>3, <2>1, FS_Injection
<1> QED BY <1>1, <1>4

(* What a side is asked for, when it has exactly the rows T in the range.  *)
LEMMA HotRangeIs ==
  ASSUME NEW H, NEW W, NEW from, NEW to, NEW limit, NEW offset,
         {r \in H : FmtTime(from) <= r.time /\ r.time <= FmtTime(to)} = W
  PROVE  HotRange(H, from, to, limit, offset) = Slice(W, limit, offset)
BY DEF HotRange

LEMMA ColdRangeIs ==
  ASSUME NEW C, NEW W, NEW from, NEW to, NEW limit, NEW offset,
         {r \in C : FmtTime(from) <= r.time /\ r.time < FmtTime(to)} = W
  PROVE  ColdRange(C, from, to, limit, offset) = Slice(W, limit, offset)
BY DEF ColdRange

(* The cold tier with every row once more.                                 *)
LEMMA AgainIs ==
  ASSUME NEW K, FiniteRows(K), NEW more \in {{}, Again(K)}
  PROVE  /\ K \cup more \in SUBSET Copied /\ IsFiniteSet(K \cup more)
         /\ \A r \in K \cup more : [id |-> r.id, time |-> r.time, copy |-> 0] \in K
<1> DEFINE g == [r \in K |-> [id |-> r.id, time |-> r.time, copy |-> 1]]
<1>1. \A r \in K : /\ r \in Copied /\ [id |-> r.id, time |-> r.time, copy |-> 0] = r
                   /\ [id |-> r.id, time |-> r.time, copy |-> 1] \in Copied
  BY DEF FiniteRows, Copied
<1>2. Again(K) \in SUBSET Copied BY <1>1 DEF Again
<1>3. IsFiniteSet(Again(K))
  <2>1. g \in Surjection(K, Again(K)) BY DEF Surjection, Again
  <2>2. IsFiniteSet(K) BY DEF FiniteRows
  <2> HIDE DEF g
  <2> QED BY <2>1, <2>2, FS_Surjection
<1>4. IsFiniteSet(more) BY <1>3, FS_EmptySet
<1>5. IsFiniteSet(K \cup more) BY <1>4, FS_Union DEF FiniteRows
<1>6. ASSUME NEW r \in Again(K) PROVE [id |-> r.id, time |-> r.time, copy |-> 0] \in K
  <2>1. PICK y \in K : r = [id |-> y.id, time |-> y.time, copy |-> 1] BY DEF Again
  <2>2. [id |-> r.id, time |-> r.time, copy |-> 0] = [id |-> y.id, time |-> y.time, copy |-> 0]
    BY <2>1
  <2> QED BY <1>1, <2>2
<1> QED BY <1>1, <1>2, <1>5, <1>6

(* What the code selects, if no row is at an end, is what is documented.   *)
LEMMA BetweenIs ==
  ASSUME NEW t \in Nat, NEW boundary \in Nat, NEW from \in Nat, NEW to \in Nat,
         NEW r, r.time = t, ~AtEnd(r, boundary, from, to)
  PROVE  (from <= t /\ t <= to) <=>
           /\ FmtTime(from) <= t
           /\ t < FmtTime(to) \/ (t = FmtTime(to) /\ to >= boundary)
<1>1. /\ FmtTime(from) \in Nat /\ FmtTime(from) <= from
      /\ FmtTime(to) \in Nat /\ FmtTime(to) <= to
  BY FmtTimeIs
<1>2. /\ ~(FmtTime(from) <= t /\ t < from) /\ ~(FmtTime(to) < t /\ t <= to)
      /\ ~(t = FmtTime(to) /\ to < boundary)
  BY DEF AtEnd
<1>3. from <= t <=> FmtTime(from) <= t BY <1>1, <1>2
<1>4. t <= to <=> (t < FmtTime(to) \/ (t = FmtTime(to) /\ to >= boundary)) BY <1>1, <1>2
<1> QED BY <1>3, <1>4

LEMMA PagesExact == PagesAreExact
<1> SUFFICES ASSUME NEW T \in Tables, NEW boundary \in QTimes, NEW from \in QTimes,
                    NEW to \in QTimes, NEW limit \in QSizes, NEW offset \in QSizes,
                    from <= to, \A r \in T : ~AtEnd(r, boundary, from, to)
             PROVE  \A both \in {{}, T} :
                      PageIsExact(T, both, boundary, from, to, limit, offset)
  BY Zenon DEF PagesAreExact
<1> SUFFICES ASSUME NEW both \in {{}, T}
             PROVE  PageIsExact(T, both, boundary, from, to, limit, offset)
  OBVIOUS
<1> DEFINE older == Earlier(T, boundary)
           H == (T \ older) \cup both
           K == older \cup both
<1> SUFFICES ASSUME NEW more \in {{}, Again(K)},
                    \/ more = {}
                    \/ to >= boundary /\ limit + offset >= Cardinality(K \cup more)
             PROVE  QueryRange(H, K \cup more, boundary, from, to, limit, offset)
                      = Slice(Between(T, from, to), limit, offset)
  BY Zenon DEF PageIsExact
<1> DEFINE C == K \cup more
           W == Between(T, from, to)
           fb == FmtTime(boundary)
           ff == FmtTime(from)
           ft == FmtTime(to)
<1>1. boundary \in Nat /\ from \in Nat /\ to \in Nat /\ limit \in Nat /\ offset \in Nat
  BY TimesAssumption
<1>2. fb \in Nat /\ ff \in Nat /\ ft \in Nat BY <1>1, FmtTimeIs
<1>3. FiniteRows(T) /\ \A r \in T : r.time \in Nat
  <2>1. QRows \subseteq [id : Nat, time : Nat, copy : {0}] BY TimesAssumption DEF QRows
  <2>2. IsFiniteSet(T) /\ \A r \in T : r \in QRows BY TablesFinite
  <2> QED BY <2>1, <2>2 DEF FiniteRows
<1>4. /\ ff <= ft
      /\ from >= boundary => fb <= ff
      /\ from < boundary => ff <= fb
      /\ to < boundary => ft <= fb
      /\ to >= boundary => fb <= ft
  BY <1>1, FmtTimeOrder
<1>5. W \subseteq T /\ \A r \in T : r \in W <=>
        ff <= r.time /\ (r.time < ft \/ (r.time = ft /\ to >= boundary))
  <2>1. ASSUME NEW r \in T
        PROVE  r \in W <=> ff <= r.time /\ (r.time < ft \/ (r.time = ft /\ to >= boundary))
    <3>1. r \in W <=> from <= r.time /\ r.time <= to BY DEF Between
    <3>2. r.time \in Nat /\ ~AtEnd(r, boundary, from, to) BY <1>3
    <3> HIDE DEF W
    <3> QED BY <1>1, <3>1, <3>2, BetweenIs
  <2>2. W \subseteq T BY DEF Between
  <2> HIDE DEF W, ff, ft
  <2> QED BY <2>1, <2>2
<1>6. \A r : /\ r \in H <=> r \in T /\ (~(r.time < fb) \/ r \in both)
             /\ r \in K <=> r \in T /\ (r.time < fb \/ r \in both)
  BY DEF Earlier
<1>7. QueryRange(H, C, boundary, from, to, limit, offset) =
        CASE from >= boundary -> HotRange(H, from, to, limit, offset)
          [] from < boundary /\ to < boundary -> ColdRange(C, from, to, limit, offset)
          [] from < boundary /\ to >= boundary ->
               Slice(Dedupe(HotRange(H, boundary, to, limit + offset, 0)
                              \cup ColdRange(C, from, boundary, limit + offset, 0)),
                     limit, offset)
  BY DEF QueryRange, Pushdown
<1> HIDE DEF H, K, C, W, fb, ff, ft, older
<1>8. CASE from >= boundary
  <2>1. {r \in H : ff <= r.time /\ r.time <= ft} = W
    <3>1. ASSUME NEW r \in T
          PROVE  (r \in H /\ ff <= r.time /\ r.time <= ft) <=> r \in W
      <4>1. r.time \in Nat BY <1>3
      <4>2. to >= boundary BY <1>1, <1>8
      <4>3. ff <= r.time => ~(r.time < fb) BY <1>2, <1>4, <1>8, <4>1
      <4>4. r.time <= ft <=> (r.time < ft \/ r.time = ft) BY <1>2, <4>1
      <4> QED BY <1>5, <1>6, <4>2, <4>3, <4>4
    <3> QED BY <1>5, <1>6, <3>1
  <2>2. HotRange(H, from, to, limit, offset) = Slice(W, limit, offset)
    BY <2>1, HotRangeIs DEF ff, ft
  <2>3. ~(from < boundary) BY <1>1, <1>8
  <2> QED BY <1>7, <1>8, <2>2, <2>3 DEF C, W
<1>9. CASE from < boundary /\ to < boundary
  <2>0. ~(to >= boundary) BY <1>1, <1>9
  <2>1. C = K BY <2>0 DEF C
  <2>2. {r \in C : ff <= r.time /\ r.time < ft} = W
    <3>1. ASSUME NEW r \in T
          PROVE  (r \in C /\ ff <= r.time /\ r.time < ft) <=> r \in W
      <4>1. r.time \in Nat BY <1>3
      <4>2. r.time < ft => r.time < fb BY <1>2, <1>4, <1>9, <4>1
      <4> QED BY <1>5, <1>6, <2>0, <2>1, <4>2
    <3> QED BY <1>5, <1>6, <2>1, <3>1
  <2>3. ColdRange(C, from, to, limit, offset) = Slice(W, limit, offset)
    BY <2>2, ColdRangeIs DEF ff, ft
  <2>4. ~(from >= boundary) BY <1>1, <1>9
  <2> QED BY <1>7, <1>9, <2>0, <2>3, <2>4 DEF C, W
<1>10. CASE from < boundary /\ to >= boundary
  <2> DEFINE A == {r \in H : fb <= r.time /\ r.time <= ft}
             B == {r \in K : ff <= r.time /\ r.time < fb}
             D == {r \in C : ff <= r.time /\ r.time < fb}
  <2>n. PICK n : n = limit + offset OBVIOUS
  <2>1. A \cup B = W
    <3>1. ASSUME NEW r \in T PROVE (r \in A \/ r \in B) <=> r \in W
      <4>1. r.time \in Nat BY <1>3
      <4>2. /\ fb <= r.time <=> ~(r.time < fb)
            /\ r.time <= ft <=> (r.time < ft \/ r.time = ft)
            /\ r.time < fb => r.time <= ft
            /\ fb <= r.time => ff <= r.time
        BY <1>2, <1>4, <1>10, <4>1
      <4> QED BY <1>5, <1>6, <1>10, <4>2
    <3> QED BY <1>5, <1>6, <3>1
  <2>2. A \in SUBSET T /\ B \in SUBSET T /\ K \in SUBSET T BY <1>6
  <2>3. FiniteRows(A) /\ FiniteRows(B) /\ FiniteRows(K)
    <3>1. IsFiniteSet(A) /\ IsFiniteSet(B) /\ IsFiniteSet(K)
      BY <1>3, <2>2, FS_Subset DEF FiniteRows
    <3> QED BY <1>3, <2>2, <3>1 DEF FiniteRows
  <2>4. /\ HotRange(H, boundary, to, n, 0) = Slice(A, n, 0)
        /\ ColdRange(C, from, boundary, n, 0) = Slice(D, n, 0)
    BY HotRangeIs, ColdRangeIs DEF fb, ff, ft
  <2>5. /\ C \in SUBSET Copied /\ IsFiniteSet(C)
        /\ \A r \in C : [id |-> r.id, time |-> r.time, copy |-> 0] \in K
    BY <2>3, AgainIs DEF C
  <2>6. D \in SUBSET C /\ B \in SUBSET D BY DEF C
  <2>7. Dedupe(D) = B
    <3>1. ASSUME NEW r \in D PROVE [id |-> r.id, time |-> r.time, copy |-> 0] \in B
      <4>1. r \in C /\ ff <= r.time /\ r.time < fb OBVIOUS
      <4> QED BY <2>5, <4>1
    <3>2. \A r \in B : [id |-> r.id, time |-> r.time, copy |-> 0] = r
      BY <2>3 DEF FiniteRows
    <3> HIDE DEF B, D
    <3>3. Dedupe(D) \subseteq B BY <3>1 DEF Dedupe
    <3>4. B \subseteq Dedupe(D) BY <2>6, <3>2 DEF Dedupe
    <3> QED BY <3>3, <3>4
  <2>8. D = B \/ (Cardinality(D) <= n /\ Cardinality(B) <= n)
    <3>1. CASE more = {} BY <3>1 DEF C
    <3>2. CASE limit + offset >= Cardinality(C)
      <4>1. B \in SUBSET C BY <2>6
      <4> HIDE DEF B, D
      <4>2. /\ IsFiniteSet(D) /\ Cardinality(D) <= Cardinality(C)
            /\ IsFiniteSet(B) /\ Cardinality(B) <= Cardinality(C)
        BY <2>5, <2>6, <4>1, FS_Subset
      <4>3. Cardinality(B) \in Nat /\ Cardinality(C) \in Nat /\ Cardinality(D) \in Nat
        BY <2>5, <4>2, FS_CardinalityType
      <4> QED BY <1>1, <2>n, <3>2, <4>2, <4>3
    <3> QED BY <3>1, <3>2 DEF C
  <2>9. D \in SUBSET Copied /\ IsFiniteSet(D) BY <2>5, <2>6, FS_Subset
  <2> HIDE DEF A, B, D
  <2>10. Slice(Dedupe(Slice(A, n, 0) \cup Slice(D, n, 0)), limit, offset)
           = Slice(A \cup B, limit, offset)
    <3>1. n \in Nat BY <1>1, <2>n
    <3>2. Dedupe(Slice(D, n, 0)) = Slice(B, n, 0) BY <2>3, <2>7, <2>8, <2>9, <3>1, FoldedPage
    <3>3. SamePage(Dedupe(Slice(A, n, 0) \cup Slice(D, n, 0)), A, B, limit, offset)
      BY <1>1, <2>3, <2>n, <3>2, SpanningPage, Zenon
    <3> QED BY <3>3, Zenon DEF SamePage
  <2>11. ~(from >= boundary) /\ ~(to < boundary) BY <1>1, <1>10
  <2> QED BY <1>7, <1>10, <2>1, <2>4, <2>10, <2>11, <2>n DEF C, W
<1>11. from >= boundary \/ (from < boundary /\ (to < boundary \/ to >= boundary)) BY <1>1
<1> QED BY <1>8, <1>9, <1>10, <1>11 DEF H, K, C, W, older

(* What a query finds in the cold table.                                   *)
LEMMA StoredIs ==
  ASSUME table \in SUBSET Ids, NEW further \in Copies
  PROVE  /\ FiniteRows(AsRows(table)) /\ \A r \in AsRows(table) : r.time = Min(QTimes)
         /\ Stored(further) \in SUBSET Copied /\ IsFiniteSet(Stored(further))
         /\ \A r \in Stored(further) : r.time = Min(QTimes)
         /\ Dedupe(Stored(further)) = AsRows(table)
         /\ AsRows(table) \in SUBSET Stored(further)
         /\ (\A i \in table : further[i] = 0) => Stored(further) = AsRows(table)
<1> DEFINE lo == Min(QTimes)
           R == AsRows(table)
           S == Stored(further)
           f == [i \in table |-> RowCopy(i, 0)]
<1>1. lo \in Nat
  <2>1. QTimes \in SUBSET Nat /\ QTimes # {} /\ IsFiniteSet(QTimes) BY TimesAssumption
  <2> QED BY <2>1, MinIs
<1>2. \A i \in table : i \in Nat BY RowsAssumption
<1>3. \A i \in table : further[i] \in Nat BY BoundsAssumption DEF Copies
<1>4. IsFiniteSet(table) BY RowsAssumption, FS_Subset
<1>5. \A r : r \in R <=> \E i \in table : r = RowCopy(i, 0) BY DEF AsRows
<1>6. \A r : r \in S <=> \E i \in table : \E n \in 0..further[i] : r = RowCopy(i, n)
  BY DEF Stored
<1>7. \A i, n : /\ RowCopy(i, n).id = i /\ RowCopy(i, n).time = lo /\ RowCopy(i, n).copy = n
                /\ [id |-> RowCopy(i, n).id, time |-> RowCopy(i, n).time, copy |-> 0]
                     = RowCopy(i, 0)
  BY DEF RowCopy
<1>8. \A i \in Nat, n \in Nat :
        /\ RowCopy(i, n) \in Copied
        /\ RowCopy(i, 0) \in [id : Nat, time : Nat, copy : {0}]
  BY <1>1 DEF RowCopy, Copied
<1>9. FiniteRows(R)
  <2>1. f \in Surjection(table, R) BY DEF Surjection, AsRows
  <2> HIDE DEF f, R
  <2>2. IsFiniteSet(R) BY <1>4, <2>1, FS_Surjection
  <2>3. R \subseteq [id : Nat, time : Nat, copy : {0}] BY <1>2, <1>5, <1>8
  <2> QED BY <2>2, <2>3 DEF FiniteRows
<1>10. IsFiniteSet(S)
  <2> DEFINE P(i) == {RowCopy(i, n) : n \in 0..further[i]}
             Q == {P(i) : i \in table}
             h == [i \in table |-> P(i)]
  <2>1. ASSUME NEW i \in table PROVE IsFiniteSet(P(i))
    <3> DEFINE g == [n \in 0..further[i] |-> RowCopy(i, n)]
    <3>1. IsFiniteSet(0..further[i]) BY <1>3, FS_Interval
    <3>2. g \in Surjection(0..further[i], P(i)) BY DEF Surjection
    <3> HIDE DEF g, P
    <3> QED BY <3>1, <3>2, FS_Surjection
  <2>2. h \in Surjection(table, Q) BY DEF Surjection
  <2>3. IsFiniteSet(Q)
    <3> HIDE DEF h, Q
    <3> QED BY <1>4, <2>2, FS_Surjection
  <2>4. \A X \in Q : IsFiniteSet(X) BY <2>1
  <2>5. S = UNION Q BY DEF Stored
  <2> HIDE DEF Q, S
  <2> QED BY <2>3, <2>4, <2>5, FS_UNION
<1> HIDE DEF R, S, lo
<1>11. S \in SUBSET Copied BY <1>2, <1>3, <1>6, <1>8
<1>12. (\A r \in R : r.time = lo) /\ (\A r \in S : r.time = lo) BY <1>5, <1>6, <1>7
<1>13. \A i \in table : 0 \in 0..further[i] BY <1>3
<1>14. R \in SUBSET S BY <1>5, <1>6, <1>13
<1>15. Dedupe(S) = R
  <2>1. ASSUME NEW r \in S PROVE [id |-> r.id, time |-> r.time, copy |-> 0] \in R
    <3>1. PICK i \in table : \E n \in 0..further[i] : r = RowCopy(i, n) BY <1>6
    <3>2. PICK n \in 0..further[i] : r = RowCopy(i, n) BY <3>1
    <3>3. [id |-> r.id, time |-> r.time, copy |-> 0] = RowCopy(i, 0) BY <1>7, <3>2
    <3> QED BY <1>5, <3>3
  <2>2. \A r \in R : [id |-> r.id, time |-> r.time, copy |-> 0] = r BY <1>9 DEF FiniteRows
  <2>3. Dedupe(S) \subseteq R BY <2>1 DEF Dedupe
  <2>4. R \subseteq Dedupe(S) BY <1>14, <2>2 DEF Dedupe
  <2> QED BY <2>3, <2>4
<1>16. ASSUME \A i \in table : further[i] = 0 PROVE S = R
  <2>1. 0..0 = {0} OBVIOUS
  <2>2. S \subseteq R BY <1>5, <1>6, <1>16, <2>1
  <2> QED BY <1>14, <2>2
<1> QED BY <1>9, <1>10, <1>11, <1>12, <1>14, <1>15, <1>16 DEF R, S, lo

(* A query over the boundary finds the rows of a dropped partition in the  *)
(* cold tier.                                                              *)
LEMMA DroppedQuery ==
  ASSUME table \in SUBSET Ids, NEW further \in Copies,
         NEW limit \in QSizes, NEW offset \in QSizes,
         \/ \A i \in table : further[i] = 0
         \/ limit + offset >= Cardinality(Stored(further))
  PROVE  QueryRange({}, Stored(further), Max(QTimes), Min(QTimes), Max(QTimes), limit, offset)
           = Slice(AsRows(table), limit, offset)
<1> DEFINE lo == Min(QTimes)
           hi == Max(QTimes)
           R == AsRows(table)
           S == Stored(further)
<1>n. PICK n : n = limit + offset OBVIOUS
<1>1. limit \in Nat /\ offset \in Nat BY TimesAssumption
<1>2. lo \in Nat /\ hi \in Nat /\ lo < FmtTime(hi)
  <2>1. QTimes \in SUBSET Nat /\ QTimes # {} /\ IsFiniteSet(QTimes) BY TimesAssumption
  <2>2. lo \in QTimes /\ hi \in QTimes BY <2>1, MinIs, MaxIs
  <2> QED BY <2>1, <2>2, SpanAssumption
<1>3. FmtTime(lo) \in Nat /\ FmtTime(hi) \in Nat /\ FmtTime(lo) <= lo /\ FmtTime(hi) <= hi
  BY <1>2, FmtTimeIs
<1>4. lo < hi BY <1>2, <1>3
<1>5. /\ FiniteRows(R) /\ S \in SUBSET Copied /\ IsFiniteSet(S)
      /\ \A r \in S : r.time = lo
      /\ Dedupe(S) = R /\ R \in SUBSET S
      /\ (\A i \in table : further[i] = 0) => S = R
  BY StoredIs
<1>6. S = R \/ n >= Cardinality(S) BY <1>5, <1>n
<1> HIDE DEF R, S, lo, hi
<1>7. S = R \/ (Cardinality(S) <= n /\ Cardinality(R) <= n)
  <2>1. CASE n >= Cardinality(S)
    <3>1. IsFiniteSet(R) /\ Cardinality(R) <= Cardinality(S) BY <1>5, FS_Subset
    <3>2. Cardinality(R) \in Nat /\ Cardinality(S) \in Nat BY <1>5, <3>1, FS_CardinalityType
    <3> QED BY <1>1, <1>n, <2>1, <3>1, <3>2
  <2> QED BY <1>6, <2>1
<1>8. FiniteRows({}) BY FS_EmptySet DEF FiniteRows
<1>9. {r \in S : FmtTime(lo) <= r.time /\ r.time < FmtTime(hi)} = S BY <1>2, <1>3, <1>5
<1>10. Slice(Dedupe(HotRange({}, hi, hi, n, 0) \cup ColdRange(S, lo, hi, n, 0)), limit, offset)
         = Slice(R, limit, offset)
  <2>1. ColdRange(S, lo, hi, n, 0) = Slice(S, n, 0) BY <1>9, ColdRangeIs
  <2>2. HotRange({}, hi, hi, n, 0) = Slice({}, n, 0)
    <3>1. {r \in {} : FmtTime(hi) <= r.time /\ r.time <= FmtTime(hi)} = {} OBVIOUS
    <3> QED BY <3>1, HotRangeIs
  <2>3. Slice(Dedupe(Slice({}, n, 0) \cup Slice(S, n, 0)), limit, offset)
          = Slice({} \cup R, limit, offset)
    <3>1. n \in Nat BY <1>1, <1>n
    <3>2. Dedupe(Slice(S, n, 0)) = Slice(R, n, 0) BY <1>5, <1>7, <3>1, FoldedPage
    <3>3. SamePage(Dedupe(Slice({}, n, 0) \cup Slice(S, n, 0)), {}, R, limit, offset)
      BY <1>1, <1>5, <1>8, <1>n, <3>2, SpanningPage, Zenon
    <3> QED BY <3>3, Zenon DEF SamePage
  <2>4. {} \cup R = R OBVIOUS
  <2> QED BY <2>1, <2>2, <2>3, <2>4
<1>11. QueryRange({}, S, hi, lo, hi, limit, offset) =
         CASE lo >= hi -> HotRange({}, lo, hi, limit, offset)
           [] lo < hi /\ hi < hi -> ColdRange(S, lo, hi, limit, offset)
           [] lo < hi /\ hi >= hi ->
                Slice(Dedupe(HotRange({}, hi, hi, limit + offset, 0)
                               \cup ColdRange(S, lo, hi, limit + offset, 0)), limit, offset)
  BY DEF QueryRange, Pushdown
<1>12. ~(lo >= hi) /\ ~(hi < hi) /\ hi >= hi BY <1>2, <1>4
<1> QED BY <1>n, <1>4, <1>10, <1>11, <1>12 DEF R, S, lo, hi

-----------------------------------------------------------------------------
(* The lock.                                                               *)

Pcs == {"idle", "select", "load", "read", "data", "meta", "seed",
        "copied", "verify", "count", "drop", "mark", "release"}

(* A job at work has the lock, or lost it to the TTL.                      *)
Jobs ==
  /\ pc \in [Runners -> Pcs]
  /\ lock \in Runners \cup {Free, Orphan}
  /\ \A r \in Runners : Working(r) => lock = r \/ r \in lapsed

(* A step that leaves the lock alone and keeps the idle jobs idle.         *)
LEMMA JobStep ==
  ASSUME Jobs, NEW r \in Runners, Working(r), NEW p \in Pcs, pc' = [pc EXCEPT ![r] = p],
         UNCHANGED <<lock, lapsed>>
  PROVE  Jobs'
BY DEF Jobs, Working

LEMMA JobsInit == Init => Jobs
BY DEF Init, Jobs, Working, Pcs

LEMMA JobsNext == Jobs /\ [Next]_vars => Jobs'
<1> SUFFICES ASSUME Jobs, [Next]_vars PROVE Jobs' OBVIOUS
<1> USE DEF ghosts, oper, cold, part
<1>0. pc \in [Runners -> Pcs] /\ \A r \in Runners : pc[r] \in Pcs BY DEF Jobs
<1>1. ASSUME NEW r \in Runners, Begin(r) PROVE Jobs'
  BY <1>1, HoldersAssumption DEF Jobs, Working, Pcs, Begin, Acquire, To, Runners
<1>2. ASSUME NEW r \in Runners, BeginLost(r) PROVE Jobs'
  BY <1>2, HoldersAssumption DEF Jobs, Working, Pcs, BeginLost, AcquireLost, Runners
<1>3. ASSUME NEW r \in Runners, End(r) PROVE Jobs'
  <2>1. /\ lock # r => lock' = lock
        /\ lock' \in Runners \cup {Free, Orphan}
        /\ pc' = [pc EXCEPT ![r] = "idle"] /\ lapsed' = lapsed \ {r}
    BY <1>3 DEF Jobs, End, To, Release, Forget
  <2>2. \A q \in Runners \ {r} : lock = q => lock' = q BY <2>1
  <2> QED BY <2>1, <2>2 DEF Jobs, Working, Pcs
<1>4. ASSUME NEW r \in Runners, Crash(r) PROVE Jobs'
  <2>1. /\ lock' = IF lock = r THEN Orphan ELSE lock
        /\ pc' = [pc EXCEPT ![r] = "idle"] /\ lapsed' = lapsed \ {r}
    BY <1>4 DEF Crash, To, Forget
  <2> QED BY <2>1 DEF Jobs, Working, Pcs
<1>5. CASE Lapse
  BY <1>5, HoldersAssumption DEF Jobs, Working, Lapse, Expire, Runners
<1>6. ASSUME NEW r \in Runners, NEW p \in Pcs, pc[r] # "idle",
             pc' = [pc EXCEPT ![r] = p] \/ UNCHANGED pc, UNCHANGED <<lock, lapsed>>
      PROVE  Jobs'
  <2>1. CASE pc' = [pc EXCEPT ![r] = p] BY <1>6, <2>1, JobStep DEF Working
  <2>2. CASE UNCHANGED pc BY <1>6, <2>2 DEF Jobs, Working
  <2> QED BY <1>6, <2>1, <2>2
<1> USE DEF Leave, To
<1>7. ASSUME NEW r \in Runners, Select(r) PROVE Jobs'
  <2>1. pc[r] # "idle" /\ UNCHANGED <<lock, lapsed>> BY <1>7 DEF Select
  <2>2. \E p \in Pcs : pc' = [pc EXCEPT ![r] = p] BY <1>7 DEF Select, Pcs
  <2> QED BY <1>6, <2>1, <2>2
<1>8. ASSUME NEW r \in Runners, Load(r) PROVE Jobs'
  <2>1. pc[r] # "idle" /\ UNCHANGED <<lock, lapsed>> BY <1>8 DEF Load
  <2>2. \E p \in Pcs : pc' = [pc EXCEPT ![r] = p] \/ UNCHANGED pc BY <1>8 DEF Load, Pcs
  <2> QED BY <1>6, <2>1, <2>2
<1>9. ASSUME NEW r \in Runners, Read(r) PROVE Jobs'
  <2>1. pc[r] # "idle" /\ UNCHANGED <<lock, lapsed>> BY <1>9 DEF Read
  <2>2. \E p \in Pcs : pc' = [pc EXCEPT ![r] = p] BY <1>9 DEF Read, Pcs
  <2> QED BY <1>6, <2>1, <2>2
<1>10. ASSUME NEW r \in Runners, WriteRows(r) \/ WriteMeta(r) \/ Seed(r) PROVE Jobs'
  <2>1. pc[r] # "idle" /\ UNCHANGED <<lock, lapsed>> BY <1>10 DEF WriteRows, WriteMeta, Seed
  <2>2. \E p \in Pcs : pc' = [pc EXCEPT ![r] = p] BY <1>10 DEF WriteRows, WriteMeta, Seed, Pcs
  <2> QED BY <1>6, <2>1, <2>2
<1>11. ASSUME NEW r \in Runners, Copy(r) \/ Verify(r) \/ CountRows(r) PROVE Jobs'
  <2>1. pc[r] # "idle" /\ UNCHANGED <<lock, lapsed>> BY <1>11 DEF Copy, Verify, CountRows
  <2>2. \E p \in Pcs : pc' = [pc EXCEPT ![r] = p] BY <1>11 DEF Copy, Verify, CountRows, Pcs
  <2> QED BY <1>6, <2>1, <2>2
<1>12. ASSUME NEW r \in Runners, Drop(r) \/ Mark(r) PROVE Jobs'
  <2>1. pc[r] # "idle" /\ UNCHANGED <<lock, lapsed>> BY <1>12 DEF Drop, Mark
  <2>2. \E p \in Pcs : pc' = [pc EXCEPT ![r] = p] \/ UNCHANGED pc BY <1>12 DEF Drop, Mark, Pcs
  <2> QED BY <1>6, <2>1, <2>2
<1>13. ASSUME NEW r \in Runners, Budget(r) \/ Fail(r) PROVE Jobs'
  <2>1. pc[r] # "idle" /\ UNCHANGED <<lock, lapsed>> BY <1>13 DEF Budget, Fail
  <2>2. \E p \in Pcs : pc' = [pc EXCEPT ![r] = p] BY <1>13 DEF Budget, Fail, Pcs
  <2> QED BY <1>6, <2>1, <2>2
<1>14. ASSUME UNCHANGED <<pc, lock, lapsed>> PROVE Jobs' BY <1>14 DEF Jobs, Working
<1>15. ASSUME NEW i \in Ids, Insert(i) PROVE Jobs' BY <1>14, <1>15 DEF Insert
<1>16. CASE Age \/ Day \/ Exchange \/ Reset \/ RestoreDies
  BY <1>14, <1>16 DEF Age, Day, Exchange, Reset, RestoreDies
<1>17. CASE UNCHANGED vars BY <1>14, <1>17 DEF vars
<1> HIDE DEF ghosts, oper, cold, part, Leave, To
<1> QED BY <1>1, <1>2, <1>3, <1>4, <1>5, <1>7, <1>8, <1>9, <1>10, <1>11, <1>12, <1>13,
           <1>15, <1>16, <1>17 DEF Next, Step

(* Two jobs are at work at once only when the TTL of the lock ran out      *)
(* under one of them, whatever is lost, released late or crashes           *)
(* (archive.rs:128-151).                                                   *)
THEOREM OneJobPerLockHolds == Spec => []OneJobPerLock
<1>1. Jobs => OneJobPerLock BY DEF Jobs, OneJobPerLock
<1> QED BY <1>1, JobsInit, JobsNext, PTL DEF Spec

-----------------------------------------------------------------------------
(* The chunks of a partition that nobody writes to: chunk c is always the  *)
(* same rows.                                                              *)

First(S) == {i \in S : Cardinality({j \in S : j < i}) < Batch}

(* The rows of the chunks before c.                                        *)
Depth == 2 * Cardinality(Ids) + 1
Down[c \in 0..Depth] ==
  IF c = 0 THEN {} ELSE Down[c - 1] \cup First(InitRows \ Down[c - 1])
Piece(c) == First(InitRows \ Down[c])

(* A walk whose cursor is n has passed exactly the chunks before c.        *)
At(n, c) == {i \in InitRows : i <= n} = Down[c]

LEMMA IdsFinite ==
  /\ IsFiniteSet(Ids) /\ Cardinality(Ids) \in Nat /\ Depth \in Nat
  /\ Chunks = 0..(2 * Cardinality(Ids))
  /\ \A c \in Chunks : c \in Nat /\ c \in 0..Depth /\ c + 1 \in 0..Depth
  /\ \A S \in SUBSET Ids : /\ S \in SUBSET Nat /\ IsFiniteSet(S)
                           /\ Cardinality(S) \in Nat /\ Cardinality(S) <= Cardinality(Ids)
<1>1. IsFiniteSet(Ids) /\ Ids \in SUBSET Nat BY RowsAssumption
<1>2. Cardinality(Ids) \in Nat BY <1>1, FS_CardinalityType
<1>3. ASSUME NEW S \in SUBSET Ids
      PROVE  /\ S \in SUBSET Nat /\ IsFiniteSet(S)
             /\ Cardinality(S) \in Nat /\ Cardinality(S) <= Cardinality(Ids)
  <2>1. IsFiniteSet(S) /\ Cardinality(S) <= Cardinality(Ids) BY <1>1, FS_Subset
  <2> QED BY <1>1, <2>1, FS_CardinalityType
<1>4. Depth \in Nat BY <1>2 DEF Depth
<1>5. \A c \in Chunks : c \in Nat /\ c \in 0..Depth /\ c + 1 \in 0..Depth
  BY <1>2 DEF Chunks, Depth
<1> QED BY <1>1, <1>2, <1>3, <1>4, <1>5 DEF Chunks

LEMMA DownFunction ==
  \E f : f = [c \in 0..Depth |->
                IF c = 0 THEN {} ELSE f[c - 1] \cup First(InitRows \ f[c - 1])]
<1> DEFINE Solves(f, m) == f = [c \in 0..m |->
                IF c = 0 THEN {} ELSE f[c - 1] \cup First(InitRows \ f[c - 1])]
           T == {m \in Nat : \E f : Solves(f, m)}
<1>1. 0 \in T
  <2>1. Solves([c \in 0..0 |-> {}], 0) OBVIOUS
  <2> QED BY <2>1
<1>2. ASSUME NEW m \in T PROVE m + 1 \in T
  <2>1. PICK f : Solves(f, m) OBVIOUS
  <2> DEFINE e == f[m] \cup First(InitRows \ f[m])
             g == [c \in 0..m + 1 |-> IF c = m + 1 THEN e ELSE f[c]]
  <2>2. m \in Nat OBVIOUS
  <2>3. ASSUME NEW c \in 0..m + 1
        PROVE  g[c] = IF c = 0 THEN {} ELSE g[c - 1] \cup First(InitRows \ g[c - 1])
    <3>1. CASE c \in 0..m
      <4>1. f[c] = IF c = 0 THEN {} ELSE f[c - 1] \cup First(InitRows \ f[c - 1])
        BY <2>1, <3>1
      <4>2. g[c] = f[c] BY <2>2, <3>1
      <4>3. c # 0 => g[c - 1] = f[c - 1] BY <2>2, <3>1
      <4> QED BY <4>1, <4>2, <4>3
    <3>2. CASE c = m + 1
      <4>1. c # 0 /\ c - 1 = m BY <2>2, <3>2
      <4>2. g[m] = f[m] /\ g[m + 1] = e BY <2>2
      <4> HIDE DEF g
      <4> QED BY <3>2, <4>1, <4>2
    <3> QED BY <2>2, <3>1, <3>2
  <2>4. DOMAIN g = 0..m + 1 /\ g = [c \in DOMAIN g |-> g[c]] OBVIOUS
  <2> HIDE DEF g
  <2>5. Solves(g, m + 1) BY <2>3, <2>4
  <2> HIDE DEF Solves
  <2> QED BY <2>2, <2>5
<1>3. T = Nat
  <2> HIDE DEF Solves
  <2>1. T \in SUBSET Nat OBVIOUS
  <2> HIDE DEF T
  <2> QED BY <1>1, <1>2, <2>1, SetInduction
<1>4. Depth \in T
  <2> HIDE DEF T
  <2> QED BY <1>3, IdsFinite
<1> QED BY <1>4

LEMMA DownSteps ==
  /\ Down[0] = {}
  /\ \A c \in 0..Depth : c + 1 \in 0..Depth => Down[c + 1] = Down[c] \cup Piece(c)
<1> DEFINE Solves(f) == f = [c \in 0..Depth |->
                IF c = 0 THEN {} ELSE f[c - 1] \cup First(InitRows \ f[c - 1])]
<1>1. Down = CHOOSE f : Solves(f) BY DEF Down
<1>2. \E f : Solves(f) BY DownFunction
<1>3. Solves(Down)
  <2> HIDE DEF Solves
  <2> QED BY <1>1, <1>2
<1>4. 0 \in 0..Depth BY IdsFinite
<1>5. Down[0] = {} BY <1>3, <1>4
<1>6. ASSUME NEW c \in 0..Depth, c + 1 \in 0..Depth
      PROVE  Down[c + 1] = Down[c] \cup Piece(c)
  <2>1. c + 1 # 0 /\ (c + 1) - 1 = c BY IdsFinite
  <2> QED BY <1>3, <1>6, <2>1 DEF Piece
<1> QED BY <1>5, <1>6

(* The first rows of a set are its lowest ones.                            *)
LEMMA FirstIs ==
  ASSUME NEW S \in SUBSET Ids
  PROVE  /\ First(S) \subseteq S
         /\ S # {} => First(S) # {}
         /\ \A i \in First(S), j \in S : j <= i => j \in First(S)
<1>1. First(S) \subseteq S BY DEF First
<1>2. S \in SUBSET Nat BY IdsFinite
<1>3. ASSUME S # {} PROVE First(S) # {}
  <2>1. PICK m \in S : \A y \in S : m <= y BY <1>2, <1>3, LeastIs
  <2>2. {j \in S : j < m} = {}
    <3>1. \A j \in S : j \in Nat /\ m \in Nat /\ m <= j BY <1>2, <2>1
    <3>2. \A j \in S : ~(j < m) BY <3>1
    <3> QED BY <3>2
  <2>3. Cardinality({j \in S : j < m}) < Batch BY <2>2, FS_EmptySet, BoundsAssumption
  <2>4. m \in First(S) BY <2>3 DEF First
  <2> QED BY <2>4
<1>4. ASSUME NEW i \in First(S), NEW j \in S, j <= i PROVE j \in First(S)
  <2> DEFINE U == {k \in S : k < i}
             V == {k \in S : k < j}
  <2>1. V \in SUBSET U
    <3>1. i \in Nat /\ j \in Nat /\ \A k \in S : k \in Nat BY <1>1, <1>2
    <3>2. \A k \in S : k < j => k < i BY <1>4, <3>1
    <3> QED BY <3>2
  <2>2. U \in SUBSET Ids /\ V \in SUBSET Ids OBVIOUS
  <2>3. Cardinality(U) < Batch BY DEF First
  <2> HIDE DEF U, V
  <2>4. Cardinality(V) <= Cardinality(U) BY <2>1, <2>2, IdsFinite, FS_Subset
  <2>5. Cardinality(V) < Batch BY <2>2, <2>3, <2>4, IdsFinite, BoundsAssumption
  <2> QED BY <2>5 DEF First, V
<1> QED BY <1>1, <1>3, <1>4

LEMMA DownIs ==
  \A c \in 0..Depth :
    /\ Down[c] \in SUBSET InitRows
    /\ \A i \in Down[c], j \in InitRows \ Down[c] : i < j
<1> DEFINE Good(c) == /\ Down[c] \in SUBSET InitRows
                      /\ \A i \in Down[c], j \in InitRows \ Down[c] : i < j
           T == {c \in Nat : c <= Depth => Good(c)}
<1>0. InitRows \in SUBSET Ids /\ InitRows \in SUBSET Nat /\ Depth \in Nat
  BY RowsAssumption, IdsFinite
<1>1. 0 \in T BY DownSteps
<1>2. ASSUME NEW c \in T PROVE c + 1 \in T
  <2>1. c \in Nat /\ c + 1 \in Nat OBVIOUS
  <2>2. ASSUME c + 1 <= Depth PROVE Good(c + 1)
    <3>1. c <= Depth /\ c \in 0..Depth /\ c + 1 \in 0..Depth BY <1>0, <2>1, <2>2
    <3>2. Good(c) BY <3>1
    <3> DEFINE D == Down[c]
               S == InitRows \ D
               P == First(S)
    <3>3. Down[c + 1] = D \cup P BY <3>1, DownSteps DEF Piece
    <3>4. D \in SUBSET InitRows /\ \A i \in D, j \in S : i < j BY <3>2
    <3>5. S \in SUBSET Ids /\ S \in SUBSET Nat BY <1>0
    <3> HIDE DEF D
    <3>6. P \subseteq S /\ \A i \in P, j \in S : j <= i => j \in P BY <3>5, FirstIs
    <3> HIDE DEF P
    <3>7. ASSUME NEW i \in D \cup P, NEW j \in InitRows \ (D \cup P) PROVE i < j
      <4>1. j \in S /\ j \notin P OBVIOUS
      <4>2. CASE i \in D BY <3>4, <4>1, <4>2
      <4>3. CASE i \in P
        <5>1. ~(j <= i) BY <3>6, <4>1, <4>3
        <5> QED BY <3>5, <3>6, <4>1, <4>3, <5>1
      <4> QED BY <4>2, <4>3
    <3>8. D \cup P \in SUBSET InitRows BY <3>4, <3>6
    <3> QED BY <3>3, <3>7, <3>8
  <2> HIDE DEF Good
  <2> QED BY <2>1, <2>2
<1>3. T = Nat
  <2> HIDE DEF Good
  <2>1. T \in SUBSET Nat OBVIOUS
  <2> HIDE DEF T
  <2> QED BY <1>1, <1>2, <2>1, SetInduction
<1>4. ASSUME NEW c \in 0..Depth PROVE Good(c)
  <2> HIDE DEF Good
  <2>1. c \in Nat /\ c <= Depth BY <1>0
  <2> QED BY <1>3, <2>1
<1> QED BY <1>4

LEMMA PieceIs ==
  ASSUME NEW c \in Chunks
  PROVE  /\ c \in Nat /\ Down[c] \in SUBSET InitRows /\ Piece(c) \in SUBSET InitRows
         /\ Down[c + 1] = Down[c] \cup Piece(c)
         /\ Piece(c) = {} => InitRows = Down[c]
         /\ Piece(c) # {} => Max(Piece(c)) \in Nat /\ At(Max(Piece(c)), c + 1)
<1> DEFINE D == Down[c]
           S == InitRows \ D
           P == Piece(c)
<1>1. c \in Nat /\ c \in 0..Depth /\ c + 1 \in 0..Depth BY IdsFinite
<1>2. Down[c + 1] = D \cup P BY <1>1, DownSteps
<1>3. D \in SUBSET InitRows /\ \A i \in D, j \in S : i < j BY <1>1, DownIs
<1>4. S \in SUBSET Ids /\ InitRows \in SUBSET Ids /\ InitRows \in SUBSET Nat
  BY RowsAssumption, IdsFinite
<1>5. P = First(S) BY DEF Piece
<1> HIDE DEF D, P
<1>6. /\ P \subseteq S
      /\ S # {} => P # {}
      /\ \A i \in P, j \in S : j <= i => j \in P
  BY <1>4, <1>5, FirstIs
<1>7. P = {} => InitRows = D BY <1>3, <1>6
<1>8. ASSUME P # {} PROVE Max(P) \in Nat /\ At(Max(P), c + 1)
  <2>1. P \in SUBSET Nat /\ IsFiniteSet(P) BY <1>4, <1>6, IdsFinite
  <2>2. Max(P) \in P /\ \A y \in P : y <= Max(P) BY <1>8, <2>1, MaxIs
  <2> DEFINE m == Max(P)
  <2> HIDE DEF m
  <2>3. m \in P /\ m \in S /\ m \in Nat /\ \A y \in P : y <= m BY <1>6, <2>1, <2>2 DEF m
  <2>4. ASSUME NEW i \in InitRows, i <= m PROVE i \in D \cup P BY <1>6, <2>3, <2>4
  <2>5. ASSUME NEW i \in D \cup P PROVE i \in InitRows /\ i <= m
    <3>1. CASE i \in D
      <4>1. i < m /\ i \in InitRows BY <1>3, <2>3, <3>1
      <4> QED BY <1>4, <2>3, <4>1
    <3>2. CASE i \in P BY <1>6, <2>3, <3>2
    <3> QED BY <3>1, <3>2
  <2>6. {i \in InitRows : i <= m} = D \cup P BY <2>4, <2>5
  <2> QED BY <1>2, <2>3, <2>6 DEF At, m
<1> QED BY <1>1, <1>2, <1>3, <1>4, <1>6, <1>7, <1>8 DEF D, P

(* There is a chunk number for every chunk.                                *)
LEMMA ChunkBound ==
  ASSUME NEW c \in Chunks, c <= Cardinality(Down[c]), Piece(c) # {}
  PROVE  c + 1 \in Chunks /\ c + 1 <= Cardinality(Down[c + 1])
<1> DEFINE D == Down[c]
           E == Down[c + 1]
<1>1. /\ c \in Nat /\ D \in SUBSET InitRows /\ Piece(c) \in SUBSET InitRows
      /\ E = D \cup Piece(c)
  BY PieceIs
<1>2. PICK i : i \in Piece(c) OBVIOUS
<1>3. i \notin D
  <2>1. InitRows \ D \in SUBSET Ids BY RowsAssumption
  <2> QED BY <1>2, <2>1, FirstIs DEF Piece
<1>4. D \in SUBSET Ids /\ E \in SUBSET Ids BY <1>1, RowsAssumption
<1> HIDE DEF D, E
<1>5. D \cup {i} \in SUBSET E BY <1>1, <1>2
<1>6. /\ IsFiniteSet(D) /\ IsFiniteSet(E) /\ Cardinality(D) \in Nat /\ Cardinality(E) \in Nat
      /\ Cardinality(E) <= Cardinality(Ids) /\ Cardinality(Ids) \in Nat
  BY <1>4, IdsFinite
<1>7. Cardinality(D \cup {i}) = Cardinality(D) + 1 BY <1>3, <1>6, FS_AddElement
<1>8. Cardinality(D \cup {i}) <= Cardinality(E) BY <1>5, <1>6, FS_Subset
<1>9. c <= Cardinality(D) BY DEF D
<1>10. c + 1 <= Cardinality(E) BY <1>1, <1>6, <1>7, <1>8, <1>9
<1>11. c + 1 \in Chunks BY <1>1, <1>6, <1>10 DEF Chunks
<1> QED BY <1>10, <1>11 DEF E

-----------------------------------------------------------------------------
(* A partition that nobody writes to. The rows of a chunk are in the cold  *)
(* tier before the chunk has a state row, and so are all the rows that a   *)
(* walk has passed.                                                        *)

QRow == [phase : Phases, high : Nat, rows : Nat, sum : SUBSET InitRows, age : Nat]
QLocal == [chunk : Chunks, cursor : Nat, allVerified : BOOLEAN, copiedAny : BOOLEAN,
           archived : Nat, age : Nat, rows : SUBSET InitRows, seed : BOOLEAN, mark : Nat]

RowOK(s, c, A) ==
  s.phase # "none" =>
    Piece(c) # {} /\ Piece(c) \subseteq A /\ s.sum = Piece(c) /\ At(s.high, c + 1)

Filled == {"data", "meta", "seed", "copied", "verify"}
Written == {"meta", "seed", "copied", "verify"}

JobOK(p, l, A) ==
  /\ l.chunk <= Cardinality(Down[l.chunk]) /\ Down[l.chunk] \subseteq A
  /\ At(l.cursor, IF p = "verify" THEN l.chunk + 1 ELSE l.chunk)
  /\ p \in Filled => l.rows = Piece(l.chunk) /\ l.rows # {}
  /\ p \in Written => Piece(l.chunk) \subseteq A
  /\ p \in {"count", "drop"} => InitRows \subseteq A

QTypes ==
  /\ st \in [Chunks -> QRow] /\ loc \in [Runners -> QLocal]
  /\ objects \in [Chunks -> SUBSET InitRows] /\ table \subseteq InitRows
  /\ meta \in [Chunks -> SUBSET InitRows]

QParts ==
  /\ hot = IF exists THEN InitRows ELSE {}
  /\ ~exists => InitRows \subseteq Archived
  /\ conf.sink = "clickhouse" => \A c \in Chunks : objects[c] = {}
  /\ \A c \in Chunks : objects[c] \in {{}, Piece(c)}
  /\ \A c \in Chunks : RowOK(st[c], c, Archived)
  /\ \A r \in Runners : JobOK(pc[r], loc[r], Archived)

LEMMA OKGrows ==
  ASSUME NEW A, NEW B, A \subseteq B
  PROVE  /\ \A s, c : RowOK(s, c, A) => RowOK(s, c, B)
         /\ \A p, l : JobOK(p, l, A) => JobOK(p, l, B)
BY DEF RowOK, JobOK

LEMMA LocalFields ==
  ASSUME NEW l \in QLocal
  PROVE  /\ l.chunk \in Chunks /\ l.cursor \in Nat /\ l.archived \in Nat /\ l.age \in Nat
         /\ l.rows \in SUBSET InitRows /\ l.mark \in Nat
         /\ l.allVerified \in BOOLEAN /\ l.copiedAny \in BOOLEAN /\ l.seed \in BOOLEAN
BY DEF QLocal

LEMMA StateFields ==
  ASSUME NEW s \in QRow
  PROVE  /\ s.phase \in Phases /\ s.high \in Nat /\ s.rows \in Nat
         /\ s.sum \in SUBSET InitRows /\ s.age \in Nat
BY DEF QRow

LEMMA StartIs ==
  /\ Start \in QLocal
  /\ \A p \in Pcs \ (Filled \cup {"count", "drop"}) : \A A : JobOK(p, Start, A)
<1>1. 0 \in Chunks BY IdsFinite
<1>2. Start \in QLocal /\ Start.chunk = 0 /\ Start.cursor = 0
  BY <1>1, BoundsAssumption DEF Start, QLocal
<1>3. Down[0] = {} /\ Cardinality({}) = 0 BY DownSteps, FS_EmptySet
<1>4. At(0, 0)
  <2>1. \A i \in InitRows : i \in Nat /\ i # 0 BY RowsAssumption
  <2>2. \A i \in InitRows : ~(i <= 0) BY <2>1
  <2> QED BY <1>3, <2>2 DEF At
<1>5. ASSUME NEW p \in Pcs \ (Filled \cup {"count", "drop"}), NEW A PROVE JobOK(p, Start, A)
  <2>1. p # "verify" /\ p \notin Filled /\ p \notin Written /\ p \notin {"count", "drop"}
    BY DEF Filled, Written
  <2>2. 0 <= 0 OBVIOUS
  <2> QED BY <1>2, <1>3, <1>4, <2>1, <2>2 DEF JobOK
<1> QED BY <1>2, <1>5

(* A job steps, the cold tier and the partition stay.                      *)
LEMMA QuietJob ==
  ASSUME pc \in [Runners -> Pcs], QTypes, QParts, NEW r \in Runners, NEW p, NEW l \in QLocal,
         pc' = [pc EXCEPT ![r] = p], loc' = [loc EXCEPT ![r] = l], JobOK(p, l, Archived),
         UNCHANGED <<conf, exists, hot, objects, table, meta>>,
         st' \in [Chunks -> QRow], \A c \in Chunks : RowOK(st'[c], c, Archived)
  PROVE  QTypes' /\ QParts'
<1>1. Archived' = Archived BY DEF Archived
<1>2. loc' \in [Runners -> QLocal] BY DEF QTypes
<1>3. QTypes' BY <1>2 DEF QTypes
<1>4. \A q \in Runners : JobOK(pc'[q], loc'[q], Archived) BY DEF QParts, QTypes
<1>5. QParts' BY <1>1, <1>4 DEF QParts
<1> QED BY <1>3, <1>5

(* ... and the state rows too.                                             *)
LEMMA QuietMove ==
  ASSUME pc \in [Runners -> Pcs], QTypes, QParts, NEW r \in Runners, NEW p, NEW l \in QLocal,
         pc' = [pc EXCEPT ![r] = p], loc' = [loc EXCEPT ![r] = l], JobOK(p, l, Archived),
         UNCHANGED <<conf, exists, hot, objects, table, meta, st>>
  PROVE  QTypes' /\ QParts'
<1>1. st' \in [Chunks -> QRow] /\ \A c \in Chunks : RowOK(st'[c], c, Archived)
  BY DEF QTypes, QParts
<1> QED BY <1>1, QuietJob

(* Nothing moves but the clocks and what the runs above do not look at.    *)
LEMMA QuietLeave ==
  ASSUME pc \in [Runners -> Pcs], QTypes, QParts, NEW r \in Runners,
         NEW p \in {"release", "idle"},
         pc' = [pc EXCEPT ![r] = p], loc' = [loc EXCEPT ![r] = Start],
         UNCHANGED <<conf, exists, hot, objects, table, meta, st>>
  PROVE  QTypes' /\ QParts'
<1>1. p \in Pcs \ (Filled \cup {"count", "drop"}) BY DEF Pcs, Filled
<1>2. JobOK(p, Start, Archived) /\ Start \in QLocal BY <1>1, StartIs
<1> QED BY <1>2, QuietMove

(* The walk goes past chunk c.                                             *)
LEMMA NextChunkIs ==
  ASSUME NEW l \in QLocal, NEW A, l.chunk <= Cardinality(Down[l.chunk]),
         Down[l.chunk] \subseteq A, Piece(l.chunk) # {}, Piece(l.chunk) \subseteq A,
         At(l.cursor, l.chunk + 1)
  PROVE  NextChunk(l) \in QLocal /\ JobOK("load", NextChunk(l), A)
<1> DEFINE c == l.chunk
           n == NextChunk(l)
<1>1. c \in Chunks BY LocalFields
<1>2. c + 1 \in Chunks /\ c + 1 <= Cardinality(Down[c + 1]) BY <1>1, ChunkBound
<1>3. Down[c + 1] = Down[c] \cup Piece(c) BY <1>1, PieceIs
<1>4. n \in QLocal /\ n.chunk = c + 1 /\ n.cursor = l.cursor BY <1>2 DEF NextChunk, QLocal
<1>5. "load" \notin Filled /\ "load" \notin Written /\ "load" \notin {"count", "drop"}
      /\ "load" # "verify"
  BY DEF Filled, Written
<1> HIDE DEF n
<1>6. JobOK("load", n, A) BY <1>2, <1>3, <1>4, <1>5 DEF JobOK
<1> QED BY <1>4, <1>6 DEF n

LEMMA CountIs ==
  ASSUME NEW l \in QLocal, NEW s \in QRow
  PROVE  /\ Count(l, s) \in QLocal /\ Count(l, s).chunk = l.chunk
         /\ Count(l, s).cursor = s.high
<1>1. l.archived + s.rows \in Nat BY LocalFields, StateFields
<1>2. s.high \in Nat BY StateFields
<1> QED BY <1>1, <1>2 DEF Count, QLocal

LEMMA AgeIs ==
  ASSUME NEW l \in QLocal, NEW s \in QRow PROVE VerifiedAge(l, s) \in Nat
<1>1. {l.age, s.age} \in SUBSET Nat /\ {l.age, s.age} # {} BY LocalFields, StateFields
<1>2. Min({l.age, s.age}) \in {l.age, s.age} BY <1>1, MinIs
<1> QED BY <1>1, <1>2 DEF VerifiedAge

LEMMA QuietLoad ==
  ASSUME pc \in [Runners -> Pcs], QTypes, QParts, ~conf.dryRun, NEW r \in Runners, Load(r)
  PROVE  QTypes' /\ QParts'
<1> DEFINE l == loc[r]
           c == l.chunk
           s == st[c]
<1>1. pc[r] = "load" /\ UNCHANGED <<conf, exists, hot, objects, table, meta, st>>
  BY DEF Load, part, cold
<1>2. l \in QLocal BY DEF QTypes
<1>3. c \in Chunks BY <1>2, LocalFields
<1>4. s \in QRow /\ RowOK(s, c, Archived) BY <1>3 DEF QTypes, QParts
<1>5. /\ c <= Cardinality(Down[c]) /\ Down[c] \subseteq Archived /\ At(l.cursor, c)
  BY <1>1 DEF QParts, JobOK
<1>6. UNCHANGED pc => pc' = [pc EXCEPT ![r] = "load"] BY <1>1
<1>7. CASE s.phase = "dropped" /\ Leave(r)
  BY <1>1, <1>7, QuietLeave DEF Leave, To, Set
<1>8. CASE /\ s.phase = "verified"
           /\ Set(r, NextChunk([Count(l, s) EXCEPT !.age = VerifiedAge(l, s)]))
           /\ UNCHANGED pc
  <2> DEFINE m == [Count(l, s) EXCEPT !.age = VerifiedAge(l, s)]
  <2>1. m \in QLocal /\ m.chunk = c /\ m.cursor = s.high
    BY <1>2, <1>4, CountIs, AgeIs DEF QLocal
  <2>2. Piece(c) # {} /\ Piece(c) \subseteq Archived /\ At(s.high, c + 1)
    BY <1>4, <1>8 DEF RowOK
  <2> HIDE DEF m
  <2>3. NextChunk(m) \in QLocal /\ JobOK("load", NextChunk(m), Archived)
    BY <1>5, <2>1, <2>2, NextChunkIs
  <2>4. loc' = [loc EXCEPT ![r] = NextChunk(m)] BY <1>8 DEF Set, m
  <2> QED BY <1>1, <1>6, <1>8, <2>3, <2>4, QuietMove
<1>9. CASE /\ s.phase = "copied"
           /\ Set(r, [Count(l, s) EXCEPT !.rows = s.sum]) /\ To(r, "verify")
  <2> DEFINE m == [Count(l, s) EXCEPT !.rows = s.sum]
  <2>1. m \in QLocal /\ m.chunk = c /\ m.cursor = s.high /\ m.rows = s.sum
    BY <1>2, <1>4, CountIs, StateFields DEF QLocal
  <2>2. Piece(c) # {} /\ Piece(c) \subseteq Archived /\ s.sum = Piece(c) /\ At(s.high, c + 1)
    BY <1>4, <1>9 DEF RowOK
  <2> HIDE DEF m, c, s
  <2>3. JobOK("verify", m, Archived) BY <1>5, <2>1, <2>2 DEF JobOK
  <2>4. loc' = [loc EXCEPT ![r] = m] /\ pc' = [pc EXCEPT ![r] = "verify"]
    BY <1>9 DEF Set, To, m
  <2> QED BY <1>1, <2>1, <2>3, <2>4, QuietMove
<1>10. CASE /\ s.phase \in {"none", "pending"}
            /\ Set(r, [l EXCEPT !.seed = (s.phase = "none")]) /\ To(r, "read")
  <2> DEFINE m == [l EXCEPT !.seed = (s.phase = "none")]
  <2>1. m \in QLocal /\ m.chunk = c /\ m.cursor = l.cursor BY <1>2 DEF QLocal
  <2>2. loc' = [loc EXCEPT ![r] = m] /\ pc' = [pc EXCEPT ![r] = "read"]
    BY <1>10 DEF Set, To
  <2> HIDE DEF m
  <2>3. JobOK("read", m, Archived) BY <1>5, <2>1 DEF JobOK, Filled, Written
  <2> QED BY <1>1, <2>1, <2>2, <2>3, QuietMove
<1> QED BY <1>7, <1>8, <1>9, <1>10 DEF Load

LEMMA QuietRead ==
  ASSUME pc \in [Runners -> Pcs], QTypes, QParts, ~conf.dryRun, ~conf.filter,
         NEW r \in Runners, Read(r)
  PROVE  QTypes' /\ QParts'
<1> DEFINE l == loc[r]
           c == l.chunk
           rows == ReadChunk(l.cursor)
<1>1. pc[r] = "read" /\ UNCHANGED <<conf, exists, hot, objects, table, meta, st>>
  BY DEF Read, part, cold
<1>2. l \in QLocal BY DEF QTypes
<1>3. c \in Chunks /\ l.cursor \in Nat BY <1>2, LocalFields
<1>4. /\ c <= Cardinality(Down[c]) /\ Down[c] \subseteq Archived /\ At(l.cursor, c)
  BY <1>1 DEF QParts, JobOK
<1>5. ASSUME exists PROVE rows = Piece(c)
  <2> DEFINE after == {i \in hot : i > l.cursor /\ (conf.filter => i \in Matching)}
  <2>1. hot = InitRows BY <1>5 DEF QParts
  <2>2. \A i \in InitRows : i \in Nat BY RowsAssumption
  <2>3. \A i \in InitRows : i > l.cursor <=> ~(i <= l.cursor) BY <1>3, <2>2
  <2>4. after = InitRows \ {i \in InitRows : i <= l.cursor} BY <2>1, <2>3
  <2>5. after = InitRows \ Down[c] BY <1>4, <2>4 DEF At
  <2>6. rows = {i \in after : Cardinality({j \in after : j < i}) < Batch} BY DEF ReadChunk
  <2> HIDE DEF after, rows
  <2> QED BY <2>5, <2>6 DEF Piece, First
<1> HIDE DEF rows
<1>6. CASE ~exists /\ Leave(r) BY <1>1, <1>6, QuietLeave DEF Leave, To, Set
<1>7. CASE exists /\ rows = {} /\ To(r, "count") /\ UNCHANGED loc
  <2>1. InitRows \subseteq Archived BY <1>3, <1>4, <1>5, <1>7, PieceIs
  <2>2. JobOK("count", l, Archived) BY <1>4, <2>1 DEF JobOK, Filled, Written
  <2>3. loc' = [loc EXCEPT ![r] = l] BY <1>7 DEF QTypes
  <2> QED BY <1>1, <1>2, <1>7, <2>2, <2>3, QuietMove DEF To
<1>8. CASE exists /\ rows # {} /\ Set(r, [l EXCEPT !.rows = rows]) /\ To(r, "data")
  <2> DEFINE m == [l EXCEPT !.rows = rows]
  <2>1. rows = Piece(c) /\ rows \in SUBSET InitRows BY <1>3, <1>5, <1>8, PieceIs
  <2>2. m \in QLocal /\ m.chunk = c /\ m.cursor = l.cursor /\ m.rows = rows
    BY <1>2, <2>1 DEF QLocal
  <2>3. loc' = [loc EXCEPT ![r] = m] /\ pc' = [pc EXCEPT ![r] = "data"] BY <1>8 DEF Set, To
  <2> HIDE DEF m
  <2>4. JobOK("data", m, Archived) BY <1>4, <1>8, <2>1, <2>2 DEF JobOK, Filled, Written
  <2> QED BY <1>1, <2>2, <2>3, <2>4, QuietMove
<1> QED BY <1>6, <1>7, <1>8 DEF Read, rows

(* The data half of write_chunk puts the rows of the chunk into the cold   *)
(* tier, or finds them there.                                              *)
LEMMA QuietWriteRows ==
  ASSUME pc \in [Runners -> Pcs], QTypes, QParts, NEW r \in Runners, WriteRows(r)
  PROVE  QTypes' /\ QParts'
<1> DEFINE l == loc[r]
           c == l.chunk
<1>1. /\ pc[r] = "data" /\ pc' = [pc EXCEPT ![r] = "meta"]
      /\ UNCHANGED <<conf, exists, hot, meta, st, loc>>
      /\ S3Write(c, l.rows) \/ ClickhouseWrite(c, l.rows)
  BY DEF WriteRows, To, part
<1>2. l \in QLocal BY DEF QTypes
<1>3. c \in Chunks BY <1>2, LocalFields
<1>4. JobOK("data", l, Archived) /\ l.rows = Piece(c) BY <1>1 DEF QParts, JobOK, Filled
<1>5. Piece(c) \in SUBSET InitRows BY <1>3, PieceIs
<1>6. /\ objects \in [Chunks -> SUBSET InitRows] /\ table \subseteq InitRows
      /\ \A d \in Chunks : objects[d] \in {{}, Piece(d)}
  BY DEF QTypes, QParts
<1>7. /\ objects' \in [Chunks -> SUBSET InitRows] /\ table' \subseteq InitRows
      /\ Archived \subseteq Archived' /\ Piece(c) \subseteq Archived'
      /\ conf.sink = "clickhouse" => \A d \in Chunks : objects'[d] = {}
      /\ \A d \in Chunks : objects'[d] \in {{}, Piece(d)}
  <2>1. CASE S3Write(c, l.rows)
    <3>1. /\ table' = table /\ conf.sink # "clickhouse"
          /\ objects' = IF objects[c] = {} THEN [objects EXCEPT ![c] = Piece(c)] ELSE objects
      BY <1>4, <2>1 DEF S3Write
    <3>2. /\ objects' \in [Chunks -> SUBSET InitRows] /\ objects'[c] = Piece(c)
          /\ \A d \in Chunks : objects[d] \subseteq objects'[d] /\ objects'[d] \in {{}, Piece(d)}
      BY <1>3, <1>5, <1>6, <3>1
    <3>3. Archived \subseteq Archived' /\ Piece(c) \subseteq Archived'
      BY <1>3, <3>1, <3>2 DEF Archived
    <3> QED BY <1>6, <3>1, <3>2, <3>3
  <2>2. CASE ClickhouseWrite(c, l.rows)
    <3>1. table' = table \cup Piece(c) /\ objects' = objects
      BY <1>4, <2>2 DEF ClickhouseWrite, ClickhouseInsert
    <3>2. Archived \subseteq Archived' /\ Piece(c) \subseteq Archived' BY <3>1 DEF Archived
    <3>3. conf.sink = "clickhouse" => \A d \in Chunks : objects'[d] = {} BY <3>1 DEF QParts
    <3> QED BY <1>5, <1>6, <3>1, <3>2, <3>3
  <2> QED BY <1>1, <2>1, <2>2
<1>8. /\ \A d \in Chunks : RowOK(st[d], d, Archived')
      /\ \A q \in Runners : JobOK(pc[q], loc[q], Archived')
  BY <1>7, OKGrows DEF QParts
<1>9. JobOK("meta", l, Archived')
  <2>1. JobOK("data", l, Archived') BY <1>4, <1>7, OKGrows
  <2> QED BY <1>7, <2>1 DEF JobOK, Filled, Written
<1>10. \A q \in Runners : JobOK(pc'[q], loc[q], Archived') BY <1>1, <1>8, <1>9
<1>11. QTypes' BY <1>1, <1>7 DEF QTypes
<1>12. ~exists => InitRows \subseteq Archived' BY <1>7 DEF QParts
<1>13. hot = IF exists THEN InitRows ELSE {} BY DEF QParts
<1>14. QParts' BY <1>1, <1>7, <1>8, <1>10, <1>12, <1>13 DEF QParts
<1> QED BY <1>11, <1>14

LEMMA QuietWriteMeta ==
  ASSUME pc \in [Runners -> Pcs], QTypes, QParts, NEW r \in Runners, WriteMeta(r)
  PROVE  QTypes' /\ QParts'
<1> DEFINE l == loc[r]
           p == IF l.seed THEN "seed" ELSE "copied"
<1>1. /\ pc[r] = "meta" /\ pc' = [pc EXCEPT ![r] = p]
      /\ meta' = [meta EXCEPT ![l.chunk] = l.rows]
      /\ UNCHANGED <<conf, exists, hot, objects, table, st, loc>>
  BY DEF WriteMeta, To, part
<1>2. l \in QLocal /\ l.rows \in SUBSET InitRows BY LocalFields DEF QTypes
<1>3. JobOK("meta", l, Archived) BY <1>1 DEF QParts
<1>4. JobOK(p, l, Archived) BY <1>3 DEF JobOK, Filled, Written
<1>5. Archived' = Archived BY <1>1 DEF Archived
<1>6. meta' \in [Chunks -> SUBSET InitRows] BY <1>1, <1>2 DEF QTypes
<1>7. QTypes' BY <1>1, <1>6 DEF QTypes
<1>8. \A q \in Runners : JobOK(pc'[q], loc[q], Archived) BY <1>1, <1>4 DEF QParts
<1>9. QParts' BY <1>1, <1>5, <1>8 DEF QParts
<1> QED BY <1>7, <1>9

(* A state row of the chunk is written; the job is written to p and l.     *)
LEMMA QuietRow ==
  ASSUME pc \in [Runners -> Pcs], QTypes, QParts, NEW r \in Runners, NEW p, NEW l \in QLocal,
         pc' = [pc EXCEPT ![r] = p], loc' = [loc EXCEPT ![r] = l], JobOK(p, l, Archived),
         UNCHANGED <<conf, exists, hot, objects, table, meta>>,
         NEW c, NEW s \in QRow, RowOK(s, c, Archived), st' = [st EXCEPT ![c] = s]
  PROVE  QTypes' /\ QParts'
<1>1. st' \in [Chunks -> QRow] /\ \A d \in Chunks : RowOK(st'[d], d, Archived)
  BY DEF QTypes, QParts
<1> QED BY <1>1, QuietJob

LEMMA QuietSeed ==
  ASSUME pc \in [Runners -> Pcs], QTypes, QParts, NEW r \in Runners, Seed(r)
  PROVE  QTypes' /\ QParts'
<1> DEFINE l == loc[r]
           c == l.chunk
           s == [phase |-> "pending", high |-> Max(l.rows), rows |-> Cardinality(l.rows),
                 sum |-> l.rows, age |-> 0]
<1>1. /\ pc[r] = "seed" /\ pc' = [pc EXCEPT ![r] = "copied"] /\ st' = [st EXCEPT ![c] = s]
      /\ UNCHANGED <<conf, exists, hot, objects, table, meta, loc>>
  BY DEF Seed, To, part, cold
<1>2. l \in QLocal BY DEF QTypes
<1>3. c \in Chunks /\ l.rows \in SUBSET InitRows BY <1>2, LocalFields
<1>4. JobOK("seed", l, Archived) BY <1>1 DEF QParts
<1>5. l.rows = Piece(c) /\ Piece(c) # {} /\ Piece(c) \subseteq Archived
  BY <1>4 DEF JobOK, Filled, Written
<1>6. Max(l.rows) \in Nat /\ At(Max(l.rows), c + 1) BY <1>3, <1>5, PieceIs
<1>7. Cardinality(l.rows) \in Nat BY <1>3, IdsFinite, RowsAssumption
<1>8. s \in QRow /\ s.sum = l.rows /\ s.high = Max(l.rows)
  BY <1>3, <1>6, <1>7 DEF QRow, Phases
<1> HIDE DEF s
<1>9. RowOK(s, c, Archived) BY <1>5, <1>6, <1>8 DEF RowOK
<1>10. JobOK("copied", l, Archived) BY <1>4 DEF JobOK, Filled, Written
<1>11. loc' = [loc EXCEPT ![r] = l] BY <1>1 DEF QTypes
<1> QED BY <1>1, <1>2, <1>8, <1>9, <1>10, <1>11, QuietRow

(* A state row that is advanced.                                           *)
LEMMA AdvancedIs ==
  ASSUME NEW c \in Chunks, st[c] \in QRow, RowOK(st[c], c, Archived), st[c].phase # "none",
         NEW p \in {"copied", "verified", "dropped"}
  PROVE  /\ Advanced(c, p) \in QRow /\ RowOK(Advanced(c, p), c, Archived)
         /\ [Advanced(c, p) EXCEPT !.sum = Piece(c)] \in QRow
         /\ RowOK([Advanced(c, p) EXCEPT !.sum = Piece(c)], c, Archived)
<1> DEFINE s == st[c]
           a == Advanced(c, p)
           b == [a EXCEPT !.sum = Piece(c)]
<1>1. a \in QRow /\ a.sum = s.sum /\ a.high = s.high BY DEF Advanced, QRow, Phases
<1>2. Piece(c) # {} /\ Piece(c) \subseteq Archived /\ s.sum = Piece(c) /\ At(s.high, c + 1)
  BY DEF RowOK
<1>3. Piece(c) \in SUBSET InitRows BY PieceIs
<1> HIDE DEF a
<1>4. b \in QRow /\ b.sum = Piece(c) /\ b.high = s.high BY <1>1, <1>3 DEF QRow
<1> HIDE DEF b
<1>5. RowOK(a, c, Archived) /\ RowOK(b, c, Archived) BY <1>1, <1>2, <1>4 DEF RowOK
<1> QED BY <1>1, <1>4, <1>5 DEF a, b

LEMMA QuietCopy ==
  ASSUME pc \in [Runners -> Pcs], QTypes, QParts, NEW r \in Runners, Copy(r)
  PROVE  QTypes' /\ QParts'
<1> DEFINE l == loc[r]
           c == l.chunk
           m == [l EXCEPT !.archived = @ + Cardinality(l.rows), !.copiedAny = TRUE,
                          !.cursor = Max(l.rows)]
           s == [Advanced(c, "copied") EXCEPT !.sum = l.rows]
<1>1. pc[r] = "copied" /\ UNCHANGED <<conf, exists, hot, objects, table, meta>>
  BY DEF Copy, part, cold
<1>2. l \in QLocal BY DEF QTypes
<1>3. c \in Chunks /\ l.rows \in SUBSET InitRows /\ l.archived \in Nat BY <1>2, LocalFields
<1>4. JobOK("copied", l, Archived) BY <1>1 DEF QParts
<1>5. l.rows = Piece(c) /\ Piece(c) # {} /\ Piece(c) \subseteq Archived
  BY <1>4 DEF JobOK, Filled, Written
<1>6. Max(l.rows) \in Nat /\ At(Max(l.rows), c + 1) BY <1>3, <1>5, PieceIs
<1>7. Cardinality(l.rows) \in Nat BY <1>3, IdsFinite, RowsAssumption
<1>8. CASE ~CanAdvance(c, "copied") /\ Leave(r) /\ UNCHANGED st
  BY <1>1, <1>8, QuietLeave DEF Leave, To, Set
<1>9. CASE /\ CanAdvance(c, "copied") /\ st' = [st EXCEPT ![c] = s]
           /\ Set(r, m) /\ To(r, "verify")
  <2>1. l.archived + Cardinality(l.rows) \in Nat BY <1>3, <1>7
  <2>2. m \in QLocal /\ m.chunk = c /\ m.rows = l.rows /\ m.cursor = Max(l.rows)
    BY <1>2, <1>6, <2>1 DEF QLocal
  <2>3. loc' = [loc EXCEPT ![r] = m] /\ pc' = [pc EXCEPT ![r] = "verify"] BY <1>9 DEF Set, To
  <2> HIDE DEF m
  <2>4. JobOK("verify", m, Archived) BY <1>4, <1>5, <1>6, <2>2 DEF JobOK
  <2>5. st[c] \in QRow /\ RowOK(st[c], c, Archived) BY <1>3 DEF QTypes, QParts
  <2>6. st[c].phase = "pending" BY <1>9 DEF CanAdvance, Predecessor
  <2>7. s \in QRow /\ RowOK(s, c, Archived) BY <1>3, <1>5, <2>5, <2>6, AdvancedIs
  <2> HIDE DEF s
  <2> QED BY <1>1, <1>9, <2>2, <2>3, <2>4, <2>7, QuietRow
<1> QED BY <1>8, <1>9 DEF Copy

LEMMA QuietVerify ==
  ASSUME pc \in [Runners -> Pcs], QTypes, QParts, NEW r \in Runners, Verify(r)
  PROVE  QTypes' /\ QParts'
<1> DEFINE l == loc[r]
           c == l.chunk
           m == [l EXCEPT !.age = 0]
           k == [l EXCEPT !.allVerified = FALSE]
<1>1. pc[r] = "verify" /\ UNCHANGED <<conf, exists, hot, objects, table, meta>>
  BY DEF Verify, part, cold
<1>2. l \in QLocal BY DEF QTypes
<1>3. c \in Chunks BY <1>2, LocalFields
<1>4. JobOK("verify", l, Archived) BY <1>1 DEF QParts
<1>5. /\ Piece(c) # {} /\ Piece(c) \subseteq Archived /\ At(l.cursor, c + 1)
      /\ c <= Cardinality(Down[c]) /\ Down[c] \subseteq Archived
  BY <1>4 DEF JobOK, Filled, Written
<1>6. /\ m \in QLocal /\ m.chunk = c /\ m.cursor = l.cursor
      /\ k \in QLocal /\ k.chunk = c /\ k.cursor = l.cursor
  BY <1>2 DEF QLocal
<1> HIDE DEF m, k
<1>7. /\ NextChunk(m) \in QLocal /\ JobOK("load", NextChunk(m), Archived)
      /\ NextChunk(k) \in QLocal /\ JobOK("load", NextChunk(k), Archived)
  BY <1>5, <1>6, NextChunkIs
<1>8. CASE ~CanAdvance(c, "verified") /\ Leave(r) /\ UNCHANGED st
  BY <1>1, <1>8, QuietLeave DEF Leave, To, Set
<1>9. CASE Set(r, NextChunk(k)) /\ To(r, "load") /\ UNCHANGED st
  BY <1>1, <1>7, <1>9, QuietMove DEF Set, To
<1>10. CASE /\ CanAdvance(c, "verified") /\ st' = [st EXCEPT ![c] = Advanced(c, "verified")]
            /\ Set(r, NextChunk(m)) /\ To(r, "load")
  <2>1. st[c] \in QRow /\ RowOK(st[c], c, Archived) BY <1>3 DEF QTypes, QParts
  <2>2. st[c].phase = "copied" BY <1>10 DEF CanAdvance, Predecessor
  <2>3. Advanced(c, "verified") \in QRow /\ RowOK(Advanced(c, "verified"), c, Archived)
    BY <1>3, <2>1, <2>2, AdvancedIs
  <2> QED BY <1>1, <1>7, <1>10, <2>3, QuietRow DEF Set, To
<1> QED BY <1>8, <1>9, <1>10 DEF Verify, m, k

LEMMA QuietCountRows ==
  ASSUME pc \in [Runners -> Pcs], QTypes, QParts, NEW r \in Runners, CountRows(r)
  PROVE  QTypes' /\ QParts'
<1> DEFINE l == loc[r]
           m == [l EXCEPT !.rows = hot]
<1>1. pc[r] = "count" /\ UNCHANGED <<conf, exists, hot, objects, table, meta, st>>
  BY DEF CountRows, part, cold
<1>2. l \in QLocal /\ JobOK("count", l, Archived) BY <1>1 DEF QTypes, QParts
<1>3. CASE Leave(r) BY <1>1, <1>3, QuietLeave DEF Leave, To, Set
<1>4. CASE To(r, "drop") /\ Set(r, m)
  <2>1. hot \in SUBSET InitRows BY DEF QParts
  <2>2. m \in QLocal /\ m.chunk = l.chunk /\ m.cursor = l.cursor BY <1>2, <2>1 DEF QLocal
  <2>3. loc' = [loc EXCEPT ![r] = m] /\ pc' = [pc EXCEPT ![r] = "drop"] BY <1>4 DEF Set, To
  <2> HIDE DEF m
  <2>4. JobOK("drop", m, Archived) BY <1>2, <2>2 DEF JobOK, Filled, Written
  <2> QED BY <1>1, <2>2, <2>3, <2>4, QuietMove
<1> QED BY <1>3, <1>4 DEF CountRows

(* DROP PARTITION: every row is in the cold tier by now.                   *)
LEMMA QuietDrop ==
  ASSUME pc \in [Runners -> Pcs], QTypes, QParts, NEW r \in Runners, Drop(r)
  PROVE  QTypes' /\ QParts'
<1> DEFINE l == loc[r]
<1>1. pc[r] = "drop" /\ UNCHANGED <<conf, objects, table, meta, st>> BY DEF Drop, cold
<1>2. JobOK("drop", l, Archived) BY <1>1 DEF QParts
<1>3. CASE ~exists /\ Leave(r) /\ UNCHANGED <<exists, hot>>
  BY <1>1, <1>3, QuietLeave DEF Leave, To, Set
<1>4. CASE exists' = FALSE /\ hot' = {} /\ To(r, "mark") /\ UNCHANGED loc
  <2>1. InitRows \subseteq Archived /\ JobOK("mark", l, Archived)
    BY <1>2 DEF JobOK, Filled, Written
  <2>2. Archived' = Archived BY <1>1 DEF Archived
  <2>3. QTypes' BY <1>1, <1>4 DEF QTypes
  <2>4. pc' = [pc EXCEPT ![r] = "mark"] /\ loc' = loc BY <1>4 DEF To
  <2>5. \A q \in Runners : JobOK(pc'[q], loc'[q], Archived) BY <2>1, <2>4 DEF QParts
  <2>6. /\ conf.sink = "clickhouse" => \A c \in Chunks : objects[c] = {}
        /\ \A c \in Chunks : objects[c] \in {{}, Piece(c)}
        /\ \A c \in Chunks : RowOK(st[c], c, Archived)
    BY DEF QParts
  <2>7. QParts' BY <1>1, <1>4, <2>1, <2>2, <2>5, <2>6 DEF QParts
  <2> QED BY <2>3, <2>7
<1> QED BY <1>3, <1>4 DEF Drop

LEMMA QuietMark ==
  ASSUME pc \in [Runners -> Pcs], QTypes, QParts, NEW r \in Runners, Mark(r)
  PROVE  QTypes' /\ QParts'
<1> DEFINE l == loc[r]
           n == l.mark
           m == [l EXCEPT !.mark = n + 1]
<1>1. pc[r] = "mark" /\ UNCHANGED <<conf, exists, hot, objects, table, meta>>
  BY DEF Mark, part, cold
<1>2. l \in QLocal /\ JobOK("mark", l, Archived) BY <1>1 DEF QTypes, QParts
<1>3. n \in Nat /\ l.chunk \in Chunks BY <1>2, LocalFields
<1>4. CASE Leave(r) /\ UNCHANGED st BY <1>1, <1>4, QuietLeave DEF Leave, To, Set
<1>5. CASE /\ n < l.chunk /\ CanAdvance(n, "dropped")
           /\ st' = [st EXCEPT ![n] = Advanced(n, "dropped")] /\ Set(r, m) /\ UNCHANGED pc
  <2>1. n \in Chunks BY <1>3, <1>5, IdsFinite DEF Chunks
  <2>2. m \in QLocal /\ m.chunk = l.chunk /\ m.cursor = l.cursor
    <3>1. n + 1 \in Nat BY <1>3
    <3> QED BY <1>2, <3>1 DEF QLocal
  <2>3. loc' = [loc EXCEPT ![r] = m] /\ pc' = [pc EXCEPT ![r] = "mark"]
    BY <1>1, <1>5 DEF Set
  <2> HIDE DEF m
  <2>4. JobOK("mark", m, Archived) BY <1>2, <2>2 DEF JobOK, Filled, Written
  <2>5. st[n] \in QRow /\ RowOK(st[n], n, Archived) BY <2>1 DEF QTypes, QParts
  <2>6. st[n].phase = "verified" BY <1>5 DEF CanAdvance, Predecessor
  <2>7. Advanced(n, "dropped") \in QRow /\ RowOK(Advanced(n, "dropped"), n, Archived)
    BY <2>1, <2>5, <2>6, AdvancedIs
  <2> QED BY <1>1, <1>5, <2>2, <2>3, <2>4, <2>7, QuietRow
<1> QED BY <1>4, <1>5 DEF Mark

(* A job goes to the head of its walk or away from it.                     *)
LEMMA QuietTurn ==
  ASSUME pc \in [Runners -> Pcs], QTypes, QParts, NEW r \in Runners,
         Begin(r) \/ Select(r) \/ End(r)
  PROVE  QTypes' /\ QParts'
<1> DEFINE l == loc[r]
           away == {"idle", "select", "release"}
<1>1. /\ pc[r] \in away /\ UNCHANGED <<conf, exists, hot, objects, table, meta, st, loc>>
      /\ \E p \in {"idle", "select", "release", "load"} : pc' = [pc EXCEPT ![r] = p]
  BY DEF Begin, Select, End, To, part, cold
<1>2. PICK p \in {"idle", "select", "release", "load"} : pc' = [pc EXCEPT ![r] = p]
  BY <1>1
<1>3. l \in QLocal /\ JobOK(pc[r], l, Archived) BY DEF QTypes, QParts
<1>4. JobOK(p, l, Archived) BY <1>1, <1>2, <1>3 DEF JobOK, Filled, Written
<1>5. loc' = [loc EXCEPT ![r] = l] BY <1>1 DEF QTypes
<1> QED BY <1>1, <1>2, <1>3, <1>4, <1>5, QuietMove

LEMMA QuietStops ==
  ASSUME pc \in [Runners -> Pcs], QTypes, QParts, NEW r \in Runners,
         Budget(r) \/ Fail(r) \/ Crash(r)
  PROVE  QTypes' /\ QParts'
<1>1. /\ UNCHANGED <<conf, exists, hot, objects, table, meta, st>>
      /\ loc' = [loc EXCEPT ![r] = Start]
      /\ \E p \in {"release", "idle"} : pc' = [pc EXCEPT ![r] = p]
  BY DEF Budget, Fail, Crash, Leave, To, Set, part, cold
<1> QED BY <1>1, QuietLeave

LEMMA OlderIs == ASSUME NEW n \in Nat PROVE Older(n) \in Nat
BY DEF Older

(* A day passes: only the ages change.                                     *)
LEMMA QuietDay ==
  ASSUME pc \in [Runners -> Pcs], QTypes, QParts, Day
  PROVE  QTypes' /\ QParts'
<1>1. st' = Aged /\ UNCHANGED <<conf, exists, hot, objects, table, meta, pc>>
  BY DEF Day, part, cold
<1>2. Archived' = Archived BY <1>1 DEF Archived
<1>3. ASSUME NEW c \in Chunks PROVE st'[c] \in QRow /\ RowOK(st'[c], c, Archived)
  <2> DEFINE s == st[c]
             a == [s EXCEPT !.age = Older(s.age)]
  <2>1. s \in QRow /\ RowOK(s, c, Archived) BY DEF QTypes, QParts
  <2>2. Older(s.age) \in Nat BY <2>1, StateFields, OlderIs
  <2>3. a \in QRow /\ a.phase = s.phase /\ a.sum = s.sum /\ a.high = s.high
    BY <2>1, <2>2 DEF QRow
  <2>4. st'[c] = s \/ st'[c] = a BY <1>1 DEF Aged
  <2> HIDE DEF a, s
  <2> QED BY <2>1, <2>3, <2>4 DEF RowOK
<1>4. ASSUME NEW r \in Runners PROVE loc'[r] \in QLocal /\ JobOK(pc[r], loc'[r], Archived)
  <2> DEFINE l == loc[r]
             a == [l EXCEPT !.age = Older(l.age)]
  <2>1. l \in QLocal /\ JobOK(pc[r], l, Archived) BY DEF QTypes, QParts
  <2>2. Older(l.age) \in Nat BY <2>1, LocalFields, OlderIs
  <2>3. a \in QLocal /\ a.chunk = l.chunk /\ a.cursor = l.cursor /\ a.rows = l.rows
    BY <2>1, <2>2 DEF QLocal
  <2>4. loc'[r] = l \/ loc'[r] = a BY DEF Day
  <2> HIDE DEF a, l
  <2> QED BY <2>1, <2>3, <2>4 DEF JobOK
<1>5. st' \in [Chunks -> QRow]
  <2>1. st' = [c \in Chunks |-> st'[c]] BY <1>1 DEF Aged
  <2> QED BY <1>3, <2>1
<1>6. loc' \in [Runners -> QLocal]
  <2>1. loc' = [r \in Runners |-> loc'[r]] BY DEF Day
  <2> QED BY <1>4, <2>1
<1>7. QTypes' BY <1>1, <1>5, <1>6 DEF QTypes
<1>8. QParts' BY <1>1, <1>2, <1>3, <1>4 DEF QParts
<1> QED BY <1>7, <1>8

(* What the cold tier holds of it is the whole partition again.            *)
LEMMA QuietExchange ==
  ASSUME QTypes, QParts, Exchange
  PROVE  QTypes' /\ QParts'
<1>1. /\ ~exists /\ exists' = TRUE /\ hot' = Archived
      /\ UNCHANGED <<conf, objects, table, meta, st, pc, loc>>
  BY DEF Exchange, cold
<1>2. Archived' = Archived BY <1>1 DEF Archived
<1>3. InitRows \subseteq Archived BY <1>1 DEF QParts
<1>4. Archived \subseteq InitRows
  <2>1. \A c \in Chunks : objects[c] \subseteq InitRows BY DEF QTypes
  <2>2. table \subseteq InitRows BY DEF QTypes
  <2> QED BY <2>1, <2>2 DEF Archived
<1>5. hot' = InitRows BY <1>1, <1>3, <1>4
<1>6. QTypes' BY <1>1 DEF QTypes
<1>7. QParts' BY <1>1, <1>2, <1>5 DEF QParts
<1> QED BY <1>6, <1>7

LEMMA QuietReset ==
  ASSUME QTypes, QParts, Reset
  PROVE  QTypes' /\ QParts'
<1>1. /\ st' = [c \in Chunks |-> NoRow]
      /\ UNCHANGED <<conf, exists, hot, objects, table, meta, pc, loc>>
  BY DEF Reset, ResetPartition, part, cold
<1>2. NoRow \in QRow /\ NoRow.phase = "none" BY DEF NoRow, QRow, Phases
<1>3. Archived' = Archived BY <1>1 DEF Archived
<1>4. st' \in [Chunks -> QRow] BY <1>1, <1>2
<1>5. \A c \in Chunks : RowOK(st'[c], c, Archived) BY <1>1, <1>2 DEF RowOK
<1>6. QTypes' BY <1>1, <1>4 DEF QTypes
<1>7. QParts' BY <1>1, <1>3, <1>5 DEF QParts
<1> QED BY <1>6, <1>7

(* With a filter, or in a dry run, the partition is never dropped.         *)
Undropped == exists /\ hot = InitRows /\ \A r \in Runners : pc[r] # "drop"

(* The inductive invariant.                                                *)
Quiet ==
  IF conf.filter \/ conf.dryRun THEN Undropped ELSE QTypes /\ QParts
QInv ==
  /\ pc \in [Runners -> Pcs]
  /\ InitRows \subseteq known
  /\ known = InitRows => Quiet

LEMMA QInit == Init => QInv
<1> SUFFICES ASSUME Init PROVE QInv OBVIOUS
<1>1. pc \in [Runners -> Pcs] /\ known = InitRows BY DEF Init, Pcs
<1>2. Undropped BY DEF Init, Undropped
<1>3. QTypes
  <2>1. NoRow \in QRow BY DEF NoRow, QRow, Phases
  <2>2. st \in [Chunks -> QRow] BY <2>1 DEF Init
  <2>3. loc \in [Runners -> QLocal] BY StartIs DEF Init
  <2> QED BY <2>2, <2>3 DEF Init, QTypes
<1>4. QParts
  <2>1. hot = InitRows /\ exists BY DEF Init
  <2>2. \A c \in Chunks : objects[c] = {} BY DEF Init
  <2>3. \A c \in Chunks : RowOK(st[c], c, Archived)
    <3>1. \A c \in Chunks : st[c].phase = "none" BY DEF Init, NoRow
    <3> QED BY <3>1 DEF RowOK
  <2>4. \A r \in Runners : JobOK(pc[r], loc[r], Archived)
    <3>1. "idle" \in Pcs \ (Filled \cup {"count", "drop"}) BY DEF Pcs, Filled
    <3>2. JobOK("idle", Start, Archived) BY <3>1, StartIs
    <3> QED BY <3>2 DEF Init
  <2> QED BY <2>1, <2>2, <2>3, <2>4 DEF QParts
<1> QED BY <1>1, <1>2, <1>3, <1>4 DEF QInv, Quiet

(* A step that no insert is keeps the invariant of a partition that can be *)
(* dropped ...                                                             *)
LEMMA QuietNext ==
  ASSUME pc \in [Runners -> Pcs], QTypes, QParts, ~conf.filter, ~conf.dryRun,
         [Next]_vars, \A i \in Ids : ~Insert(i)
  PROVE  QTypes' /\ QParts'
<1>1. ASSUME NEW r \in Runners, Step(r) PROVE QTypes' /\ QParts'
  BY <1>1, QuietTurn, QuietLoad, QuietRead, QuietWriteRows, QuietWriteMeta, QuietSeed,
     QuietCopy, QuietVerify, QuietCountRows, QuietDrop, QuietMark DEF Step
<1>2. ASSUME NEW r \in Runners, Budget(r) \/ Fail(r) \/ Crash(r) PROVE QTypes' /\ QParts'
  BY <1>2, QuietStops
<1>3. ASSUME UNCHANGED <<conf, exists, hot, objects, table, meta, st, pc, loc>>
      PROVE  QTypes' /\ QParts'
  <2>1. Archived' = Archived BY <1>3 DEF Archived
  <2>2. QTypes' BY <1>3 DEF QTypes
  <2>3. QParts' BY <1>3, <2>1 DEF QParts
  <2> QED BY <2>2, <2>3
<1>4. ASSUME NEW r \in Runners, BeginLost(r) PROVE QTypes' /\ QParts'
  BY <1>3, <1>4 DEF BeginLost, part, cold
<1>5. CASE Lapse \/ Age \/ RestoreDies
  BY <1>3, <1>5 DEF Lapse, Age, RestoreDies, part, cold
<1>6. CASE Day BY <1>6, QuietDay
<1>7. CASE Exchange BY <1>7, QuietExchange
<1>8. CASE Reset BY <1>8, QuietReset
<1>9. CASE UNCHANGED vars BY <1>3, <1>9 DEF vars
<1> QED BY <1>1, <1>2, <1>4, <1>5, <1>6, <1>7, <1>8, <1>9 DEF Next

(* ... and of one that cannot.                                             *)
LEMMA UndroppedNext ==
  ASSUME pc \in [Runners -> Pcs], Undropped, conf.filter \/ conf.dryRun,
         [Next]_vars, \A i \in Ids : ~Insert(i)
  PROVE  Undropped'
<1> USE DEF part
<1>1. ASSUME NEW r \in Runners, NEW p, p # "drop", UNCHANGED <<exists, hot>>,
             pc' = [pc EXCEPT ![r] = p] \/ UNCHANGED pc
      PROVE  Undropped'
  BY <1>1 DEF Undropped
<1> USE DEF Leave, To
<1>2. ASSUME NEW r \in Runners, Begin(r) \/ End(r) \/ Crash(r) \/ Budget(r) \/ Fail(r)
      PROVE  Undropped'
  <2>1. \/ pc' = [pc EXCEPT ![r] = "select"] \/ pc' = [pc EXCEPT ![r] = "idle"]
        \/ pc' = [pc EXCEPT ![r] = "release"]
    BY <1>2 DEF Begin, End, Crash, Budget, Fail
  <2>2. UNCHANGED <<exists, hot>> BY <1>2 DEF Begin, End, Crash, Budget, Fail
  <2> QED BY <1>1, <2>1, <2>2
<1>3. ASSUME NEW r \in Runners, Select(r) \/ Read(r) PROVE Undropped'
  <2>1. \E p \in {"load", "release", "count", "data"} : pc' = [pc EXCEPT ![r] = p]
    BY <1>3 DEF Select, Read
  <2>2. UNCHANGED <<exists, hot>> BY <1>3 DEF Select, Read
  <2> QED BY <1>1, <2>1, <2>2
<1>4. ASSUME NEW r \in Runners, Load(r) PROVE Undropped'
  <2>1. \E p \in {"release", "verify", "read"} : pc' = [pc EXCEPT ![r] = p] \/ UNCHANGED pc
    BY <1>4 DEF Load
  <2>2. UNCHANGED <<exists, hot>> BY <1>4 DEF Load
  <2> QED BY <1>1, <2>1, <2>2
<1>5. ASSUME NEW r \in Runners, WriteRows(r) \/ WriteMeta(r) \/ Seed(r) PROVE Undropped'
  <2>1. \E p \in {"meta", "seed", "copied"} : pc' = [pc EXCEPT ![r] = p]
    BY <1>5 DEF WriteRows, WriteMeta, Seed
  <2>2. UNCHANGED <<exists, hot>> BY <1>5 DEF WriteRows, WriteMeta, Seed
  <2> QED BY <1>1, <2>1, <2>2
<1>6. ASSUME NEW r \in Runners, Copy(r) \/ Verify(r) \/ CountRows(r) PROVE Undropped'
  <2>1. ~Droppable(loc[r]) BY DEF Droppable
  <2>2. \E p \in {"release", "verify", "load"} : pc' = [pc EXCEPT ![r] = p]
    BY <1>6, <2>1 DEF Copy, Verify, CountRows
  <2>3. UNCHANGED <<exists, hot>> BY <1>6 DEF Copy, Verify, CountRows
  <2> QED BY <1>1, <2>2, <2>3
<1>7. ASSUME NEW r \in Runners, Drop(r) PROVE Undropped' BY <1>7 DEF Drop, Undropped
<1>8. ASSUME NEW r \in Runners, Mark(r) PROVE Undropped'
  <2>1. pc' = [pc EXCEPT ![r] = "release"] \/ UNCHANGED pc BY <1>8 DEF Mark
  <2>2. UNCHANGED <<exists, hot>> BY <1>8 DEF Mark
  <2> QED BY <1>1, <2>1, <2>2
<1>9. ASSUME UNCHANGED <<exists, hot, pc>> PROVE Undropped' BY <1>9 DEF Undropped
<1>10. ASSUME NEW r \in Runners, BeginLost(r) PROVE Undropped' BY <1>9, <1>10 DEF BeginLost
<1>11. CASE Lapse \/ Age \/ RestoreDies \/ Day \/ Reset
  BY <1>9, <1>11 DEF Lapse, Age, RestoreDies, Day, Reset
<1>12. CASE Exchange BY <1>12 DEF Exchange, Undropped
<1>13. CASE UNCHANGED vars BY <1>9, <1>13 DEF vars
<1> HIDE DEF part, Leave, To
<1> QED BY <1>2, <1>3, <1>4, <1>5, <1>6, <1>7, <1>8, <1>10, <1>11, <1>12, <1>13 DEF Next, Step

(* No step takes a row out of the history, and none but an insert adds one. *)
LEMMA KnownNext ==
  ASSUME [Next]_vars
  PROVE  known' = known \/ \E i \in Ids : Insert(i)
<1> USE DEF ghosts
<1>1. ASSUME NEW r \in Runners, Step(r) PROVE known' = known
  BY <1>1 DEF Step, Begin, Select, Load, Read, WriteRows, WriteMeta, Seed, Copy, Verify,
              CountRows, Drop, Mark, End
<1>2. ASSUME NEW r \in Runners, BeginLost(r) \/ Budget(r) \/ Fail(r) \/ Crash(r)
      PROVE  known' = known
  BY <1>2 DEF BeginLost, Budget, Fail, Crash
<1>3. CASE Lapse \/ Age \/ Day \/ Exchange \/ Reset \/ RestoreDies
  BY <1>3 DEF Lapse, Age, Day, Exchange, Reset, RestoreDies
<1>4. CASE UNCHANGED vars BY <1>4 DEF vars
<1> HIDE DEF ghosts
<1> QED BY <1>1, <1>2, <1>3, <1>4 DEF Next

LEMMA ConfFixed == ASSUME [Next]_vars PROVE conf' = conf
<1>1. ASSUME NEW r \in Runners, Step(r) PROVE conf' = conf
  BY <1>1 DEF Step, Begin, Select, Load, Read, WriteRows, WriteMeta, Seed, Copy, Verify,
              CountRows, Drop, Mark, End
<1>2. ASSUME NEW r \in Runners, BeginLost(r) \/ Budget(r) \/ Fail(r) \/ Crash(r)
      PROVE  conf' = conf
  BY <1>2 DEF BeginLost, Budget, Fail, Crash
<1>3. ASSUME NEW i \in Ids, Insert(i) PROVE conf' = conf BY <1>3 DEF Insert
<1>4. CASE Lapse \/ Age \/ Day \/ Exchange \/ Reset \/ RestoreDies
  BY <1>4 DEF Lapse, Age, Day, Exchange, Reset, RestoreDies
<1>5. CASE UNCHANGED vars BY <1>5 DEF vars
<1> QED BY <1>1, <1>2, <1>3, <1>4, <1>5 DEF Next

LEMMA QNext == QInv /\ Jobs' /\ [Next]_vars => QInv'
<1> SUFFICES ASSUME QInv, Jobs', [Next]_vars PROVE QInv' OBVIOUS
<1>1. pc \in [Runners -> Pcs] /\ (pc \in [Runners -> Pcs])' /\ conf' = conf
  BY ConfFixed DEF QInv, Jobs
<1>2. CASE \E i \in Ids : Insert(i)
  <2>1. InitRows \subseteq known' /\ known' # InitRows BY <1>2 DEF QInv, Insert
  <2> QED BY <1>1, <2>1 DEF QInv
<1>3. CASE \A i \in Ids : ~Insert(i)
  <2>1. known' = known BY <1>3, KnownNext
  <2>2. ASSUME known = InitRows PROVE Quiet'
    <3>1. Quiet BY <2>2 DEF QInv
    <3>2. CASE conf.filter \/ conf.dryRun
      <4>1. Undropped BY <3>1, <3>2 DEF Quiet
      <4>2. Undropped' BY <1>1, <1>3, <3>2, <4>1, UndroppedNext
      <4> QED BY <1>1, <3>2, <4>2 DEF Quiet
    <3>3. CASE ~(conf.filter \/ conf.dryRun)
      <4>1. QTypes /\ QParts BY <3>1, <3>3 DEF Quiet
      <4>2. QTypes' /\ QParts' BY <1>1, <1>3, <3>3, <4>1, QuietNext
      <4> QED BY <1>1, <3>3, <4>2 DEF Quiet
    <3> QED BY <3>2, <3>3
  <2> QED BY <1>1, <2>1, <2>2 DEF QInv
<1> QED BY <1>2, <1>3

(* A row of a partition nobody writes to is never lost (archive.rs,        *)
(* archive_partition): for every batch size, number of jobs, faults and    *)
(* restores.                                                               *)
THEOREM QuietRowsKeptHolds == Spec => []QuietRowsKept
<1>1. QInv => QuietRowsKept
  <2> SUFFICES ASSUME QInv, known = InitRows PROVE InitRows \subseteq hot \cup Archived
    BY DEF QuietRowsKept
  <2>1. CASE Undropped BY <2>1 DEF Undropped
  <2>2. CASE QParts BY <2>2 DEF QParts
  <2> QED BY <2>1, <2>2 DEF QInv, Quiet
<1> QED BY <1>1, QInit, QNext, JobsInit, JobsNext, PTL DEF Spec

(* Every page of a query is exact, rows at the ends of its range apart, and *)
(* the rows of a dropped partition that nobody wrote to are all found by one *)
(* that spans the boundary, unless copies of a retried write lie across its  *)
(* end (query.rs:87-177, sink/clickhouse.rs:193-194, archive.rs:366-390).    *)
THEOREM DroppedRowsFoundHolds == Spec => []DroppedRowsFound
<1>1. QInv => DroppedRowsFound
  <2> SUFFICES ASSUME QInv PROVE DroppedRowsFound OBVIOUS
  <2>1. ASSUME ~exists, known = InitRows, conf.sink = "clickhouse",
               NEW further \in Copies, NEW limit \in QSizes, NEW offset \in QSizes,
               \/ \A i \in table : further[i] = 0
               \/ limit + offset >= Cardinality(Stored(further))
        PROVE  QueryRange({}, Stored(further), Max(QTimes), Min(QTimes), Max(QTimes), limit, offset)
                 = Slice(AsRows(InitRows), limit, offset)
    <3>1. QTypes /\ QParts BY <2>1 DEF QInv, Quiet, Undropped
    <3>2. InitRows \subseteq Archived /\ \A c \in Chunks : objects[c] = {}
      BY <2>1, <3>1 DEF QParts
    <3>3. Archived \subseteq table BY <3>2 DEF Archived
    <3>4. table = InitRows BY <3>1, <3>2, <3>3 DEF QTypes
    <3>5. table \in SUBSET Ids BY <3>4, RowsAssumption
    <3>6. QueryRange({}, Stored(further), Max(QTimes), Min(QTimes), Max(QTimes), limit, offset)
            = Slice(AsRows(table), limit, offset)
      BY <2>1, <3>5, DroppedQuery
    <3> QED BY <3>4, <3>6
  <2>2. PagesAreExact BY PagesExact
  <2> QED BY <2>1, <2>2 DEF DroppedRowsFound
<1> QED BY <1>1, QInit, QNext, JobsInit, JobsNext, PTL DEF Spec

-----------------------------------------------------------------------------
(* Types, with late inserts too. That a walk stays within the chunk        *)
(* numbers of the model is the one part that is only model-checked.        *)

Walks == \A r \in Runners : loc[r].chunk \in Chunks

Full == {"data", "meta", "seed", "copied"}
Wide == [chunk : Nat, cursor : {0} \cup Ids, allVerified : BOOLEAN,
         copiedAny : BOOLEAN, archived : Nat, age : 0..Retain,
         rows : SUBSET Ids, seed : BOOLEAN, mark : Chunks]

OperTypes ==
  /\ restore \in {"idle", "exchanged"} /\ restores \in 0..MaxRestores /\ torn \in BOOLEAN
  /\ lapsed \subseteq Runners /\ overlap \in BOOLEAN /\ faults \in 0..MaxFaults
PartTypes ==
  /\ conf \in Configs /\ exists \in BOOLEAN /\ hot \subseteq Ids /\ old \in BOOLEAN
  /\ known \subseteq Ids
ColdTypes ==
  /\ objects \in [Chunks -> SUBSET Ids] /\ table \subseteq Ids
  /\ again \subseteq table /\ meta \in [Chunks -> SUBSET Ids]
RowTypes == st \in [Chunks -> Rows] /\ fresh \subseteq Chunks
JobTypes ==
  /\ loc \in [Runners -> Locals]
  /\ \A r \in Runners : pc[r] \in Full => loc[r].rows # {}

TInv == Jobs /\ OperTypes /\ PartTypes /\ ColdTypes /\ RowTypes /\ JobTypes

LEMMA TInvType == TInv => TypeOK
BY DEF TInv, Jobs, OperTypes, PartTypes, ColdTypes, RowTypes, JobTypes, TypeOK, LockTypeOK,
       Pcs, Runners

LEMMA NatChunks ==
  \A c \in Chunks : c \in Nat /\ \A n \in Nat : n < c => n \in Chunks /\ n + 1 \in Chunks
BY IdsFinite DEF Chunks

LEMMA LocalsWide ==
  /\ \A l \in Locals : l \in Wide
  /\ \A l \in Wide : l.chunk \in Chunks => l \in Locals
<1>1. Chunks \subseteq Nat BY NatChunks
<1> QED BY <1>1 DEF Locals, Wide

LEMMA WideFields ==
  ASSUME NEW l \in Wide
  PROVE  /\ l.chunk \in Nat /\ l.cursor \in {0} \cup Ids /\ l.archived \in Nat
         /\ l.age \in 0..Retain /\ l.rows \in SUBSET Ids /\ l.mark \in Chunks
BY DEF Wide

LEMMA RowsFields ==
  ASSUME NEW s \in Rows
  PROVE  /\ s.phase \in Phases /\ s.high \in {0} \cup Ids /\ s.rows \in 0..Cardinality(Ids)
         /\ s.sum \in SUBSET Ids /\ s.age \in 0..Retain
BY DEF Rows

(* What a read or a state row gives: sets of ids have a greatest one and   *)
(* no more members than there are ids.                                     *)
LEMMA SomeIds ==
  ASSUME NEW S \in SUBSET Ids
  PROVE  /\ Cardinality(S) \in 0..Cardinality(Ids)
         /\ S # {} => Max(S) \in Ids
<1>1. Ids \subseteq Nat /\ IsFiniteSet(Ids) BY RowsAssumption
<1>2. IsFiniteSet(S) /\ Cardinality(S) <= Cardinality(Ids) BY <1>1, FS_Subset
<1>3. Cardinality(S) \in Nat /\ Cardinality(Ids) \in Nat BY <1>1, <1>2, FS_CardinalityType
<1>4. S # {} => Max(S) \in S BY <1>1, <1>2, MaxIs
<1> QED BY <1>2, <1>3, <1>4

LEMMA NoRowIs == NoRow \in Rows
<1>1. Cardinality(Ids) \in Nat BY IdsFinite
<1> QED BY <1>1, BoundsAssumption DEF NoRow, Rows, Phases

LEMMA TInit == Init => TInv
<1> SUFFICES ASSUME Init PROVE TInv OBVIOUS
<1>1. 0 \in Chunks BY IdsFinite
<1>2. Start \in Locals BY <1>1, BoundsAssumption DEF Start, Locals
<1>3. NoRow \in Rows BY NoRowIs
<1>4. OperTypes
  <2>1. 0 \in 0..MaxRestores /\ 0 \in 0..MaxFaults BY BoundsAssumption
  <2> QED BY <2>1 DEF Init, OperTypes
<1>5. PartTypes BY RowsAssumption DEF Init, PartTypes
<1>6. ColdTypes BY DEF Init, ColdTypes
<1>7. RowTypes BY <1>3 DEF Init, RowTypes
<1>8. JobTypes BY <1>2 DEF Init, JobTypes, Full
<1> QED BY <1>4, <1>5, <1>6, <1>7, <1>8, JobsInit DEF TInv

LEMMA OperNext == OperTypes /\ [Next]_vars => OperTypes'
<1> SUFFICES ASSUME OperTypes, [Next]_vars PROVE OperTypes' OBVIOUS
<1> USE DEF oper, ghosts
<1>1. ASSUME Fault \/ faults' = faults PROVE faults' \in 0..MaxFaults
  BY <1>1, BoundsAssumption DEF Fault, OperTypes
<1>2. ASSUME NEW r \in Runners, Begin(r) PROVE OperTypes'
  <2>1. /\ restore' = restore /\ restores' = restores /\ lapsed' = lapsed /\ faults' = faults
        /\ torn' \in BOOLEAN /\ overlap' \in BOOLEAN
    BY <1>2 DEF Begin, OperTypes
  <2> QED BY <2>1 DEF OperTypes
<1>3. ASSUME NEW r \in Runners, End(r) \/ Crash(r) PROVE OperTypes'
  <2>1. /\ UNCHANGED <<oper, overlap>> /\ lapsed' = lapsed \ {r}
        /\ Fault \/ faults' = faults
    BY <1>3 DEF End, Crash
  <2> QED BY <1>1, <2>1 DEF OperTypes
<1>4. ASSUME NEW r \in Runners, BeginLost(r) \/ Budget(r) \/ Fail(r) PROVE OperTypes'
  <2>1. UNCHANGED <<oper, lapsed, overlap>> /\ Fault
    BY <1>4 DEF BeginLost, Budget, Fail
  <2> QED BY <1>1, <2>1 DEF OperTypes
<1>5. ASSUME UNCHANGED <<oper, lapsed, overlap, faults>> PROVE OperTypes'
  BY <1>5 DEF OperTypes
<1>6. ASSUME NEW r \in Runners, Step(r), ~Begin(r), ~End(r) PROVE OperTypes'
  <2>1. UNCHANGED <<oper, lapsed, overlap, faults>>
    BY <1>6 DEF Step, Select, Load, Read, WriteRows, WriteMeta, Seed, Copy, Verify,
                CountRows, Drop, Mark
  <2> QED BY <1>5, <2>1
<1>7. CASE Lapse
  <2>1. UNCHANGED <<oper, overlap>> /\ lapsed' \subseteq Runners /\ (Fault \/ faults' = faults)
    BY <1>7 DEF Lapse, OperTypes
  <2> QED BY <1>1, <2>1 DEF OperTypes
<1>8. CASE Exchange
  <2>1. /\ restore' = "exchanged" /\ restores < MaxRestores /\ restores' = restores + 1
        /\ torn' \in BOOLEAN /\ UNCHANGED <<lapsed, overlap, faults>>
    BY <1>8 DEF Exchange, OperTypes
  <2>2. restores' \in 0..MaxRestores BY <2>1, BoundsAssumption DEF OperTypes
  <2> QED BY <2>1, <2>2 DEF OperTypes
<1>9. CASE Reset \/ RestoreDies
  <2>1. /\ restore' = "idle" /\ restores' = restores /\ torn' \in BOOLEAN
        /\ UNCHANGED <<lapsed, overlap>> /\ (Fault \/ faults' = faults)
    BY <1>9 DEF Reset, RestoreDies, OperTypes
  <2> QED BY <1>1, <2>1 DEF OperTypes
<1>10. CASE Age \/ Day \/ UNCHANGED vars BY <1>5, <1>10 DEF Age, Day, vars
<1>11. ASSUME NEW i \in Ids, Insert(i) PROVE OperTypes' BY <1>5, <1>11 DEF Insert
<1> HIDE DEF oper, ghosts
<1> QED BY <1>2, <1>3, <1>4, <1>6, <1>7, <1>8, <1>9, <1>10, <1>11 DEF Next

LEMMA PartNext == PartTypes /\ ColdTypes /\ [Next]_vars => PartTypes'
<1> SUFFICES ASSUME PartTypes, ColdTypes, [Next]_vars PROVE PartTypes' OBVIOUS
<1> USE DEF part, ghosts
<1>1. ASSUME UNCHANGED <<conf, exists, hot, old, known>> PROVE PartTypes'
  BY <1>1 DEF PartTypes
<1>2. ASSUME NEW r \in Runners, Step(r), ~Drop(r) PROVE PartTypes'
  <2>1. UNCHANGED <<conf, exists, hot, old, known>>
    BY <1>2 DEF Step, Begin, Select, Load, Read, WriteRows, WriteMeta, Seed, Copy, Verify,
                CountRows, Mark, End
  <2> QED BY <1>1, <2>1
<1>3. ASSUME NEW r \in Runners, Drop(r) PROVE PartTypes' BY <1>3 DEF Drop, PartTypes
<1>4. ASSUME NEW r \in Runners, BeginLost(r) \/ Budget(r) \/ Fail(r) \/ Crash(r)
      PROVE  PartTypes'
  BY <1>1, <1>4 DEF BeginLost, Budget, Fail, Crash
<1>5. ASSUME NEW i \in Ids, Insert(i) PROVE PartTypes' BY <1>5 DEF Insert, PartTypes
<1>6. CASE Age BY <1>6 DEF Age, PartTypes
<1>7. CASE Exchange
  <2>1. \A c \in Chunks : objects[c] \subseteq Ids BY DEF ColdTypes
  <2>2. Archived \subseteq Ids BY <2>1 DEF Archived, ColdTypes
  <2> QED BY <1>7, <2>2 DEF Exchange, PartTypes
<1>8. CASE Lapse \/ Day \/ Reset \/ RestoreDies \/ UNCHANGED vars
  BY <1>1, <1>8 DEF Lapse, Day, Reset, RestoreDies, vars
<1> HIDE DEF part, ghosts
<1> QED BY <1>2, <1>3, <1>4, <1>5, <1>6, <1>7, <1>8 DEF Next

LEMMA ColdNext ==
  ASSUME ColdTypes, JobTypes, [Next]_vars PROVE ColdTypes'
<1> USE DEF cold
<1>0. \A r \in Runners : loc[r].rows \in SUBSET Ids
  BY LocalsWide, WideFields DEF JobTypes
<1>1. ASSUME UNCHANGED <<objects, table, again, meta>> PROVE ColdTypes' BY <1>1 DEF ColdTypes
<1>2. ASSUME NEW r \in Runners, WriteRows(r) PROVE ColdTypes'
  <2> DEFINE rows == loc[r].rows
             c == loc[r].chunk
  <2>1. rows \in SUBSET Ids /\ meta' = meta BY <1>0, <1>2 DEF WriteRows
  <2> HIDE DEF rows, c
  <2>2. CASE S3Write(c, rows) BY <2>1, <2>2 DEF S3Write, ColdTypes
  <2>3. CASE ClickhouseWrite(c, rows)
    BY <2>1, <2>3 DEF ClickhouseWrite, ClickhouseInsert, ColdTypes
  <2> QED BY <1>2, <2>2, <2>3 DEF WriteRows, rows, c
<1>3. ASSUME NEW r \in Runners, WriteMeta(r) PROVE ColdTypes'
  BY <1>0, <1>3 DEF WriteMeta, ColdTypes
<1>4. ASSUME NEW r \in Runners, Step(r), ~WriteRows(r), ~WriteMeta(r) PROVE ColdTypes'
  <2>1. UNCHANGED <<objects, table, again, meta>>
    BY <1>4 DEF Step, Begin, Select, Load, Read, Seed, Copy, Verify, CountRows, Drop, Mark, End
  <2> QED BY <1>1, <2>1
<1>5. ASSUME NEW r \in Runners, BeginLost(r) \/ Budget(r) \/ Fail(r) \/ Crash(r)
      PROVE  ColdTypes'
  BY <1>1, <1>5 DEF BeginLost, Budget, Fail, Crash
<1>6. ASSUME NEW i \in Ids, Insert(i) PROVE ColdTypes' BY <1>1, <1>6 DEF Insert
<1>7. CASE Lapse \/ Age \/ Day \/ Exchange \/ Reset \/ RestoreDies \/ UNCHANGED vars
  BY <1>1, <1>7 DEF Lapse, Age, Day, Exchange, Reset, RestoreDies, vars
<1> HIDE DEF cold
<1> QED BY <1>2, <1>3, <1>4, <1>5, <1>6, <1>7 DEF Next

(* An advanced row, and an older one.                                      *)
LEMMA RowSteps ==
  ASSUME NEW c, st[c] \in Rows
  PROVE  /\ \A p \in Phases : Advanced(c, p) \in Rows
         /\ \A p \in Phases, S \in SUBSET Ids : [Advanced(c, p) EXCEPT !.sum = S] \in Rows
         /\ [st[c] EXCEPT !.age = Older(st[c].age)] \in Rows
<1> DEFINE s == st[c]
<1>1. \A p \in Phases : Advanced(c, p) \in Rows
  <2>1. 0 \in 0..Retain BY BoundsAssumption
  <2> QED BY <2>1 DEF Advanced, Rows
<1>2. \A a \in Rows : \A S \in SUBSET Ids : [a EXCEPT !.sum = S] \in Rows BY DEF Rows
<1>3. Older(s.age) \in 0..Retain
  <2>1. s.age \in 0..Retain BY RowsFields
  <2> QED BY <2>1, BoundsAssumption DEF Older
<1>4. [s EXCEPT !.age = Older(s.age)] \in Rows BY <1>3 DEF Rows
<1> QED BY <1>1, <1>2, <1>4

LEMMA RowNext ==
  ASSUME RowTypes, JobTypes, [Next]_vars PROVE RowTypes'
<1> USE DEF ghosts
<1>0. \A r \in Runners : loc[r] \in Locals /\ loc[r].rows \in SUBSET Ids /\ loc[r].chunk \in Chunks
  BY DEF JobTypes, Locals
<1>1. ASSUME UNCHANGED <<st, fresh>> PROVE RowTypes' BY <1>1 DEF RowTypes
<1>2. ASSUME NEW c \in Chunks, NEW s \in Rows, st' = [st EXCEPT ![c] = s],
             fresh' \subseteq fresh \cup {c}
      PROVE  RowTypes'
  BY <1>2 DEF RowTypes
<1>3. \A c \in Chunks : st[c] \in Rows BY DEF RowTypes
<1>4. ASSUME NEW r \in Runners, Seed(r) PROVE RowTypes'
  <2> DEFINE rows == loc[r].rows
             c == loc[r].chunk
             s == [phase |-> "pending", high |-> Max(rows), rows |-> Cardinality(rows),
                   sum |-> rows, age |-> 0]
  <2>1. pc[r] = "seed" /\ st' = [st EXCEPT ![c] = s] /\ fresh' = fresh BY <1>4 DEF Seed
  <2>2. rows \in SUBSET Ids /\ rows # {} /\ c \in Chunks BY <1>0, <2>1 DEF JobTypes, Full
  <2>3. Max(rows) \in Ids /\ Cardinality(rows) \in 0..Cardinality(Ids) BY <2>2, SomeIds
  <2> HIDE DEF rows
  <2>4. s \in Rows BY <2>2, <2>3, BoundsAssumption DEF Rows, Phases
  <2> HIDE DEF s
  <2> QED BY <1>2, <2>1, <2>2, <2>4
<1>5. ASSUME NEW r \in Runners, Copy(r) PROVE RowTypes'
  <2> DEFINE c == loc[r].chunk
             s == [Advanced(c, "copied") EXCEPT !.sum = loc[r].rows]
  <2>1. (st' = [st EXCEPT ![c] = s] \/ st' = st) /\ fresh' = fresh BY <1>5 DEF Copy
  <2>2. s \in Rows BY <1>0, <1>3, RowSteps DEF Phases
  <2> HIDE DEF s
  <2> QED BY <1>0, <1>1, <1>2, <2>1, <2>2
<1>6. ASSUME NEW r \in Runners, Verify(r) PROVE RowTypes'
  <2> DEFINE c == loc[r].chunk
             s == Advanced(c, "verified")
  <2>1. \/ st' = [st EXCEPT ![c] = s] /\ fresh' = fresh \cup {c}
        \/ st' = st /\ fresh' = fresh
    BY <1>6 DEF Verify
  <2>2. s \in Rows BY <1>0, <1>3, RowSteps DEF Phases
  <2> HIDE DEF s
  <2> QED BY <1>0, <1>1, <1>2, <2>1, <2>2
<1>7. ASSUME NEW r \in Runners, Mark(r) PROVE RowTypes'
  <2> DEFINE n == loc[r].mark
             s == Advanced(n, "dropped")
  <2>1. (st' = [st EXCEPT ![n] = s] \/ st' = st) /\ fresh' = fresh BY <1>7 DEF Mark
  <2>2. n \in Chunks BY <1>0 DEF Locals
  <2>3. s \in Rows BY <1>3, <2>2, RowSteps DEF Phases
  <2> HIDE DEF s
  <2> QED BY <1>1, <1>2, <2>1, <2>2, <2>3
<1>8. ASSUME NEW r \in Runners, Step(r), ~Seed(r), ~Copy(r), ~Verify(r), ~Mark(r) PROVE RowTypes'
  <2>1. UNCHANGED <<st, fresh>>
    BY <1>8 DEF Step, Begin, Select, Load, Read, WriteRows, WriteMeta, CountRows, Drop, End
  <2> QED BY <1>1, <2>1
<1>9. ASSUME NEW r \in Runners, BeginLost(r) \/ Budget(r) \/ Fail(r) \/ Crash(r)
      PROVE  RowTypes'
  BY <1>1, <1>9 DEF BeginLost, Budget, Fail, Crash
<1>10. ASSUME NEW i \in Ids, Insert(i) PROVE RowTypes' BY <1>1, <1>10 DEF Insert
<1>11. CASE Day
  <2>1. st' = Aged /\ fresh' = fresh BY <1>11 DEF Day
  <2>2. \A c \in Chunks : Aged[c] \in Rows BY <1>3, RowSteps DEF Aged
  <2>3. Aged = [c \in Chunks |-> Aged[c]] BY DEF Aged
  <2> QED BY <2>1, <2>2, <2>3 DEF RowTypes
<1>12. CASE Reset BY <1>12, NoRowIs DEF Reset, ResetPartition, RowTypes
<1>13. CASE Exchange BY <1>13 DEF Exchange, RowTypes
<1>14. CASE Lapse \/ Age \/ RestoreDies \/ UNCHANGED vars
  BY <1>1, <1>14 DEF Lapse, Age, RestoreDies, vars
<1> HIDE DEF ghosts
<1> QED BY <1>4, <1>5, <1>6, <1>7, <1>8, <1>9, <1>10, <1>11, <1>12, <1>13, <1>14 DEF Next

(* The locals of a job.                                                    *)
LEMMA LocalSteps ==
  ASSUME NEW l \in Wide
  PROVE  /\ NextChunk(l) \in Wide
         /\ \A i \in {0} \cup Ids : [l EXCEPT !.cursor = i] \in Wide
         /\ \A S \in SUBSET Ids : [l EXCEPT !.rows = S] \in Wide
         /\ \A a \in 0..Retain : [l EXCEPT !.age = a] \in Wide
         /\ \A b \in BOOLEAN : [l EXCEPT !.seed = b] \in Wide
         /\ [l EXCEPT !.allVerified = FALSE] \in Wide
         /\ \A s \in Rows : Count(l, s) \in Wide
<1>1. NextChunk(l) \in Wide
  <2>1. l.chunk + 1 \in Nat BY WideFields
  <2> QED BY <2>1 DEF NextChunk, Wide
<1>2. ASSUME NEW s \in Rows PROVE Count(l, s) \in Wide
  <2>1. s.rows \in Nat /\ s.high \in {0} \cup Ids /\ l.archived \in Nat
    BY RowsFields, WideFields, IdsFinite
  <2>2. l.archived + s.rows \in Nat BY <2>1
  <2> QED BY <2>1, <2>2 DEF Count, Wide
<1> QED BY <1>1, <1>2 DEF Wide

LEMMA JobTypesStep ==
  ASSUME JobTypes, Jobs, Walks', NEW r \in Runners, NEW p, NEW l \in Wide,
         p \in Full => l.rows # {},
         pc' = [pc EXCEPT ![r] = p], loc' = [loc EXCEPT ![r] = l]
  PROVE  JobTypes'
<1>1. loc'[r] = l /\ loc'[r].chunk \in Chunks BY DEF JobTypes, Walks
<1>2. l \in Locals BY <1>1, LocalsWide
<1>3. loc' \in [Runners -> Locals] BY <1>2 DEF JobTypes
<1>4. \A q \in Runners : pc'[q] \in Full => loc'[q].rows # {} BY DEF JobTypes, Jobs
<1> QED BY <1>3, <1>4 DEF JobTypes

LEMMA JobTypesNext ==
  ASSUME JobTypes, Jobs, RowTypes, PartTypes, Walks', [Next]_vars PROVE JobTypes'
<1>0. \A r \in Runners : loc[r] \in Wide /\ loc[r].chunk \in Chunks
  <2>1. \A r \in Runners : loc[r] \in Locals BY DEF JobTypes
  <2> QED BY <2>1, LocalsWide DEF Locals
<1>1. Start \in Wide
  <2>1. 0 \in Chunks BY IdsFinite
  <2> QED BY <2>1, BoundsAssumption DEF Start, Wide
<1>2. \A c \in Chunks : st[c] \in Rows BY DEF RowTypes
<1>3. ASSUME NEW r \in Runners, NEW p, p \notin Full,
             pc' = [pc EXCEPT ![r] = p], UNCHANGED loc
      PROVE  JobTypes'
  <2>1. loc' = [loc EXCEPT ![r] = loc[r]] BY <1>3 DEF JobTypes
  <2> QED BY <1>0, <1>3, <2>1, JobTypesStep
<1>4. ASSUME NEW r \in Runners, NEW p, p \notin Full,
             pc' = [pc EXCEPT ![r] = p], loc' = [loc EXCEPT ![r] = Start]
      PROVE  JobTypes'
  BY <1>1, <1>4, JobTypesStep
<1>5. ASSUME NEW r \in Runners, Leave(r) PROVE JobTypes'
  BY <1>4, <1>5 DEF Leave, To, Set, Full
<1>6. ASSUME NEW r \in Runners, Begin(r) \/ Select(r) \/ End(r) PROVE JobTypes'
  <2>1. UNCHANGED loc /\ \E p \in {"select", "load", "release", "idle"} : pc' = [pc EXCEPT ![r] = p]
    BY <1>6 DEF Begin, Select, End, To
  <2>2. \A p \in {"select", "load", "release", "idle"} : p \notin Full BY DEF Full
  <2> QED BY <1>3, <2>1, <2>2
<1>7. ASSUME NEW r \in Runners, Load(r) PROVE JobTypes'
  <2> DEFINE l == loc[r]
             s == st[l.chunk]
  <2>1. l \in Wide /\ s \in Rows /\ pc[r] = "load" BY <1>0, <1>2, <1>7 DEF Load
  <2>2. pc = [pc EXCEPT ![r] = "load"] BY <2>1 DEF Jobs
  <2>3. s.high \in {0} \cup Ids /\ s.sum \in SUBSET Ids BY <2>1, RowsFields
  <2>4. VerifiedAge(l, s) \in 0..Retain
    <3>1. l.age \in 0..Retain /\ s.age \in 0..Retain BY <2>1, WideFields, RowsFields
    <3>2. {l.age, s.age} \in SUBSET Nat /\ {l.age, s.age} # {} BY <3>1, BoundsAssumption
    <3>3. Min({l.age, s.age}) \in {l.age, s.age} BY <3>2, MinIs
    <3> QED BY <3>1, <3>3 DEF VerifiedAge
  <2>5. "load" \notin Full /\ "verify" \notin Full /\ "read" \notin Full BY DEF Full
  <2> HIDE DEF l, s
  <2>6. Count(l, s) \in Wide BY <2>1, LocalSteps
  <2>7. CASE Leave(r) BY <1>5, <2>7
  <2>8. CASE /\ Set(r, NextChunk([Count(l, s) EXCEPT !.age = VerifiedAge(l, s)]))
             /\ UNCHANGED pc
    <3>1. [Count(l, s) EXCEPT !.age = VerifiedAge(l, s)] \in Wide BY <2>4, <2>6, LocalSteps
    <3>2. NextChunk([Count(l, s) EXCEPT !.age = VerifiedAge(l, s)]) \in Wide BY <3>1, LocalSteps
    <3> QED BY <2>2, <2>5, <2>8, <3>2, JobTypesStep DEF Set
  <2>9. CASE Set(r, NextChunk([l EXCEPT !.cursor = s.high])) /\ UNCHANGED pc
    <3>1. [l EXCEPT !.cursor = s.high] \in Wide BY <2>1, <2>3, LocalSteps
    <3>2. NextChunk([l EXCEPT !.cursor = s.high]) \in Wide BY <3>1, LocalSteps
    <3> QED BY <2>2, <2>5, <2>9, <3>2, JobTypesStep DEF Set
  <2>10. CASE Set(r, [Count(l, s) EXCEPT !.rows = s.sum]) /\ To(r, "verify")
    <3>1. [Count(l, s) EXCEPT !.rows = s.sum] \in Wide BY <2>3, <2>6, LocalSteps
    <3> QED BY <2>5, <2>10, <3>1, JobTypesStep DEF Set, To
  <2>11. CASE Set(r, [l EXCEPT !.seed = (s.phase = "none")]) /\ To(r, "read")
    <3>1. (s.phase = "none") \in BOOLEAN OBVIOUS
    <3>2. [l EXCEPT !.seed = (s.phase = "none")] \in Wide BY <2>1, <3>1, LocalSteps
    <3> QED BY <2>5, <2>11, <3>2, JobTypesStep DEF Set, To
  <2> QED BY <1>7, <2>7, <2>8, <2>9, <2>10, <2>11 DEF Load, l, s
<1>8. ASSUME NEW r \in Runners, Read(r) PROVE JobTypes'
  <2> DEFINE l == loc[r]
             rows == ReadChunk(l.cursor)
  <2>1. l \in Wide BY <1>0
  <2>2. rows \in SUBSET Ids BY DEF ReadChunk, PartTypes
  <2>3. rows # {} => Max(rows) \in {0} \cup Ids BY <2>2, SomeIds
  <2>4. "load" \notin Full /\ "count" \notin Full BY DEF Full
  <2> HIDE DEF l, rows
  <2>5. CASE Leave(r) BY <1>5, <2>5
  <2>6. CASE To(r, "count") /\ UNCHANGED loc BY <1>3, <2>4, <2>6 DEF To
  <2>7. CASE rows # {} /\ Set(r, NextChunk([l EXCEPT !.cursor = Max(rows)])) /\ To(r, "load")
    <3>1. [l EXCEPT !.cursor = Max(rows)] \in Wide BY <2>1, <2>3, <2>7, LocalSteps
    <3>2. NextChunk([l EXCEPT !.cursor = Max(rows)]) \in Wide BY <3>1, LocalSteps
    <3> QED BY <2>4, <2>7, <3>2, JobTypesStep DEF Set, To
  <2>8. CASE rows # {} /\ Set(r, [l EXCEPT !.rows = rows]) /\ To(r, "data")
    <3>1. [l EXCEPT !.rows = rows] \in Wide /\ [l EXCEPT !.rows = rows].rows # {}
      BY <2>1, <2>2, <2>8 DEF Wide
    <3> QED BY <2>8, <3>1, JobTypesStep DEF Set, To
  <2> QED BY <1>8, <2>5, <2>6, <2>7, <2>8 DEF Read, l, rows
<1>9. ASSUME NEW r \in Runners, WriteRows(r) \/ WriteMeta(r) \/ Seed(r) PROVE JobTypes'
  <2>1. pc[r] \in Full /\ UNCHANGED loc /\ \E p \in Pcs : pc' = [pc EXCEPT ![r] = p]
    BY <1>9 DEF WriteRows, WriteMeta, Seed, To, Full, Pcs
  <2>2. loc' = [loc EXCEPT ![r] = loc[r]] /\ loc[r].rows # {} BY <2>1 DEF JobTypes
  <2> QED BY <1>0, <2>1, <2>2, JobTypesStep
<1>10. ASSUME NEW r \in Runners, Copy(r) PROVE JobTypes'
  <2> DEFINE l == loc[r]
             m == [l EXCEPT !.archived = @ + Cardinality(l.rows), !.copiedAny = TRUE,
                            !.cursor = Max(l.rows)]
  <2>1. l \in Wide /\ l.rows \in SUBSET Ids /\ l.archived \in Nat BY <1>0, WideFields
  <2>2. pc[r] = "copied" /\ l.rows # {} BY <1>10 DEF Copy, JobTypes, Full
  <2>3. Max(l.rows) \in Ids /\ Cardinality(l.rows) \in Nat BY <2>1, <2>2, SomeIds, IdsFinite
  <2>4. l.archived + Cardinality(l.rows) \in Nat BY <2>1, <2>3
  <2>5. m \in Wide BY <2>1, <2>3, <2>4 DEF Wide
  <2>6. "verify" \notin Full BY DEF Full
  <2>7. CASE Leave(r) BY <1>5, <2>7
  <2>8. CASE Set(r, m) /\ To(r, "verify") 
    <3> HIDE DEF m
    <3> QED BY <2>5, <2>6, <2>8, JobTypesStep DEF Set, To
  <2> QED BY <1>10, <2>7, <2>8 DEF Copy
<1>11. ASSUME NEW r \in Runners, Verify(r) PROVE JobTypes'
  <2> DEFINE l == loc[r]
  <2>1. l \in Wide /\ 0 \in 0..Retain BY <1>0, BoundsAssumption
  <2>2. "load" \notin Full BY DEF Full
  <2> HIDE DEF l
  <2>3. CASE Leave(r) BY <1>5, <2>3
  <2>4. CASE Set(r, NextChunk([l EXCEPT !.age = 0])) /\ To(r, "load")
    <3>1. [l EXCEPT !.age = 0] \in Wide BY <2>1, LocalSteps
    <3>2. NextChunk([l EXCEPT !.age = 0]) \in Wide BY <3>1, LocalSteps
    <3> QED BY <2>2, <2>4, <3>2, JobTypesStep DEF Set, To
  <2>5. CASE Set(r, NextChunk([l EXCEPT !.allVerified = FALSE])) /\ To(r, "load")
    <3>1. [l EXCEPT !.allVerified = FALSE] \in Wide BY <2>1, LocalSteps
    <3>2. NextChunk([l EXCEPT !.allVerified = FALSE]) \in Wide BY <3>1, LocalSteps
    <3> QED BY <2>2, <2>5, <3>2, JobTypesStep DEF Set, To
  <2> QED BY <1>11, <2>3, <2>4, <2>5 DEF Verify, l
<1>12. ASSUME NEW r \in Runners, CountRows(r) PROVE JobTypes'
  <2>1. "drop" \notin Full /\ hot \in SUBSET Ids BY DEF Full, PartTypes
  <2>2. CASE Leave(r) BY <1>5, <2>2
  <2>3. CASE To(r, "drop") /\ Set(r, [loc[r] EXCEPT !.rows = hot])
    <3>1. [loc[r] EXCEPT !.rows = hot] \in Wide BY <1>0, <2>1, LocalSteps
    <3> QED BY <2>1, <2>3, <3>1, JobTypesStep DEF Set, To
  <2> QED BY <1>12, <2>2, <2>3 DEF CountRows
<1>13. ASSUME NEW r \in Runners, Drop(r) PROVE JobTypes'
  <2>1. CASE Leave(r) BY <1>5, <2>1
  <2>2. CASE To(r, "mark") /\ UNCHANGED loc BY <1>3, <2>2 DEF To, Full
  <2> QED BY <1>13, <2>1, <2>2 DEF Drop
<1>14. ASSUME NEW r \in Runners, Mark(r) PROVE JobTypes'
  <2> DEFINE n == loc[r].mark
             m == [loc[r] EXCEPT !.mark = n + 1]
  <2>1. CASE Leave(r) BY <1>5, <2>1
  <2>2. CASE n < loc[r].chunk /\ Set(r, m) /\ UNCHANGED pc
    <3>1. n \in Chunks /\ loc[r].chunk \in Chunks BY <1>0, WideFields
    <3>2. n + 1 \in Chunks BY <2>2, <3>1, NatChunks
    <3>3. m \in Wide BY <1>0, <3>2 DEF Wide
    <3>4. pc' = [pc EXCEPT ![r] = "mark"] /\ "mark" \notin Full BY <1>14, <2>2 DEF Mark, Jobs, Full
    <3> HIDE DEF m
    <3> QED BY <2>2, <3>3, <3>4, JobTypesStep DEF Set
  <2> QED BY <1>14, <2>1, <2>2 DEF Mark
<1>15. ASSUME NEW r \in Runners, Budget(r) \/ Fail(r) \/ Crash(r) PROVE JobTypes'
  <2>1. CASE Leave(r) BY <1>5, <2>1
  <2>2. CASE To(r, "idle") /\ Set(r, Start) BY <1>4, <2>2 DEF To, Set, Full
  <2> QED BY <1>15, <2>1, <2>2 DEF Budget, Fail, Crash
<1>16. CASE Day
  <2>1. ASSUME NEW r \in Runners PROVE loc'[r] \in Locals /\ loc'[r].rows = loc[r].rows
    <3> DEFINE l == loc[r]
               a == [l EXCEPT !.age = Older(l.age)]
    <3>1. l \in Locals /\ l.age \in 0..Retain BY <1>0, WideFields DEF JobTypes
    <3>2. Older(l.age) \in 0..Retain BY <3>1, BoundsAssumption DEF Older
    <3>3. a \in Locals /\ a.rows = l.rows BY <3>1, <3>2 DEF Locals
    <3>4. loc'[r] = l \/ loc'[r] = a BY <1>16 DEF Day
    <3> QED BY <3>1, <3>3, <3>4
  <2>2. loc' = [r \in Runners |-> loc'[r]] BY <1>16 DEF Day
  <2>3. loc' \in [Runners -> Locals] BY <2>1, <2>2
  <2>4. pc' = pc BY <1>16 DEF Day
  <2> QED BY <2>1, <2>3, <2>4 DEF JobTypes
<1>17. ASSUME UNCHANGED <<pc, loc>> PROVE JobTypes' BY <1>17 DEF JobTypes
<1>18. ASSUME NEW r \in Runners, BeginLost(r) PROVE JobTypes' BY <1>17, <1>18 DEF BeginLost
<1>19. ASSUME NEW i \in Ids, Insert(i) PROVE JobTypes' BY <1>17, <1>19 DEF Insert
<1>20. CASE Lapse \/ Age \/ Exchange \/ Reset \/ RestoreDies \/ UNCHANGED vars
  BY <1>17, <1>20 DEF Lapse, Age, Exchange, Reset, RestoreDies, vars
<1> QED BY <1>6, <1>7, <1>8, <1>9, <1>10, <1>11, <1>12, <1>13, <1>14, <1>15, <1>16, <1>18,
           <1>19, <1>20 DEF Next, Step

LEMMA TNext == TInv /\ Walks' /\ [Next]_vars => TInv'
<1> SUFFICES ASSUME TInv, Walks', [Next]_vars PROVE TInv' OBVIOUS
<1>1. Jobs' BY JobsNext DEF TInv
<1>2. OperTypes' /\ PartTypes' BY OperNext, PartNext DEF TInv
<1>3. ColdTypes' /\ RowTypes' BY ColdNext, RowNext DEF TInv
<1>4. JobTypes' BY JobTypesNext DEF TInv
<1> QED BY <1>1, <1>2, <1>3, <1>4 DEF TInv

(* The types hold for every configuration, as long as the walks stay       *)
(* within the chunk numbers of the model (archive.rs:225-365).             *)
THEOREM TypeCorrect == Spec /\ []Walks => []TypeOK
BY TInit, TNext, TInvType, PTL DEF Spec

-----------------------------------------------------------------------------
(* A restored partition. While no restore was cut short or met a job at    *)
(* work, a chunk that counts as verified was verified since the last       *)
(* EXCHANGE, and so were all the chunks that a walk has passed.            *)

Rest == {"idle", "release", "select"}
Done == {"verified", "dropped"}

Passed(l, F) == l.allVerified => 0..(l.chunk - 1) \subseteq F

Renewed ==
  /\ \A r \in Runners : pc[r] \in Rest => loc[r].chunk = 0
  /\ \A r \in Runners : pc[r] = "drop" => loc[r].allVerified /\ ~conf.dryRun
  /\ ~torn /\ restore = "exchanged" => \A r \in Runners : ~Working(r)
  /\ ~torn /\ restore = "idle" =>
       \A c \in Chunks : st[c].phase \in Done => c \in fresh
  /\ ~torn /\ ~conf.dryRun => \A r \in Runners : Passed(loc[r], fresh)

LEMMA PassedIs ==
  /\ \A l, F : l.chunk = 0 => Passed(l, F)
  /\ \A l, F, G : Passed(l, F) /\ F \subseteq G => Passed(l, G)
  /\ \A l \in Locals : \A m, F :
       /\ Passed(l, F) /\ l.chunk \in F /\ m.chunk = l.chunk + 1
       /\ (m.allVerified => l.allVerified)
       => Passed(m, F)
<1>1. ASSUME NEW l, NEW F, l.chunk = 0 PROVE Passed(l, F)
  <2>1. 0..(0 - 1) = {} OBVIOUS
  <2> QED BY <1>1, <2>1 DEF Passed
<1>2. \A l, F, G : Passed(l, F) /\ F \subseteq G => Passed(l, G) BY DEF Passed
<1>3. ASSUME NEW l \in Locals, NEW m, NEW F, Passed(l, F), l.chunk \in F,
             m.chunk = l.chunk + 1, m.allVerified => l.allVerified, m.allVerified
      PROVE  0..(m.chunk - 1) \subseteq F
  <2>1. l.chunk \in Nat BY NatChunks DEF Locals
  <2>2. 0..(m.chunk - 1) = 0..(l.chunk - 1) \cup {l.chunk} BY <1>3, <2>1
  <2> QED BY <1>3, <2>2 DEF Passed
<1> QED BY <1>1, <1>2, <1>3 DEF Passed

(* A job at work steps.                                                    *)
LEMMA RenewedJob ==
  ASSUME TInv, Renewed, NEW r \in Runners, Working(r), NEW p, NEW l,
         pc' = [pc EXCEPT ![r] = p], loc' = [loc EXCEPT ![r] = l],
         UNCHANGED <<conf, torn, restore>>, fresh \subseteq fresh',
         p \in Rest => l.chunk = 0,
         p = "drop" => l.allVerified /\ ~conf.dryRun,
         ~torn /\ ~conf.dryRun => Passed(l, fresh'),
         ~torn /\ restore = "idle" => \A c \in Chunks : st'[c].phase \in Done => c \in fresh'
  PROVE  Renewed'
<1>1. pc' \in [Runners -> {p} \cup Pcs] /\ DOMAIN loc = Runners /\ DOMAIN pc = Runners
  BY DEF TInv, Jobs, JobTypes
<1>2. \A q \in Runners : pc'[q] = IF q = r THEN p ELSE pc[q] BY <1>1
<1>3. \A q \in Runners : loc'[q] = IF q = r THEN l ELSE loc[q] BY <1>1
<1>4. \A q \in Runners : pc'[q] \in Rest => loc'[q].chunk = 0 BY <1>2, <1>3 DEF Renewed
<1>5. \A q \in Runners : pc'[q] = "drop" => loc'[q].allVerified /\ ~conf.dryRun
  BY <1>2, <1>3 DEF Renewed
<1>6. ~(~torn /\ restore = "exchanged") BY DEF Renewed
<1>7. ASSUME ~torn, ~conf.dryRun, NEW q \in Runners PROVE Passed(loc'[q], fresh')
  <2>1. q # r => Passed(loc[q], fresh') BY <1>7, PassedIs DEF Renewed
  <2> QED BY <1>3, <1>7, <2>1
<1> QED BY <1>4, <1>5, <1>6, <1>7 DEF Renewed

LEMMA RenewedMove ==
  ASSUME TInv, Renewed, NEW r \in Runners, Working(r), NEW p, NEW l,
         pc' = [pc EXCEPT ![r] = p], loc' = [loc EXCEPT ![r] = l],
         UNCHANGED <<conf, torn, restore, fresh, st>>,
         p \in Rest => l.chunk = 0,
         p = "drop" => l.allVerified /\ ~conf.dryRun,
         ~torn /\ ~conf.dryRun => Passed(l, fresh)
  PROVE  Renewed'
<1>1. ~torn /\ restore = "idle" => \A c \in Chunks : st'[c].phase \in Done => c \in fresh'
  BY DEF Renewed
<1> QED BY <1>1, RenewedJob

LEMMA RenewedLeave ==
  ASSUME TInv, Renewed, NEW r \in Runners, Working(r), NEW p \in {"release", "idle"},
         pc' = [pc EXCEPT ![r] = p], loc' = [loc EXCEPT ![r] = Start],
         UNCHANGED <<conf, torn, restore, fresh, st>>
  PROVE  Renewed'
<1>1. Start.chunk = 0 BY DEF Start
<1> QED BY <1>1, PassedIs, RenewedMove

LEMMA RenewedInit == Init => Renewed
<1> SUFFICES ASSUME Init PROVE Renewed OBVIOUS
<1>1. /\ \A r \in Runners : loc[r].chunk = 0 /\ pc[r] = "idle"
      /\ \A c \in Chunks : st[c].phase = "none"
      /\ restore = "idle"
  BY DEF Init, Start, NoRow
<1> QED BY <1>1, PassedIs DEF Renewed, Done

LEMMA RenewedNext == TInv /\ Renewed /\ [Next]_vars => Renewed'
<1> SUFFICES ASSUME TInv, Renewed, [Next]_vars PROVE Renewed' OBVIOUS
<1> USE DEF oper, ghosts
<1>0. /\ \A r \in Runners : loc[r] \in Locals /\ loc[r].chunk \in Chunks
      /\ \A c \in Chunks : st[c] \in Rows
      /\ restore \in {"idle", "exchanged"}
      /\ loc \in [Runners -> Locals] /\ pc \in [Runners -> Pcs] /\ st \in [Chunks -> Rows]
  BY DEF TInv, JobTypes, RowTypes, OperTypes, Jobs, Locals
<1>1. ASSUME NEW r \in Runners, Working(r), NEW p \in {"release", "idle"},
             pc' = [pc EXCEPT ![r] = p], Set(r, Start),
             UNCHANGED <<conf, torn, restore, fresh, st>>
      PROVE  Renewed'
  BY <1>1, RenewedLeave DEF Set
<1>2. ASSUME NEW r \in Runners, Working(r) PROVE ~torn => restore = "idle"
  BY <1>0, <1>2 DEF Renewed
<1>3. ASSUME NEW r \in Runners, Working(r), NEW p, p \notin Rest, p # "drop", UNCHANGED loc,
             pc' = [pc EXCEPT ![r] = p], UNCHANGED <<conf, torn, restore, fresh, st>>
      PROVE  Renewed'
  <2>1. loc' = [loc EXCEPT ![r] = loc[r]] BY <1>0, <1>3
  <2>2. ~torn /\ ~conf.dryRun => Passed(loc[r], fresh) BY DEF Renewed
  <2> QED BY <1>3, <2>1, <2>2, RenewedMove
<1>4. ASSUME NEW r \in Runners, Begin(r) PROVE Renewed'
  <2>1. /\ pc[r] = "idle" /\ pc' = [pc EXCEPT ![r] = "select"]
        /\ torn' = (torn \/ restore = "exchanged")
        /\ UNCHANGED <<conf, st, loc, restore, fresh>>
    BY <1>4 DEF Begin, To
  <2>2. ~torn' => ~torn /\ restore # "exchanged" BY <2>1
  <2>3. \A q \in Runners : pc'[q] \in Rest => loc[q].chunk = 0
    BY <1>0, <2>1 DEF Renewed, Rest
  <2>4. \A q \in Runners : pc'[q] = "drop" => pc[q] = "drop" BY <1>0, <2>1
  <2> QED BY <2>1, <2>2, <2>3, <2>4 DEF Renewed
<1>5. ASSUME NEW r \in Runners, End(r) \/ Select(r) PROVE Renewed'
  <2>1. /\ pc[r] \in Rest /\ Working(r) /\ UNCHANGED <<conf, torn, restore, fresh, st, loc>>
        /\ \E p \in {"idle", "release", "load"} : pc' = [pc EXCEPT ![r] = p]
    BY <1>5 DEF End, Select, To, Rest, Working
  <2>2. loc[r].chunk = 0 /\ loc' = [loc EXCEPT ![r] = loc[r]] BY <1>0, <2>1 DEF Renewed
  <2> QED BY <2>1, <2>2, PassedIs, RenewedMove
<1>6. ASSUME NEW r \in Runners, Load(r) PROVE Renewed'
  <2> DEFINE l == loc[r]
             c == l.chunk
             s == st[c]
  <2>1. /\ pc[r] = "load" /\ Working(r) /\ UNCHANGED <<conf, torn, restore, fresh, st>>
    BY <1>6 DEF Load, Working
  <2>2. l \in Locals /\ c \in Chunks /\ s \in Rows BY <1>0
  <2>3. ~torn /\ ~conf.dryRun => Passed(l, fresh) BY DEF Renewed
  <2>4. "load" \notin Rest /\ "read" \notin Rest /\ "verify" \notin Rest BY DEF Rest
  <2>5. pc = [pc EXCEPT ![r] = "load"] BY <1>0, <2>1
  <2> HIDE DEF l, s
  <2>6. CASE Leave(r) BY <1>1, <2>1, <2>6 DEF Leave, To
  <2>7. CASE /\ s.phase = "verified" /\ UNCHANGED pc
             /\ Set(r, NextChunk([Count(l, s) EXCEPT !.age = VerifiedAge(l, s)]))
    <3> DEFINE m == NextChunk([Count(l, s) EXCEPT !.age = VerifiedAge(l, s)])
    <3>1. m.chunk = l.chunk + 1 /\ m.allVerified = l.allVerified
      BY <2>2 DEF NextChunk, Count, Locals
    <3>2. ~torn => l.chunk \in fresh
      BY <1>2, <2>1, <2>2, <2>7 DEF Renewed, Done, s
    <3>3. loc' = [loc EXCEPT ![r] = m] BY <2>7 DEF Set
    <3> HIDE DEF m
    <3>4. ~torn /\ ~conf.dryRun => Passed(m, fresh) BY <2>2, <2>3, <3>1, <3>2, PassedIs
    <3> QED BY <2>1, <2>4, <2>5, <2>7, <3>3, <3>4, RenewedMove
  <2>8. CASE conf.dryRun /\ Set(r, NextChunk([l EXCEPT !.cursor = s.high])) /\ UNCHANGED pc
    BY <2>1, <2>4, <2>5, <2>8, RenewedMove DEF Set
  <2>9. CASE Set(r, [Count(l, s) EXCEPT !.rows = s.sum]) /\ To(r, "verify")
    <3> DEFINE m == [Count(l, s) EXCEPT !.rows = s.sum]
    <3>1. m.chunk = l.chunk /\ m.allVerified = l.allVerified BY <2>2 DEF Count, Locals
    <3>2. loc' = [loc EXCEPT ![r] = m] BY <2>9 DEF Set
    <3> HIDE DEF m
    <3>3. ~torn /\ ~conf.dryRun => Passed(m, fresh) BY <2>3, <3>1 DEF Passed
    <3> QED BY <2>1, <2>4, <2>9, <3>2, <3>3, RenewedMove DEF To
  <2>10. CASE Set(r, [l EXCEPT !.seed = (s.phase = "none")]) /\ To(r, "read")
    <3> DEFINE m == [l EXCEPT !.seed = (s.phase = "none")]
    <3>1. m.chunk = l.chunk /\ m.allVerified = l.allVerified BY <2>2 DEF Locals
    <3>2. loc' = [loc EXCEPT ![r] = m] BY <2>10 DEF Set
    <3> HIDE DEF m
    <3>3. ~torn /\ ~conf.dryRun => Passed(m, fresh) BY <2>3, <3>1 DEF Passed
    <3> QED BY <2>1, <2>4, <2>10, <3>2, <3>3, RenewedMove DEF To
  <2> QED BY <1>6, <2>6, <2>7, <2>8, <2>9, <2>10 DEF Load, l, s
<1>7. ASSUME NEW r \in Runners, Read(r) PROVE Renewed'
  <2> DEFINE l == loc[r]
             rows == ReadChunk(l.cursor)
  <2>1. /\ pc[r] = "read" /\ Working(r) /\ UNCHANGED <<conf, torn, restore, fresh, st>>
    BY <1>7 DEF Read, Working
  <2>2. l \in Locals BY <1>0
  <2>3. ~torn /\ ~conf.dryRun => Passed(l, fresh) BY DEF Renewed
  <2>4. "load" \notin Rest /\ "count" \notin Rest /\ "data" \notin Rest BY DEF Rest
  <2> HIDE DEF l, rows
  <2>5. CASE Leave(r) BY <1>1, <2>1, <2>5 DEF Leave, To
  <2>6. CASE To(r, "count") /\ UNCHANGED loc BY <1>3, <2>1, <2>4, <2>6 DEF To
  <2>7. CASE conf.dryRun /\ Set(r, NextChunk([l EXCEPT !.cursor = Max(rows)])) /\ To(r, "load")
    BY <2>1, <2>4, <2>7, RenewedMove DEF Set, To
  <2>8. CASE Set(r, [l EXCEPT !.rows = rows]) /\ To(r, "data")
    <3> DEFINE m == [l EXCEPT !.rows = rows]
    <3>1. m.chunk = l.chunk /\ m.allVerified = l.allVerified BY <2>2 DEF Locals
    <3>2. loc' = [loc EXCEPT ![r] = m] BY <2>8 DEF Set
    <3> HIDE DEF m
    <3>3. ~torn /\ ~conf.dryRun => Passed(m, fresh) BY <2>3, <3>1 DEF Passed
    <3> QED BY <2>1, <2>4, <2>8, <3>2, <3>3, RenewedMove DEF To
  <2> QED BY <1>7, <2>5, <2>6, <2>7, <2>8 DEF Read, l, rows
<1>8. ASSUME NEW r \in Runners, WriteRows(r) \/ WriteMeta(r) PROVE Renewed'
  <2>1. /\ Working(r) /\ UNCHANGED <<conf, torn, restore, fresh, st, loc>>
        /\ \E p \in {"meta", "seed", "copied"} : pc' = [pc EXCEPT ![r] = p]
    BY <1>8 DEF WriteRows, WriteMeta, Working, To
  <2>2. \A p \in {"meta", "seed", "copied"} : p \notin Rest /\ p # "drop" BY DEF Rest
  <2> QED BY <1>3, <2>1, <2>2
<1>9. ASSUME NEW r \in Runners, Working(r), NEW p, NEW l, NEW s, NEW n \in Chunks,
             pc' = [pc EXCEPT ![r] = p], loc' = [loc EXCEPT ![r] = l],
             p \notin Rest, p # "drop", st' = [st EXCEPT ![n] = s], fresh \subseteq fresh',
             UNCHANGED <<conf, torn, restore>>,
             ~torn /\ ~conf.dryRun => Passed(l, fresh'),
             ~torn /\ s.phase \in Done => n \in fresh'
      PROVE  Renewed'
  <2>1. ASSUME ~torn, restore = "idle", NEW c \in Chunks, st'[c].phase \in Done
        PROVE  c \in fresh'
    <3>1. c # n => st'[c] = st[c] BY <1>0, <1>9
    <3>2. st'[n] = s BY <1>0, <1>9
    <3>3. c # n => c \in fresh BY <2>1, <3>1 DEF Renewed
    <3> QED BY <1>9, <2>1, <3>2, <3>3
  <2> QED BY <1>9, <2>1, RenewedJob
<1>10. ASSUME NEW r \in Runners, Seed(r) PROVE Renewed'
  <2> DEFINE rows == loc[r].rows
             s == [phase |-> "pending", high |-> Max(rows), rows |-> Cardinality(rows),
                   sum |-> rows, age |-> 0]
  <2>1. /\ Working(r) /\ UNCHANGED <<conf, torn, restore, fresh, loc>>
        /\ pc' = [pc EXCEPT ![r] = "copied"] /\ st' = [st EXCEPT ![loc[r].chunk] = s]
    BY <1>10 DEF Seed, Working, To
  <2>2. loc' = [loc EXCEPT ![r] = loc[r]] BY <1>0, <2>1
  <2>3. ~torn /\ ~conf.dryRun => Passed(loc[r], fresh) BY DEF Renewed
  <2>4. s.phase \notin Done /\ "copied" \notin Rest BY DEF Done, Rest
  <2> HIDE DEF s
  <2> QED BY <1>0, <1>9, <2>1, <2>2, <2>3, <2>4
<1>11. ASSUME NEW r \in Runners, Copy(r) PROVE Renewed'
  <2> DEFINE l == loc[r]
             m == [l EXCEPT !.archived = @ + Cardinality(l.rows), !.copiedAny = TRUE,
                            !.cursor = Max(l.rows)]
             s == [Advanced(l.chunk, "copied") EXCEPT !.sum = l.rows]
  <2>1. Working(r) /\ UNCHANGED <<conf, torn, restore, fresh>> BY <1>11 DEF Copy, Working
  <2>2. l \in Locals /\ l.chunk \in Chunks /\ st[l.chunk] \in Rows BY <1>0
  <2>3. CASE Leave(r) /\ UNCHANGED st BY <1>1, <2>1, <2>3 DEF Leave, To
  <2>4. CASE Set(r, m) /\ To(r, "verify") /\ st' = [st EXCEPT ![l.chunk] = s]
    <3>1. m.chunk = l.chunk /\ m.allVerified = l.allVerified BY <2>2 DEF Locals
    <3>2. s.phase = "copied" BY <2>2 DEF Advanced, Rows
    <3>3. ~torn /\ ~conf.dryRun => Passed(l, fresh) BY DEF Renewed
    <3>4. loc' = [loc EXCEPT ![r] = m] /\ pc' = [pc EXCEPT ![r] = "verify"]
      BY <2>4 DEF Set, To
    <3> HIDE DEF m, s
    <3>5. ~torn /\ ~conf.dryRun => Passed(m, fresh) BY <3>1, <3>3 DEF Passed
    <3>6. "verify" \notin Rest /\ s.phase \notin Done BY <3>2 DEF Rest, Done
    <3> QED BY <1>9, <2>1, <2>2, <2>4, <3>4, <3>5, <3>6
  <2> QED BY <1>11, <2>3, <2>4 DEF Copy
<1>12. ASSUME NEW r \in Runners, Verify(r) PROVE Renewed'
  <2> DEFINE l == loc[r]
             c == l.chunk
             m == NextChunk([l EXCEPT !.age = 0])
             k == NextChunk([l EXCEPT !.allVerified = FALSE])
             s == Advanced(c, "verified")
  <2>1. Working(r) /\ UNCHANGED <<conf, torn, restore>> BY <1>12 DEF Verify, Working
  <2>2. l \in Locals /\ c \in Chunks BY <1>0
  <2>3. "load" \notin Rest BY DEF Rest
  <2>4. CASE Leave(r) /\ UNCHANGED <<st, fresh>> BY <1>1, <2>1, <2>4 DEF Leave, To
  <2>5. CASE Set(r, k) /\ To(r, "load") /\ UNCHANGED <<st, fresh>>
    <3>1. k.allVerified = FALSE BY <2>2 DEF NextChunk, Locals
    <3> HIDE DEF k
    <3>2. Passed(k, fresh) BY <3>1 DEF Passed
    <3> QED BY <2>1, <2>3, <2>5, <3>2, RenewedMove DEF Set, To
  <2>6. CASE /\ Set(r, m) /\ To(r, "load") /\ fresh' = fresh \cup {c}
             /\ st' = [st EXCEPT ![c] = s]
    <3>1. m.chunk = c + 1 /\ m.allVerified = l.allVerified BY <2>2 DEF NextChunk, Locals
    <3>2. ~torn /\ ~conf.dryRun => Passed(l, fresh') BY <2>6, PassedIs DEF Renewed
    <3>3. loc' = [loc EXCEPT ![r] = m] /\ pc' = [pc EXCEPT ![r] = "load"] BY <2>6 DEF Set, To
    <3> HIDE DEF m, s, l
    <3>4. c \in fresh' BY <2>6
    <3>5. ~torn /\ ~conf.dryRun => Passed(m, fresh') BY <2>2, <3>1, <3>2, <3>4, PassedIs
    <3> QED BY <1>9, <2>1, <2>2, <2>3, <2>6, <3>3, <3>4, <3>5
  <2> QED BY <1>12, <2>4, <2>5, <2>6 DEF Verify
<1>13. ASSUME NEW r \in Runners, CountRows(r) PROVE Renewed'
  <2> DEFINE l == loc[r]
             m == [l EXCEPT !.rows = hot]
  <2>1. Working(r) /\ UNCHANGED <<conf, torn, restore, fresh, st>> BY <1>13 DEF CountRows, Working
  <2>2. l \in Locals BY <1>0
  <2>3. CASE Leave(r) BY <1>1, <2>1, <2>3 DEF Leave, To
  <2>4. CASE Droppable(l) /\ To(r, "drop") /\ Set(r, m)
    <3>1. m.chunk = l.chunk /\ m.allVerified = l.allVerified BY <2>2 DEF Locals
    <3>2. l.allVerified /\ ~conf.dryRun BY <2>4 DEF Droppable
    <3>3. ~torn /\ ~conf.dryRun => Passed(l, fresh) BY DEF Renewed
    <3>4. loc' = [loc EXCEPT ![r] = m] /\ pc' = [pc EXCEPT ![r] = "drop"] BY <2>4 DEF Set, To
    <3> HIDE DEF m
    <3>5. ~torn /\ ~conf.dryRun => Passed(m, fresh) BY <3>1, <3>3 DEF Passed
    <3>6. "drop" \notin Rest BY DEF Rest
    <3> QED BY <2>1, <3>1, <3>2, <3>4, <3>5, <3>6, RenewedMove
  <2> QED BY <1>13, <2>3, <2>4 DEF CountRows
<1>14. ASSUME NEW r \in Runners, Drop(r) PROVE Renewed'
  <2>1. Working(r) /\ UNCHANGED <<conf, torn, restore, fresh, st>> BY <1>14 DEF Drop, Working
  <2>2. CASE Leave(r) BY <1>1, <2>1, <2>2 DEF Leave, To
  <2>3. CASE To(r, "mark") /\ UNCHANGED loc BY <1>3, <2>1, <2>3 DEF To, Rest
  <2> QED BY <1>14, <2>2, <2>3 DEF Drop
<1>15. ASSUME NEW r \in Runners, Mark(r) PROVE Renewed'
  <2> DEFINE l == loc[r]
             n == l.mark
             m == [l EXCEPT !.mark = n + 1]
             s == Advanced(n, "dropped")
  <2>1. pc[r] = "mark" /\ Working(r) /\ UNCHANGED <<conf, torn, restore, fresh>>
    BY <1>15 DEF Mark, Working
  <2>2. l \in Locals /\ n \in Chunks BY <1>0 DEF Locals
  <2>3. CASE Leave(r) /\ UNCHANGED st BY <1>1, <2>1, <2>3 DEF Leave, To
  <2>4. CASE /\ CanAdvance(n, "dropped") /\ st' = [st EXCEPT ![n] = s]
             /\ Set(r, m) /\ UNCHANGED pc
    <3>1. m.chunk = l.chunk /\ m.allVerified = l.allVerified BY <2>2 DEF Locals
    <3>2. st[n].phase = "verified" BY <2>4 DEF CanAdvance, Predecessor
    <3>3. ~torn => n \in fresh BY <1>2, <2>1, <2>2, <3>2 DEF Renewed, Done
    <3>4. ~torn /\ ~conf.dryRun => Passed(l, fresh) BY DEF Renewed
    <3>5. loc' = [loc EXCEPT ![r] = m] /\ pc' = [pc EXCEPT ![r] = "mark"]
      BY <1>0, <2>1, <2>4 DEF Set
    <3> HIDE DEF m, s
    <3>6. ~torn /\ ~conf.dryRun => Passed(m, fresh) BY <3>1, <3>4 DEF Passed
    <3>7. "mark" \notin Rest BY DEF Rest
    <3> QED BY <1>9, <2>1, <2>2, <2>4, <3>3, <3>5, <3>6, <3>7
  <2> QED BY <1>15, <2>3, <2>4 DEF Mark
<1>16. ASSUME NEW r \in Runners, Budget(r) \/ Fail(r) \/ Crash(r) PROVE Renewed'
  <2>1. /\ Working(r) /\ UNCHANGED <<conf, torn, restore, fresh, st>> /\ Set(r, Start)
        /\ \E p \in {"release", "idle"} : pc' = [pc EXCEPT ![r] = p]
    BY <1>16 DEF Budget, Fail, Crash, Leave, To, Working
  <2> QED BY <1>1, <2>1
<1>17. CASE Exchange
  <2>1. /\ restore' = "exchanged" /\ torn' = (torn \/ \E r \in Runners : Working(r))
        /\ fresh' = {} /\ UNCHANGED <<conf, st, pc, loc>>
    BY <1>17 DEF Exchange
  <2>2. ~torn' => \A r \in Runners : ~Working(r) BY <2>1
  <2>3. ~torn' => \A r \in Runners : loc[r].chunk = 0 BY <2>2 DEF Renewed, Working, Rest
  <2>4. ~torn' => \A r \in Runners : Passed(loc[r], fresh') BY <2>3, PassedIs
  <2>5. (\A r \in Runners : ~Working(r)) => (\A r \in Runners : ~Working(r))'
    BY <2>1 DEF Working
  <2> QED BY <2>1, <2>2, <2>4, <2>5 DEF Renewed
<1>18. CASE Reset
  <2>1. /\ restore' = "idle" /\ st' = [c \in Chunks |-> NoRow]
        /\ UNCHANGED <<conf, pc, loc, fresh, torn>>
    BY <1>18 DEF Reset, ResetPartition
  <2>2. \A c \in Chunks : st'[c].phase \notin Done BY <2>1 DEF NoRow, Done
  <2> QED BY <2>1, <2>2 DEF Renewed
<1>19. CASE RestoreDies
  <2>1. torn' /\ UNCHANGED <<conf, pc, loc>> BY <1>19 DEF RestoreDies
  <2> QED BY <2>1 DEF Renewed
<1>20. CASE Day
  <2>1. st' = Aged /\ UNCHANGED <<conf, pc, restore, torn, fresh>> BY <1>20 DEF Day
  <2>2. \A c \in Chunks : st'[c].phase = st[c].phase BY <1>0, <2>1 DEF Aged, Rows
  <2>3. ASSUME NEW r \in Runners
        PROVE  loc'[r].chunk = loc[r].chunk /\ loc'[r].allVerified = loc[r].allVerified
    <3> DEFINE l == loc[r]
               a == [l EXCEPT !.age = Older(l.age)]
    <3>1. a.chunk = l.chunk /\ a.allVerified = l.allVerified BY <1>0 DEF Locals
    <3>2. loc'[r] = l \/ loc'[r] = a BY <1>20 DEF Day
    <3> QED BY <3>1, <3>2
  <2>4. \A r \in Runners : Passed(loc[r], fresh) => Passed(loc'[r], fresh) BY <2>3 DEF Passed
  <2>5. (\A r \in Runners : ~Working(r)) => (\A r \in Runners : ~Working(r))'
    BY <2>1 DEF Working
  <2> QED BY <2>1, <2>2, <2>3, <2>4, <2>5 DEF Renewed
<1>21. ASSUME UNCHANGED <<conf, pc, loc, st, restore, torn, fresh>> PROVE Renewed'
  BY <1>21 DEF Renewed, Working
<1>22. ASSUME NEW r \in Runners, BeginLost(r) PROVE Renewed' BY <1>21, <1>22 DEF BeginLost
<1>23. ASSUME NEW i \in Ids, Insert(i) PROVE Renewed' BY <1>21, <1>23 DEF Insert
<1>24. CASE Lapse \/ Age \/ UNCHANGED vars BY <1>21, <1>24 DEF Lapse, Age, vars
<1> HIDE DEF oper, ghosts
<1> QED BY <1>4, <1>5, <1>6, <1>7, <1>8, <1>10, <1>11, <1>12, <1>13, <1>14, <1>15, <1>16,
           <1>17, <1>18, <1>19, <1>20, <1>22, <1>23, <1>24 DEF Next, Step

(* Restored rows are dropped again only after every chunk of the walk was  *)
(* verified anew (partition.rs:168-171, state.rs:311-315): a stop between  *)
(* DROP PARTITION and the last advance leaves no verified row that         *)
(* survives the restore.                                                   *)
THEOREM RestoredIsVerifiedAgainHolds == Spec /\ []Walks => []RestoredIsVerifiedAgain
<1>1. Renewed => RestoredIsVerifiedAgain BY DEF Renewed, RestoredIsVerifiedAgain, Passed
<1> QED BY <1>1, RenewedInit, RenewedNext, TInit, TNext, PTL DEF Spec

-----------------------------------------------------------------------------
(* What a dropping job counted is in the cold tier. The count of the walk  *)
(* (archived) adds up the rows of the state rows and of the chunks copied; *)
(* a sum says nothing of which rows, so the invariant bounds it: t[c] is   *)
(* what the state rows of the chunks before c count together, and as long  *)
(* as the objects of those chunks are the ones their rows were taken over, *)
(* t[c] is at most the number of archived rows up to the cursor. A         *)
(* partition counted with as many rows as that has no row outside the cold *)
(* tier.                                                                   *)

(* The rows of U up to k.                                                  *)
Below(U, k) == Cardinality({i \in U : i <= k})

(* R has the lowest rows of U above k.                                     *)
Lowest(R, U, k) ==
  \A x \in U : x > k => x \in R \/ (Cardinality(R) = Batch /\ \A y \in R : x > y)

LEMMA NatIds == \A i \in {0} \cup Ids : i \in Nat
<1>1. Ids \subseteq Nat BY RowsAssumption
<1> QED BY <1>1

LEMMA BelowIs ==
  ASSUME NEW U \in SUBSET Ids, NEW k
  PROVE  /\ Below(U, k) \in Nat /\ Below(U, k) <= Cardinality(U)
         /\ \A V \in SUBSET Ids : U \subseteq V => Below(U, k) <= Below(V, k)
         /\ (\A x \in U : x <= k) => Below(U, k) = Cardinality(U)
<1>1. {i \in U : i <= k} \in SUBSET U /\ {i \in U : i <= k} \in SUBSET Ids OBVIOUS
<1>2. Below(U, k) \in Nat BY <1>1, IdsFinite DEF Below
<1>3. Below(U, k) <= Cardinality(U) BY <1>1, IdsFinite, FS_Subset DEF Below
<1>4. ASSUME NEW V \in SUBSET Ids, U \subseteq V PROVE Below(U, k) <= Below(V, k)
  <2> DEFINE A == {i \in U : i <= k}
             B == {i \in V : i <= k}
  <2>1. A \in SUBSET B /\ B \in SUBSET Ids BY <1>4
  <2> HIDE DEF A, B
  <2>2. Cardinality(A) <= Cardinality(B) BY <2>1, IdsFinite, FS_Subset
  <2> QED BY <2>2 DEF A, B, Below
<1>5. ASSUME \A x \in U : x <= k PROVE Below(U, k) = Cardinality(U)
  <2>1. {i \in U : i <= k} = U BY <1>5
  <2> QED BY <2>1 DEF Below
<1> QED BY <1>2, <1>3, <1>4, <1>5

(* What a chunk read above k adds.                                         *)
LEMMA BelowAdds ==
  ASSUME NEW U \in SUBSET Ids, NEW R \in SUBSET U, R # {}, NEW k \in Nat, \A x \in R : x > k
  PROVE  Below(U, k) + Cardinality(R) <= Below(U, Max(R))
<1> DEFINE A == {i \in U : i <= k}
           B == {i \in U : i <= Max(R)}
<1>1. R \in SUBSET Nat /\ IsFiniteSet(R) /\ A \in SUBSET Ids /\ B \in SUBSET Ids
  BY IdsFinite
<1>2. Max(R) \in R /\ \A y \in R : y <= Max(R) BY <1>1, MaxIs
<1>3. Max(R) \in Nat /\ Max(R) > k /\ U \in SUBSET Nat BY <1>1, <1>2, IdsFinite
<1>4. A \cup R \in SUBSET B
  <2>1. \A i \in U : i <= k => i <= Max(R) BY <1>3
  <2> QED BY <1>2, <2>1
<1>5. A \cap R = {}
  <2>1. \A x \in R : ~(x <= k) BY <1>1
  <2> QED BY <2>1
<1> HIDE DEF A, B
<1>6. IsFiniteSet(A) /\ IsFiniteSet(B) /\ Cardinality(A) \in Nat /\ Cardinality(B) \in Nat
      /\ Cardinality(R) \in Nat
  BY <1>1, IdsFinite
<1>7. Cardinality(A \cup R) = Cardinality(A) + Cardinality(R) - Cardinality({})
  BY <1>1, <1>5, <1>6, FS_Union
<1>8. Cardinality({}) = 0 BY FS_EmptySet
<1>9. Cardinality(A \cup R) <= Cardinality(B) BY <1>4, <1>6, FS_Subset
<1>10. Cardinality(A) + Cardinality(R) <= Cardinality(B) BY <1>6, <1>7, <1>8, <1>9
<1> QED BY <1>10 DEF A, B, Below

(* A read chunk has at most batch_size rows, the lowest ones.              *)
LEMMA FirstLowest ==
  ASSUME NEW S \in SUBSET Ids
  PROVE  /\ Cardinality(First(S)) <= Batch
         /\ \A x \in S : x \in First(S)
                         \/ (Cardinality(First(S)) = Batch /\ \A y \in First(S) : x > y)
<1> DEFINE F == First(S)
<1>1. F \subseteq S /\ \A i \in F, j \in S : j <= i => j \in F BY FirstIs
<1>2. F \in SUBSET Ids /\ S \in SUBSET Nat /\ F \in SUBSET Nat /\ IsFiniteSet(F) BY <1>1, IdsFinite
<1>3. Cardinality(F) \in Nat /\ Batch \in Nat \ {0} BY <1>2, IdsFinite, BoundsAssumption
<1>4. \A i \in S : i \in F <=> Cardinality({j \in S : j < i}) < Batch BY DEF First
<1> HIDE DEF F
<1>5. Cardinality(F) <= Batch
  <2>1. CASE F = {} BY <1>3, <2>1, FS_EmptySet
  <2>2. CASE F # {}
    <3> DEFINE m == Max(F)
    <3>1. m \in F /\ \A y \in F : y <= m BY <1>2, <2>2, MaxIs
    <3> HIDE DEF m
    <3> DEFINE L == {j \in S : j < m}
    <3>2. Cardinality(L) < Batch BY <1>1, <1>4, <3>1
    <3>3. L \in SUBSET Ids OBVIOUS
    <3>4. F \in SUBSET (L \cup {m})
      <4>1. \A y \in F : y \in S /\ (y < m \/ y = m) BY <1>1, <1>2, <3>1
      <4> QED BY <4>1
    <3>5. m \notin L BY <1>2, <3>1
    <3> HIDE DEF L
    <3>6. IsFiniteSet(L) /\ Cardinality(L) \in Nat BY <3>3, IdsFinite
    <3>7. IsFiniteSet(L \cup {m}) /\ Cardinality(L \cup {m}) = Cardinality(L) + 1
      BY <3>5, <3>6, FS_AddElement
    <3>8. Cardinality(F) <= Cardinality(L \cup {m}) BY <3>4, <3>7, FS_Subset
    <3> QED BY <1>3, <3>2, <3>6, <3>7, <3>8
  <2> QED BY <2>1, <2>2
<1>6. ASSUME NEW x \in S, x \notin F
      PROVE  Cardinality(F) = Batch /\ \A y \in F : x > y
  <2> DEFINE N == S \ F
  <2>1. N \in SUBSET Nat /\ N # {} BY <1>2, <1>6
  <2> HIDE DEF N
  <2>2. PICK m \in N : \A y \in N : m <= y BY <2>1, LeastIs
  <2> DEFINE L == {j \in S : j < m}
  <2>3. m \in S /\ m \notin F BY DEF N
  <2>4. ~(Cardinality(L) < Batch) BY <1>4, <2>3
  <2>5. L \in SUBSET F
    <3>1. \A j \in S : j < m => ~(m <= j) BY <1>2, <2>3
    <3>2. \A j \in S : j < m => j \notin N BY <2>2, <3>1
    <3> QED BY <3>2 DEF N
  <2>6. L \in SUBSET Ids OBVIOUS
  <2> HIDE DEF L
  <2>7. Cardinality(L) <= Cardinality(F) BY <1>2, <2>5, FS_Subset
  <2>8. Cardinality(L) \in Nat BY <2>6, IdsFinite
  <2>9. Cardinality(F) = Batch BY <1>3, <1>5, <2>4, <2>7, <2>8
  <2>10. \A y \in F : ~(x <= y) BY <1>1, <1>6
  <2>11. \A y \in F : x > y BY <1>2, <2>10
  <2> QED BY <2>9, <2>11
<1> QED BY <1>5, <1>6 DEF F

(* Two reads above the same row, the first from a part of the partition    *)
(* that had R, the second from one that had S: if neither found a lower    *)
(* row outside of the other, they are the same.                            *)
LEMMA SameRead ==
  ASSUME NEW S \in SUBSET Ids, NEW R \in SUBSET Ids, S # {}, NEW k \in Nat,
         Cardinality(S) <= Batch, Cardinality(R) <= Batch,
         \A x \in R : x > k, \A x \in S : x > k,
         Lowest(S, R, k), Lowest(R, S, k)
  PROVE  R = S
<1>1. /\ S \in SUBSET Nat /\ R \in SUBSET Nat /\ IsFiniteSet(S) /\ IsFiniteSet(R)
      /\ Cardinality(S) \in Nat /\ Cardinality(R) \in Nat /\ Batch \in Nat
  BY IdsFinite, BoundsAssumption
<1>2. \A x \in R : x \in S \/ (Cardinality(S) = Batch /\ \A y \in S : x > y) BY DEF Lowest
<1>3. \A x \in S : x \in R \/ (Cardinality(R) = Batch /\ \A y \in R : x > y) BY DEF Lowest
<1>4. ASSUME NEW x \in R, x \notin S PROVE FALSE
  <2>1. Cardinality(S) = Batch /\ \A y \in S : x > y BY <1>2, <1>4
  <2>2. \A y \in S : ~(y > x) BY <1>1, <2>1
  <2>3. S \in SUBSET R BY <1>3, <2>2
  <2>4. Cardinality(S) <= Cardinality(R) BY <1>1, <2>3, FS_Subset
  <2>5. Cardinality(R) = Cardinality(S) BY <1>1, <2>1, <2>4
  <2>6. R = S BY <1>1, <2>3, <2>5, FS_Subset
  <2> QED BY <1>4, <2>6
<1>5. R \in SUBSET S BY <1>4
<1>6. ASSUME NEW x \in S, x \notin R PROVE FALSE
  <2>1. Cardinality(R) = Batch BY <1>3, <1>6
  <2>2. Cardinality(R) <= Cardinality(S) BY <1>1, <1>5, FS_Subset
  <2>3. Cardinality(S) = Cardinality(R) BY <1>1, <2>1, <2>2
  <2>4. R = S BY <1>1, <1>5, <2>3, FS_Subset
  <2> QED BY <1>6, <2>4
<1> QED BY <1>5, <1>6

(* A chunk without a row, or with one that is not copied yet.              *)
Open == {"none", "pending"}

(* The S3 object of chunk i is the one that its state row was taken over.  *)
Whole(z, s, o, i) == z = "s3" => o[i] = s[i].sum
(* The objects before chunk c are whole; the rows before c are not open.   *)
Sound(z, s, o, c) == \A i \in Chunks : i < c => Whole(z, s, o, i)
Behind(s, c) == \A i \in Chunks : i < c => s[i].phase \notin Open
(* Where the walk reads on at chunk c: the high id of the row before it.   *)
High(s, c) == IF c = 0 THEN 0 ELSE s[c - 1].high

(* A Pending row taken over S, and the object X found under its key: no    *)
(* row of X above k is lower than the chunk's unless it is in it.          *)
Seeded(S, n, m, X, k) ==
  /\ S # {} /\ n = Cardinality(S) /\ m = Max(S)
  /\ \A x \in S : x > k
  /\ Lowest(S, X, k)

(* The row of chunk c, for the sink z, the state rows s, the objects o,    *)
(* the archived rows U and the partition h: what it adds to the running    *)
(* total t, that its rows are archived when the object is whole, and what  *)
(* a later job finds when it reads a Pending chunk again.                  *)
RowFits(z, s, o, U, h, t, c) ==
  /\ Behind(s, c)
  /\ t[c + 1] = t[c] + s[c].rows
  /\ Sound(z, s, o, c + 1) => t[c + 1] <= Below(U, s[c].high)
  /\ z = "s3" => o[c] # {}
  /\ z = "s3" /\ s[c].phase = "verified" => o[c] = s[c].sum
  /\ s[c].phase = "pending" =>
       /\ s[c].rows <= Batch /\ s[c].sum \subseteq h
       /\ z = "s3" /\ Sound(z, s, o, c) =>
            Seeded(s[c].sum, s[c].rows, s[c].high, o[c], High(s, c))

(* The total before chunk c is covered by the archived rows up to k.       *)
Covers(z, s, o, U, t, c, k) ==
  Sound(z, s, o, c) => t[c] <= Below(U, k) /\ (z = "s3" => k = High(s, c))

OnWay == {"load", "read", "data", "meta", "seed", "copied"}
Unseeded == {"read", "data", "meta", "seed"}

(* A job at its chunk: what it has counted is archived while every chunk   *)
(* it passed was found verified. The conjuncts below say what holds in     *)
(* addition once it has read the chunk, once it has written it, and when   *)
(* it verifies one that was copied.                                        *)
WayFits(z, s, o, U, t, l) ==
  /\ Behind(s, l.chunk)
  /\ Covers(z, s, o, U, t, l.chunk, l.cursor)
  /\ l.allVerified => Sound(z, s, o, l.chunk) /\ l.archived <= Below(U, l.cursor)

ReadFits(s, U, h, l) ==
  /\ l.rows \subseteq h /\ Cardinality(l.rows) <= Batch
  /\ \A x \in l.rows : x > l.cursor
  /\ Lowest(l.rows, U, l.cursor)
  /\ s[l.chunk].phase = "pending" => Lowest(l.rows, s[l.chunk].sum, l.cursor)

WriteFits(z, o, U, l) ==
  /\ z = "s3" => o[l.chunk] # {}
  /\ z = "clickhouse" => l.rows \subseteq U

VerifyFits(z, s, o, U, t, l) ==
  /\ s[l.chunk].phase = "copied" /\ l.rows = s[l.chunk].sum /\ Behind(s, l.chunk)
  /\ Covers(z, s, o, U, t, l.chunk + 1, l.cursor)
  /\ l.allVerified => Sound(z, s, o, l.chunk)
  /\ l.allVerified /\ Whole(z, s, o, l.chunk) => l.archived <= Below(U, l.cursor)
  /\ l.chunk + 1 \in Chunks /\ s[l.chunk + 1].phase # "none" => l.archived <= t[l.chunk + 1]

(* The job at p with the variables l.                                      *)
JobFits(z, s, o, U, h, t, p, l) ==
  /\ p \in OnWay => WayFits(z, s, o, U, t, l)
  /\ p = "load" /\ s[l.chunk].phase # "none" => l.archived <= t[l.chunk]
  /\ p \in Unseeded /\ l.seed => s[l.chunk].phase = "none"
  /\ p = "seed" => l.seed
  /\ p \in Full => ReadFits(s, U, h, l)
  /\ p \in Full \ {"data"} => WriteFits(z, o, U, l)
  /\ p = "verify" => VerifyFits(z, s, o, U, t, l)
  /\ p = "count" => (l.allVerified => l.archived <= Below(U, l.cursor))
  /\ p # "mark"

(* Every state row fits the running total t.                               *)
Rowwise(z, s, o, U, h, t) ==
  /\ t \in [Nat -> Nat] /\ t[0] = 0
  /\ \A c \in Chunks : s[c].phase # "none" => RowFits(z, s, o, U, h, t, c)

LEMMA NoJob ==
  ASSUME NEW z, NEW s, NEW o, NEW U, NEW h, NEW t, NEW l,
         NEW p \in {"idle", "release", "select", "drop"}
  PROVE  JobFits(z, s, o, U, h, t, p, l)
BY DEF JobFits, OnWay, Unseeded, Full

LEMMA SoundIs ==
  ASSUME NEW z, NEW s, NEW o, NEW c \in Chunks
  PROVE  /\ Sound(z, s, o, c + 1) <=> Sound(z, s, o, c) /\ Whole(z, s, o, c)
         /\ Sound(z, s, o, 0)
         /\ Behind(s, c + 1) <=> Behind(s, c) /\ s[c].phase \notin Open
         /\ Behind(s, 0)
         /\ c + 1 \in Nat /\ c \in Nat /\ c + 1 # 0 /\ (c + 1) - 1 = c
         /\ High(s, c + 1) = s[c].high
         /\ High(s, 0) = 0
         /\ z # "s3" => Sound(z, s, o, c) /\ Sound(z, s, o, c + 1)
<1>1. c \in Nat /\ \A i \in Chunks : i \in Nat BY NatChunks
<1>2. c + 1 \in Nat /\ c + 1 # 0 /\ (c + 1) - 1 = c BY <1>1
<1>3. \A i \in Chunks : (i < c + 1 <=> i < c \/ i = c) /\ ~(i < 0) BY <1>1
<1>4. High(s, c + 1) = s[c].high BY <1>2 DEF High
<1>5. Sound(z, s, o, c + 1) <=> Sound(z, s, o, c) /\ Whole(z, s, o, c)
  BY <1>3 DEF Sound
<1>6. Behind(s, c + 1) <=> Behind(s, c) /\ s[c].phase \notin Open BY <1>3 DEF Behind
<1>7. Sound(z, s, o, 0) /\ Behind(s, 0) BY <1>3 DEF Sound, Behind
<1>8. z # "s3" => Sound(z, s, o, c) /\ Sound(z, s, o, c + 1) BY DEF Sound, Whole
<1> QED BY <1>1, <1>2, <1>4, <1>5, <1>6, <1>7, <1>8 DEF High

(* State rows and objects that agree below c.                              *)
Agree(s, s2, o, o2, c) == \A i \in Chunks : i < c => s2[i] = s[i] /\ o2[i] = o[i]

LEMMA AgreeIs ==
  ASSUME NEW z, NEW s, NEW s2, NEW o, NEW o2, NEW c \in Nat, c \in Chunks \/ c - 1 \in Chunks,
         Agree(s, s2, o, o2, c)
  PROVE  /\ Sound(z, s2, o2, c) <=> Sound(z, s, o, c)
         /\ Behind(s2, c) <=> Behind(s, c)
         /\ High(s2, c) = High(s, c)
<1>1. Sound(z, s2, o2, c) <=> Sound(z, s, o, c) BY DEF Agree, Sound, Whole
<1>2. Behind(s2, c) <=> Behind(s, c) BY DEF Agree, Behind
<1>3. c # 0 => c - 1 \in Chunks /\ c - 1 < c
  <2>1. ASSUME c \in Chunks, c # 0 PROVE c - 1 \in Chunks
    <3>1. c - 1 \in Nat /\ c - 1 < c BY <2>1
    <3> QED BY <2>1, <3>1, NatChunks
  <2> QED BY <2>1
<1>4. High(s2, c) = High(s, c) BY <1>3 DEF High, Agree
<1> QED BY <1>1, <1>2, <1>4

LEMMA RowBelow ==
  ASSUME NEW z, NEW s, NEW s2, NEW o, NEW o2, NEW U \in SUBSET Ids, NEW U2 \in SUBSET Ids,
         NEW h, NEW h2, NEW t, NEW t2, NEW i \in Chunks,
         Agree(s, s2, o, o2, i + 1), s \in [Chunks -> Rows],
         t \in [Nat -> Nat],
         t2[i] = t[i], t2[i + 1] = t[i + 1], U \subseteq U2, h \subseteq h2,
         RowFits(z, s, o, U, h, t, i)
  PROVE  RowFits(z, s2, o2, U2, h2, t2, i)
<1>1. i \in Nat /\ i + 1 \in Nat /\ (i + 1) - 1 = i /\ i < i + 1
  <2>1. i \in Nat BY NatChunks
  <2> QED BY <2>1
<1>2. s2[i] = s[i] /\ o2[i] = o[i] BY <1>1 DEF Agree
<1>3. Agree(s, s2, o, o2, i)
  <2>1. \A j \in Chunks : j < i => j < i + 1 BY NatChunks
  <2> QED BY <2>1 DEF Agree
<1>4. /\ Sound(z, s2, o2, i) <=> Sound(z, s, o, i)
      /\ Behind(s2, i) <=> Behind(s, i)
      /\ High(s2, i) = High(s, i)
  BY <1>1, <1>3, AgreeIs
<1>5. Sound(z, s2, o2, i + 1) <=> Sound(z, s, o, i + 1) BY <1>1, AgreeIs
<1>6. s[i].high \in Nat BY RowsFields, RowsAssumption
<1>7. /\ Below(U, s[i].high) <= Below(U2, s[i].high)
      /\ Below(U, s[i].high) \in Nat /\ Below(U2, s[i].high) \in Nat
  BY BelowIs
<1>8. t[i + 1] \in Nat BY <1>1
<1>9. Sound(z, s, o, i + 1) => t[i + 1] <= Below(U2, s[i].high)
  <2>1. Sound(z, s, o, i + 1) => t[i + 1] <= Below(U, s[i].high) BY DEF RowFits
  <2> QED BY <1>7, <1>8, <2>1
<1>10. t2[i + 1] = t2[i] + s2[i].rows BY <1>2 DEF RowFits
<1>11. Sound(z, s2, o2, i + 1) => t2[i + 1] <= Below(U2, s2[i].high) BY <1>2, <1>5, <1>9
<1>12. Behind(s2, i) BY <1>4 DEF RowFits
<1>13. /\ z = "s3" => o2[i] # {}
       /\ z = "s3" /\ s2[i].phase = "verified" => o2[i] = s2[i].sum
  BY <1>2 DEF RowFits
<1>14. s2[i].phase = "pending" =>
         /\ s2[i].rows <= Batch /\ s2[i].sum \subseteq h2
         /\ z = "s3" /\ Sound(z, s2, o2, i) =>
              Seeded(s2[i].sum, s2[i].rows, s2[i].high, o2[i], High(s2, i))
  BY <1>2, <1>4 DEF RowFits
<1> QED BY <1>10, <1>11, <1>12, <1>13, <1>14 DEF RowFits

(* Rows that differ in their age only, or in having been verified.         *)
Alike(z, s, s2, o) == \A i \in Chunks :
  /\ s2[i].sum = s[i].sum /\ s2[i].high = s[i].high /\ s2[i].rows = s[i].rows
  /\ s2[i].phase = s[i].phase
       \/ (s[i].phase = "copied" /\ s2[i].phase = "verified" /\ Whole(z, s, o, i))

LEMMA AlikeIs ==
  ASSUME NEW z, NEW s, NEW s2, NEW o, Alike(z, s, s2, o),
         NEW c \in Nat, c \in Chunks \/ c - 1 \in Chunks
  PROVE  /\ Sound(z, s2, o, c) <=> Sound(z, s, o, c)
         /\ Behind(s2, c) <=> Behind(s, c)
         /\ High(s2, c) = High(s, c)
<1>1. Sound(z, s2, o, c) <=> Sound(z, s, o, c) BY DEF Alike, Sound, Whole
<1>2. Behind(s2, c) <=> Behind(s, c) BY DEF Alike, Behind, Open
<1>3. c # 0 => c - 1 \in Chunks
  <2>1. ASSUME c \in Chunks, c # 0 PROVE c - 1 \in Chunks
    <3>1. c - 1 \in Nat /\ c - 1 < c BY <2>1
    <3> QED BY <2>1, <3>1, NatChunks
  <2> QED BY <2>1
<1>4. High(s2, c) = High(s, c) BY <1>3 DEF High, Alike
<1> QED BY <1>1, <1>2, <1>4

LEMMA RowsAlike ==
  ASSUME NEW z, NEW s, NEW s2, NEW o, NEW U, NEW h, NEW t,
         Alike(z, s, s2, o), Rowwise(z, s, o, U, h, t)
  PROVE  Rowwise(z, s2, o, U, h, t)
<1>1. ASSUME NEW c \in Chunks, s2[c].phase # "none" PROVE RowFits(z, s2, o, U, h, t, c)
  <2>1. c \in Nat /\ c + 1 \in Nat /\ (c + 1) - 1 = c BY SoundIs
  <2>2. /\ s2[c].sum = s[c].sum /\ s2[c].high = s[c].high /\ s2[c].rows = s[c].rows
        /\ s2[c].phase = s[c].phase
             \/ (s[c].phase = "copied" /\ s2[c].phase = "verified" /\ Whole(z, s, o, c))
    BY DEF Alike
  <2>3. RowFits(z, s, o, U, h, t, c) BY <1>1, <2>2 DEF Rowwise
  <2>4. /\ Sound(z, s2, o, c) <=> Sound(z, s, o, c)
        /\ Behind(s2, c) <=> Behind(s, c)
        /\ High(s2, c) = High(s, c)
    BY <2>1, AlikeIs
  <2>5. Sound(z, s2, o, c + 1) <=> Sound(z, s, o, c + 1) BY <2>1, AlikeIs
  <2>6. z = "s3" /\ s2[c].phase = "verified" => o[c] = s[c].sum
    BY <2>2, <2>3 DEF RowFits, Whole
  <2>7. s2[c].phase = "pending" => s[c].phase = "pending" BY <2>2
  <2>8. t[c + 1] = t[c] + s2[c].rows /\ Behind(s2, c) /\ (z = "s3" => o[c] # {})
    BY <2>2, <2>3, <2>4 DEF RowFits
  <2>9. Sound(z, s2, o, c + 1) => t[c + 1] <= Below(U, s2[c].high)
    BY <2>2, <2>3, <2>5 DEF RowFits
  <2>10. z = "s3" /\ s2[c].phase = "verified" => o[c] = s2[c].sum BY <2>2, <2>6
  <2>11. s2[c].phase = "pending" =>
           /\ s2[c].rows <= Batch /\ s2[c].sum \subseteq h
           /\ z = "s3" /\ Sound(z, s2, o, c) =>
                Seeded(s2[c].sum, s2[c].rows, s2[c].high, o[c], High(s2, c))
    BY <2>2, <2>3, <2>4, <2>7 DEF RowFits
  <2> QED BY <2>8, <2>9, <2>10, <2>11 DEF RowFits
<1> QED BY <1>1 DEF Rowwise

(* Nothing follows a chunk that is still open.                             *)
LEMMA Last ==
  ASSUME NEW z, NEW s, NEW o, NEW U, NEW h, NEW t, NEW c \in Chunks, s[c].phase \in Open,
         Rowwise(z, s, o, U, h, t), NEW i \in Chunks, i > c
  PROVE  s[i].phase = "none"
<1>1. i \in Nat /\ c \in Nat /\ c < i BY NatChunks
<1> QED BY <1>1 DEF Rowwise, RowFits, Behind

Sinks == {"s3", "clickhouse"}

(* The types, with the archived rows still in the partition.               *)
Sys(z, s, o, U, h, t) ==
  /\ z \in Sinks /\ s \in [Chunks -> Rows] /\ o \in [Chunks -> SUBSET Ids]
  /\ U \in SUBSET Ids /\ h \in SUBSET Ids /\ U \subseteq h
  /\ \A c \in Chunks : o[c] \subseteq U
  /\ Rowwise(z, s, o, U, h, t)

LEMMA JobIs ==
  ASSUME NEW z, NEW s, NEW o, NEW U, NEW h, NEW t, NEW l
  PROVE  /\ JobFits(z, s, o, U, h, t, "load", l) <=>
              /\ WayFits(z, s, o, U, t, l)
              /\ (s[l.chunk].phase # "none" => l.archived <= t[l.chunk])
         /\ JobFits(z, s, o, U, h, t, "read", l) <=>
              /\ WayFits(z, s, o, U, t, l)
              /\ (l.seed => s[l.chunk].phase = "none")
         /\ JobFits(z, s, o, U, h, t, "data", l) <=>
              /\ WayFits(z, s, o, U, t, l) /\ ReadFits(s, U, h, l)
              /\ (l.seed => s[l.chunk].phase = "none")
         /\ JobFits(z, s, o, U, h, t, "meta", l) <=>
              /\ WayFits(z, s, o, U, t, l) /\ ReadFits(s, U, h, l) /\ WriteFits(z, o, U, l)
              /\ (l.seed => s[l.chunk].phase = "none")
         /\ JobFits(z, s, o, U, h, t, "seed", l) <=>
              /\ WayFits(z, s, o, U, t, l) /\ ReadFits(s, U, h, l) /\ WriteFits(z, o, U, l)
              /\ l.seed /\ s[l.chunk].phase = "none"
         /\ JobFits(z, s, o, U, h, t, "copied", l) <=>
              /\ WayFits(z, s, o, U, t, l) /\ ReadFits(s, U, h, l) /\ WriteFits(z, o, U, l)
         /\ JobFits(z, s, o, U, h, t, "verify", l) <=> VerifyFits(z, s, o, U, t, l)
         /\ JobFits(z, s, o, U, h, t, "count", l) <=>
              (l.allVerified => l.archived <= Below(U, l.cursor))
         /\ ~JobFits(z, s, o, U, h, t, "mark", l)
BY DEF JobFits, OnWay, Unseeded, Full

LEMMA SysFields ==
  ASSUME NEW z, NEW s, NEW o, NEW U, NEW h, NEW t, Sys(z, s, o, U, h, t), NEW l \in Locals
  PROVE  /\ z \in Sinks /\ U \in SUBSET Ids /\ h \in SUBSET Ids /\ t \in [Nat -> Nat]
         /\ s \in [Chunks -> Rows] /\ o \in [Chunks -> SUBSET Ids]
         /\ l.chunk \in Chunks /\ l.chunk \in Nat /\ l.chunk + 1 \in Nat /\ l.cursor \in Nat
         /\ l.archived \in Nat /\ l.rows \in SUBSET Ids /\ l.allVerified \in BOOLEAN
         /\ \A c \in Chunks : /\ s[c] \in Rows /\ s[c].high \in Nat /\ s[c].rows \in Nat
                              /\ s[c].sum \in SUBSET Ids /\ o[c] \in SUBSET Ids /\ o[c] \subseteq U
                              /\ t[c] \in Nat /\ t[c + 1] \in Nat /\ c \in Nat /\ c + 1 \in Nat
         /\ Rowwise(z, s, o, U, h, t)
<1>1. l.chunk \in Chunks /\ l.cursor \in {0} \cup Ids /\ l.archived \in Nat
      /\ l.rows \in SUBSET Ids /\ l.allVerified \in BOOLEAN
  BY DEF Locals
<1>2. l.cursor \in Nat BY <1>1, NatIds
<1>3. l.chunk \in Nat /\ l.chunk + 1 \in Nat BY <1>1, NatChunks
<1>4. \A c \in Chunks : c \in Nat /\ c + 1 \in Nat BY NatChunks
<1>5. t \in [Nat -> Nat] BY DEF Sys, Rowwise
<1>6. ASSUME NEW c \in Chunks
      PROVE  s[c] \in Rows /\ s[c].high \in Nat /\ s[c].rows \in Nat /\ s[c].sum \in SUBSET Ids
  <2>1. s[c] \in Rows BY DEF Sys
  <2>2. s[c].high \in {0} \cup Ids /\ s[c].rows \in 0..Cardinality(Ids) /\ s[c].sum \in SUBSET Ids
    BY <2>1, RowsFields
  <2> QED BY <2>1, <2>2, NatIds, IdsFinite
<1> QED BY <1>1, <1>2, <1>3, <1>4, <1>5, <1>6 DEF Sys

(* A verified chunk, and one that was copied by an earlier run.            *)
LEMMA LoadVerified ==
  ASSUME NEW z, NEW s, NEW o, NEW U, NEW h, NEW t, Sys(z, s, o, U, h, t), NEW l \in Locals,
         JobFits(z, s, o, U, h, t, "load", l), s[l.chunk].phase = "verified", NEW m,
         m.chunk = l.chunk + 1, m.cursor = s[l.chunk].high,
         m.archived = l.archived + s[l.chunk].rows, m.allVerified = l.allVerified
  PROVE  JobFits(z, s, o, U, h, t, "load", m)
<1> DEFINE c == l.chunk
           k == s[c].high
<1>0. /\ U \in SUBSET Ids /\ c \in Chunks /\ k \in Nat /\ l.archived \in Nat
      /\ s[c].rows \in Nat /\ t[c] \in Nat /\ t[c + 1] \in Nat
  BY SysFields
<1>1. WayFits(z, s, o, U, t, l) /\ l.archived <= t[c] BY JobIs
<1>2. RowFits(z, s, o, U, h, t, c) BY <1>0 DEF Sys, Rowwise
<1> HIDE DEF c, k
<1>3. Behind(s, c + 1) BY <1>0, <1>1, SoundIs DEF WayFits, Open, c
<1>4. Covers(z, s, o, U, t, c + 1, k) BY <1>0, <1>2, SoundIs DEF RowFits, Covers, k
<1>5. l.allVerified => Sound(z, s, o, c + 1)
  BY <1>0, <1>1, <1>2, SoundIs DEF WayFits, RowFits, Whole, c
<1>6. t[c + 1] = t[c] + s[c].rows BY <1>2 DEF RowFits
<1>7. l.archived + s[c].rows <= t[c + 1] BY <1>0, <1>1, <1>6
<1>8. Below(U, k) \in Nat BY <1>0, BelowIs
<1>9. l.allVerified => t[c + 1] <= Below(U, k) BY <1>4, <1>5 DEF Covers
<1>10. l.allVerified => l.archived + s[c].rows <= Below(U, k) BY <1>0, <1>7, <1>8, <1>9
<1>11. m.chunk = c + 1 /\ m.cursor = k /\ m.archived = l.archived + s[c].rows BY DEF c, k
<1>12. WayFits(z, s, o, U, t, m) BY <1>3, <1>4, <1>5, <1>10, <1>11 DEF WayFits
<1> QED BY <1>7, <1>11, <1>12, JobIs

LEMMA LoadCopied ==
  ASSUME NEW z, NEW s, NEW o, NEW U, NEW h, NEW t, Sys(z, s, o, U, h, t), NEW l \in Locals,
         JobFits(z, s, o, U, h, t, "load", l), s[l.chunk].phase = "copied", NEW m,
         m.chunk = l.chunk, m.cursor = s[l.chunk].high, m.rows = s[l.chunk].sum,
         m.archived = l.archived + s[l.chunk].rows, m.allVerified = l.allVerified
  PROVE  JobFits(z, s, o, U, h, t, "verify", m)
<1> DEFINE c == l.chunk
           k == s[c].high
<1>0. /\ U \in SUBSET Ids /\ c \in Chunks /\ k \in Nat /\ l.archived \in Nat
      /\ s[c].rows \in Nat /\ t[c] \in Nat /\ t[c + 1] \in Nat
  BY SysFields
<1>1. WayFits(z, s, o, U, t, l) /\ l.archived <= t[c] BY JobIs
<1>2. RowFits(z, s, o, U, h, t, c) BY <1>0 DEF Sys, Rowwise
<1> HIDE DEF c, k
<1>3. Covers(z, s, o, U, t, c + 1, k) BY <1>0, <1>2, SoundIs DEF RowFits, Covers, k
<1>4. l.allVerified => Sound(z, s, o, c) BY <1>1 DEF WayFits, c
<1>5. t[c + 1] = t[c] + s[c].rows BY <1>2 DEF RowFits
<1>6. l.archived + s[c].rows <= t[c + 1] BY <1>0, <1>1, <1>5
<1>7. Below(U, k) \in Nat BY <1>0, BelowIs
<1>8. l.allVerified /\ Whole(z, s, o, c) => t[c + 1] <= Below(U, k)
  BY <1>0, <1>3, <1>4, SoundIs DEF Covers
<1>9. l.allVerified /\ Whole(z, s, o, c) => l.archived + s[c].rows <= Below(U, k)
  BY <1>0, <1>6, <1>7, <1>8
<1>10. Behind(s, c) BY <1>1 DEF WayFits, c
<1>11. m.chunk = c /\ m.cursor = k /\ m.archived = l.archived + s[c].rows /\ m.rows = s[c].sum
       /\ s[c].phase = "copied"
  BY DEF c, k
<1>12. VerifyFits(z, s, o, U, t, m) BY <1>3, <1>4, <1>6, <1>9, <1>10, <1>11 DEF VerifyFits
<1> QED BY <1>12, JobIs

(* A chunk that is new or still Pending is read.                           *)
LEMMA LoadOpen ==
  ASSUME NEW z, NEW s, NEW o, NEW U, NEW h, NEW t, NEW l,
         JobFits(z, s, o, U, h, t, "load", l), NEW m,
         m.chunk = l.chunk, m.cursor = l.cursor, m.archived = l.archived,
         m.allVerified = l.allVerified, m.seed => s[l.chunk].phase = "none"
  PROVE  JobFits(z, s, o, U, h, t, "read", m)
<1>1. WayFits(z, s, o, U, t, l) BY JobIs
<1>2. WayFits(z, s, o, U, t, m) BY <1>1 DEF WayFits
<1> QED BY <1>2, JobIs

LEMMA ReadSome ==
  ASSUME NEW z, NEW s, NEW o, NEW U, NEW h, NEW t, Sys(z, s, o, U, h, t), NEW l \in Locals,
         JobFits(z, s, o, U, h, t, "read", l), NEW m,
         m.chunk = l.chunk, m.cursor = l.cursor, m.archived = l.archived, m.seed = l.seed,
         m.allVerified = l.allVerified, m.rows = First({i \in h : i > l.cursor})
  PROVE  JobFits(z, s, o, U, h, t, "data", m)
<1> DEFINE k == l.cursor
           c == l.chunk
           H == {i \in h : i > k}
           R == First(H)
<1>0. U \in SUBSET Ids /\ h \in SUBSET Ids /\ c \in Chunks /\ U \subseteq h
  BY SysFields DEF Sys
<1>1. WayFits(z, s, o, U, t, l) /\ (l.seed => s[c].phase = "none") BY JobIs
<1>2. WayFits(z, s, o, U, t, m) BY <1>1 DEF WayFits
<1>3. H \in SUBSET Ids BY <1>0
<1>4. R \subseteq H BY <1>3, FirstIs
<1>5. R \subseteq h /\ \A x \in R : x > k BY <1>4
<1>6. s[c].phase = "pending" => s[c].sum \subseteq h
  BY <1>0 DEF Sys, Rowwise, RowFits
<1>7. \A x \in h : x > k => x \in H OBVIOUS
<1> HIDE DEF H, k
<1>8. /\ Cardinality(R) <= Batch
      /\ \A x \in H : x \in R \/ (Cardinality(R) = Batch /\ \A y \in R : x > y)
  BY <1>3, FirstLowest
<1>9. m.rows = R BY DEF H, k
<1> HIDE DEF R
<1>10. Lowest(R, h, k) BY <1>7, <1>8 DEF Lowest
<1>11. Lowest(R, U, k) /\ (s[c].phase = "pending" => Lowest(R, s[c].sum, k))
  BY <1>0, <1>6, <1>10 DEF Lowest
<1>12. m.chunk = c /\ m.cursor = k BY DEF k
<1> HIDE DEF c
<1>13. ReadFits(s, U, h, m) BY <1>5, <1>8, <1>9, <1>11, <1>12 DEF ReadFits
<1> QED BY <1>1, <1>2, <1>12, <1>13, JobIs

(* write_chunk: the data of chunk c reaches the sink.                      *)
LEMMA RowsWritten ==
  ASSUME NEW z, NEW s, NEW o, NEW U, NEW h, NEW t, Sys(z, s, o, U, h, t), NEW l \in Locals,
         JobFits(z, s, o, U, h, t, "data", l),
         NEW o2, NEW U2 \in SUBSET Ids, U \subseteq U2, U2 \subseteq U \cup l.rows,
         \A i \in Chunks : i # l.chunk => o2[i] = o[i],
         s[l.chunk].phase # "none" => o2[l.chunk] = o[l.chunk],
         WriteFits(z, o2, U2, l)
  PROVE  Rowwise(z, s, o2, U2, h, t) /\ JobFits(z, s, o2, U2, h, t, "meta", l)
<1> DEFINE c == l.chunk
           k == l.cursor
           R == l.rows
<1>0. /\ U \in SUBSET Ids /\ c \in Chunks /\ c \in Nat /\ k \in Nat /\ l.archived \in Nat
      /\ t[c] \in Nat /\ s \in [Chunks -> Rows] /\ t \in [Nat -> Nat]
      /\ Rowwise(z, s, o, U, h, t)
  BY SysFields
<1>1. /\ WayFits(z, s, o, U, t, l) /\ ReadFits(s, U, h, l)
      /\ (l.seed => s[c].phase = "none")
  BY JobIs
<1>2. Agree(s, s, o, o2, c)
  <2>1. \A i \in Chunks : i < c => i # c BY <1>0, NatChunks
  <2> QED BY <2>1 DEF Agree
<1>3. Sound(z, s, o2, c) <=> Sound(z, s, o, c) BY <1>0, <1>2, AgreeIs
<1>4. Below(U, k) <= Below(U2, k) /\ Below(U, k) \in Nat /\ Below(U2, k) \in Nat
  BY <1>0, BelowIs
<1> HIDE DEF c, k
<1>5. WayFits(z, s, o2, U2, t, l)
  <2>1. Behind(s, c) BY <1>1 DEF WayFits, c
  <2>2. Sound(z, s, o, c) => t[c] <= Below(U, k) /\ (z = "s3" => k = High(s, c))
    BY <1>1 DEF WayFits, Covers, c, k
  <2>3. Sound(z, s, o, c) => t[c] <= Below(U2, k) BY <1>0, <1>4, <2>2
  <2>4. Covers(z, s, o2, U2, t, c, k) BY <1>3, <2>2, <2>3 DEF Covers
  <2>5. l.allVerified => Sound(z, s, o, c) /\ l.archived <= Below(U, k)
    BY <1>1 DEF WayFits, c, k
  <2>6. l.allVerified => l.archived <= Below(U2, k) BY <1>0, <1>4, <2>5
  <2> QED BY <1>3, <2>1, <2>4, <2>5, <2>6 DEF WayFits, c, k
<1>6. ReadFits(s, U2, h, l)
  <2>1. Lowest(R, U2, k) BY <1>1 DEF ReadFits, Lowest, k
  <2> QED BY <1>1, <2>1 DEF ReadFits, k
<1>7. ASSUME NEW i \in Chunks, s[i].phase # "none" PROVE RowFits(z, s, o2, U2, h, t, i)
  <2>1. Agree(s, s, o, o2, i + 1)
    <3>1. CASE s[c].phase # "none"
      <4>1. \A j \in Chunks : o2[j] = o[j] BY <3>1 DEF c
      <4> QED BY <4>1 DEF Agree
    <3>2. CASE s[c].phase = "none"
      <4>1. s[c].phase \in Open BY <3>2 DEF Open
      <4>2. i # c /\ ~(i > c) BY <1>0, <1>7, <3>2, <4>1, Last
      <4>3. \A j \in Chunks : j < i + 1 => j # c BY <1>0, <4>2, NatChunks
      <4> QED BY <4>3 DEF Agree, c
    <3> QED BY <3>1, <3>2
  <2>2. RowFits(z, s, o, U, h, t, i) BY <1>0, <1>7 DEF Rowwise
  <2> QED BY <1>0, <2>1, <2>2, RowBelow
<1>8. Rowwise(z, s, o2, U2, h, t) BY <1>0, <1>7 DEF Rowwise
<1> QED BY <1>1, <1>5, <1>6, <1>8, JobIs DEF c

(* The Pending row of a new chunk.                                         *)
LEMMA RowSeeded ==
  ASSUME NEW z, NEW s, NEW o, NEW U, NEW h, NEW t, Sys(z, s, o, U, h, t), NEW l \in Locals,
         JobFits(z, s, o, U, h, t, "seed", l), l.rows # {}, NEW s2, NEW q,
         s2 = [s EXCEPT ![l.chunk] = q],
         q.phase = "pending", q.high = Max(l.rows), q.rows = Cardinality(l.rows),
         q.sum = l.rows
  PROVE  \E t2 : Rowwise(z, s2, o, U, h, t2) /\ JobFits(z, s2, o, U, h, t2, "copied", l)
<1> DEFINE c == l.chunk
           k == l.cursor
           R == l.rows
           n == Cardinality(R)
           t2 == [t EXCEPT ![c + 1] = t[c] + n]
<1>0. /\ U \in SUBSET Ids /\ c \in Chunks /\ c \in Nat /\ c + 1 \in Nat /\ k \in Nat
      /\ t[c] \in Nat /\ s \in [Chunks -> Rows] /\ t \in [Nat -> Nat]
      /\ Rowwise(z, s, o, U, h, t) /\ R \in SUBSET Ids /\ z \in Sinks /\ o[c] \subseteq U
  BY SysFields
<1>1. /\ WayFits(z, s, o, U, t, l) /\ ReadFits(s, U, h, l) /\ WriteFits(z, o, U, l)
      /\ s[c].phase = "none"
  BY JobIs
<1>2. n \in Nat BY <1>0, IdsFinite
<1>3. t2 \in [Nat -> Nat] /\ t2[c + 1] = t[c] + n /\ \A j \in Nat : j # c + 1 => t2[j] = t[j]
  <2>1. t[c] + n \in Nat BY <1>0, <1>2
  <2> QED BY <1>0, <2>1
<1>4. s2[c] = q /\ \A i \in Chunks : i # c => s2[i] = s[i] BY <1>0
<1>5. q.phase = "pending" /\ q.high = Max(R) /\ q.rows = n /\ q.sum = R OBVIOUS
<1> HIDE DEF c, k, R, n, t2
<1>6. t2[c] = t[c] /\ t2[0] = 0 BY <1>0, <1>3 DEF Rowwise
<1>7. Agree(s, s2, o, o, c)
  <2>1. \A i \in Chunks : i < c => i # c BY <1>0, NatChunks
  <2> QED BY <1>4, <2>1 DEF Agree
<1>8. /\ Sound(z, s2, o, c) <=> Sound(z, s, o, c)
      /\ Behind(s2, c) <=> Behind(s, c)
      /\ High(s2, c) = High(s, c)
  BY <1>0, <1>7, AgreeIs
<1>9. /\ R \subseteq h /\ n <= Batch /\ \A x \in R : x > k
      /\ Lowest(R, U, k)
  BY <1>1 DEF ReadFits, R, n, k
<1>10. (z = "s3" => o[c] # {}) /\ (z = "clickhouse" => R \subseteq U)
  BY <1>1 DEF WriteFits, c, R
<1>11. Whole(z, s2, o, c) => R \subseteq U BY <1>0, <1>4, <1>5, <1>10 DEF Whole, Sinks
<1>12. Behind(s, c) /\ (Sound(z, s, o, c) => t[c] <= Below(U, k) /\ (z = "s3" => k = High(s, c)))
  BY <1>1 DEF WayFits, Covers, c, k
<1>13. Sound(z, s2, o, c + 1) => t2[c + 1] <= Below(U, Max(R))
  <2>1. SUFFICES ASSUME Sound(z, s2, o, c + 1) PROVE t2[c + 1] <= Below(U, Max(R)) OBVIOUS
  <2>2. Sound(z, s2, o, c) /\ Whole(z, s2, o, c) BY <1>0, <2>1, SoundIs
  <2>3. t[c] <= Below(U, k) BY <1>8, <1>12, <2>2
  <2>4. R \in SUBSET U /\ R # {} BY <1>11, <2>2 DEF R
  <2>5. Below(U, k) + n <= Below(U, Max(R)) BY <1>0, <1>9, <2>4, BelowAdds DEF n
  <2>6. Below(U, k) \in Nat /\ Below(U, Max(R)) \in Nat BY <1>0, BelowIs
  <2> QED BY <1>0, <1>2, <1>3, <2>3, <2>5, <2>6
<1>14. z = "s3" /\ Sound(z, s2, o, c) => Seeded(R, n, Max(R), o[c], High(s2, c))
  <2>1. Lowest(R, o[c], k) BY <1>0, <1>9 DEF Lowest
  <2>2. R # {} BY DEF R
  <2> QED BY <1>8, <1>9, <1>12, <2>1, <2>2 DEF Seeded, n
<1>15. RowFits(z, s2, o, U, h, t2, c)
  BY <1>3, <1>4, <1>5, <1>6, <1>8, <1>9, <1>10, <1>12, <1>13, <1>14 DEF RowFits
<1>16. ASSUME NEW i \in Chunks, s2[i].phase # "none" PROVE RowFits(z, s2, o, U, h, t2, i)
  <2>1. CASE i = c BY <1>15, <2>1
  <2>2. CASE i # c
    <3>1. s[i].phase # "none" BY <1>4, <1>16, <2>2
    <3>2. s[c].phase \in Open BY <1>1 DEF Open
    <3>3. ~(i > c) BY <1>0, <3>1, <3>2, Last
    <3>4. i \in Nat /\ i + 1 \in Nat /\ i < c /\ i # c + 1 /\ i + 1 # c + 1
      <4>1. i \in Nat BY NatChunks
      <4> QED BY <1>0, <2>2, <3>3, <4>1
    <3>5. t2[i] = t[i] /\ t2[i + 1] = t[i + 1] BY <1>3, <3>4
    <3>6. Agree(s, s2, o, o, i + 1)
      <4>1. \A j \in Chunks : j < i + 1 => j < c BY <1>0, <3>4, NatChunks
      <4> QED BY <1>7, <4>1 DEF Agree
    <3>7. RowFits(z, s, o, U, h, t, i) BY <1>0, <3>1 DEF Rowwise
    <3> QED BY <1>0, <3>5, <3>6, <3>7, RowBelow
  <2> QED BY <2>1, <2>2
<1>17. Rowwise(z, s2, o, U, h, t2) BY <1>3, <1>6, <1>16 DEF Rowwise
<1>18. WayFits(z, s2, o, U, t2, l) BY <1>1, <1>6, <1>8 DEF WayFits, Covers, c
<1>19. ReadFits(s2, U, h, l)
  <2>1. Lowest(R, s2[c].sum, k) BY <1>4, <1>5 DEF Lowest
  <2> QED BY <1>9, <2>1 DEF ReadFits, R, n, k, c
<1>20. JobFits(z, s2, o, U, h, t2, "copied", l) BY <1>1, <1>18, <1>19, JobIs
<1> QED BY <1>17, <1>20

(* The advance to Copied. The Pending row has the number and the highest   *)
(* of the rows S that were read first, the walk those of R, read now.      *)
LEMMA RowCopied ==
  ASSUME NEW z, NEW s, NEW o, NEW U, NEW h, NEW t, Sys(z, s, o, U, h, t), NEW l \in Locals,
         JobFits(z, s, o, U, h, t, "copied", l), l.rows # {}, s[l.chunk].phase = "pending",
         NEW s2, NEW q, s2 = [s EXCEPT ![l.chunk] = q],
         q.phase = "copied", q.high = s[l.chunk].high, q.rows = s[l.chunk].rows, q.sum = l.rows,
         NEW m, m.chunk = l.chunk, m.rows = l.rows, m.allVerified = l.allVerified,
         m.archived = l.archived + Cardinality(l.rows), m.cursor = Max(l.rows)
  PROVE  Rowwise(z, s2, o, U, h, t) /\ JobFits(z, s2, o, U, h, t, "verify", m)
<1> DEFINE c == l.chunk
           k == l.cursor
           R == l.rows
           a == l.archived
           w == s[c].rows
           S == s[c].sum
           g == s[c].high
           n == Cardinality(R)
           e == Max(R)
<1>0. /\ U \in SUBSET Ids /\ c \in Chunks /\ c \in Nat /\ c + 1 \in Nat /\ k \in Nat
      /\ t[c] \in Nat /\ t[c + 1] \in Nat /\ s \in [Chunks -> Rows] /\ t \in [Nat -> Nat]
      /\ Rowwise(z, s, o, U, h, t) /\ R \in SUBSET Ids /\ z \in Sinks /\ o[c] \subseteq U
      /\ a \in Nat /\ S \in SUBSET Ids /\ w \in Nat /\ g \in Nat
  BY SysFields
<1>1. WayFits(z, s, o, U, t, l) /\ ReadFits(s, U, h, l) /\ WriteFits(z, o, U, l) BY JobIs
<1>2. RowFits(z, s, o, U, h, t, c) BY <1>0 DEF Rowwise
<1>3. n \in Nat BY <1>0, IdsFinite
<1>4. R \in SUBSET Nat /\ IsFiniteSet(R) /\ R # {} BY <1>0, IdsFinite
<1>5. e \in R /\ (\A y \in R : y <= e)
  BY <1>4, MaxIs
<1>6. s2[c] = q /\ \A i \in Chunks : i # c => s2[i] = s[i] BY <1>0
<1>7. q.phase = "copied" /\ q.high = g /\ q.rows = w /\ q.sum = R OBVIOUS
<1>8. m.chunk = c /\ m.rows = R /\ m.archived = a + n /\ m.cursor = e OBVIOUS
<1>9. s[c].phase = "pending" OBVIOUS
<1> HIDE DEF e
<1>10. /\ R \subseteq h /\ n <= Batch /\ (\A x \in R : x > k)
       /\ Lowest(R, U, k) /\ Lowest(R, S, k)
  BY <1>1, <1>9 DEF ReadFits
<1>11. Behind(s, c) /\ (Sound(z, s, o, c) => t[c] <= Below(U, k) /\ (z = "s3" => k = High(s, c)))
  BY <1>1 DEF WayFits, Covers
<1>12. l.allVerified => Sound(z, s, o, c) /\ a <= Below(U, k) BY <1>1 DEF WayFits
<1>13. (z = "s3" => o[c] # {}) /\ (z = "clickhouse" => R \subseteq U) BY <1>1 DEF WriteFits
<1>14. /\ t[c + 1] = t[c] + w /\ w <= Batch
       /\ Sound(z, s, o, c + 1) => t[c + 1] <= Below(U, g)
       /\ z = "s3" /\ Sound(z, s, o, c) => Seeded(S, w, g, o[c], High(s, c))
  BY <1>2, <1>9 DEF RowFits
<1> HIDE DEF c, k, R, a, w, S, g, n
<1>15. Agree(s, s2, o, o, c)
  <2>1. \A i \in Chunks : i < c => i # c BY <1>0, NatChunks
  <2> QED BY <1>6, <2>1 DEF Agree
<1>16. /\ Sound(z, s2, o, c) <=> Sound(z, s, o, c)
       /\ Behind(s2, c) <=> Behind(s, c)
       /\ High(s2, c) = High(s, c)
  BY <1>0, <1>15, AgreeIs
<1>17. Sound(z, s2, o, c + 1) <=> Sound(z, s, o, c) /\ Whole(z, s2, o, c) BY <1>0, <1>16, SoundIs
<1>18. High(s2, c + 1) = g
  <2>1. High(s2, c + 1) = s2[c].high BY <1>0, SoundIs
  <2> QED BY <1>6, <1>7, <2>1
<1>19. Whole(z, s2, o, c) => R \subseteq U BY <1>0, <1>6, <1>7, <1>13 DEF Whole, Sinks
<1>20. /\ Below(U, k) \in Nat /\ Below(U, e) \in Nat /\ Below(U, g) \in Nat
       /\ Below(U, g) <= Cardinality(U) /\ Cardinality(U) \in Nat
  BY <1>0, BelowIs, IdsFinite
<1>21. Whole(z, s2, o, c) => Below(U, k) + n <= Below(U, e)
  BY <1>0, <1>4, <1>10, <1>19, BelowAdds DEF e, n
\* An S3 object that fits what was read now fits what was read first.
<1>22. z = "s3" /\ Sound(z, s2, o, c + 1) => R = S /\ w = n /\ g = e
  <2> SUFFICES ASSUME z = "s3", Sound(z, s2, o, c + 1) PROVE R = S /\ w = n /\ g = e OBVIOUS
  <2>1. Sound(z, s, o, c) /\ Whole(z, s2, o, c) BY <1>17
  <2>2. o[c] = R BY <1>6, <1>7, <2>1 DEF Whole
  <2>3. Seeded(S, w, g, R, k) BY <1>11, <1>14, <2>1, <2>2
  <2>4. /\ S # {} /\ w = Cardinality(S) /\ g = Max(S)
        /\ (\A x \in S : x > k) /\ Lowest(S, R, k)
    BY <2>3 DEF Seeded
  <2>5. R = S
    <3>1. Cardinality(S) <= Batch /\ Cardinality(R) <= Batch BY <1>10, <1>14, <2>4 DEF n
    <3> QED BY <1>0, <1>10, <2>4, <3>1, SameRead
  <2> QED BY <2>4, <2>5 DEF n, e
\* Below its highest row the walk has archived what the state rows count.
<1>23. Sound(z, s2, o, c + 1) => t[c + 1] <= Below(U, e)
  <2> SUFFICES ASSUME Sound(z, s2, o, c + 1) PROVE t[c + 1] <= Below(U, e) OBVIOUS
  <2>1. t[c] <= Below(U, k) /\ Below(U, k) + n <= Below(U, e) BY <1>11, <1>17, <1>21
  <2>2. CASE w <= n BY <1>0, <1>3, <1>14, <1>20, <2>1, <2>2
  <2>3. CASE ~(w <= n)
    <3>1. z # "s3"
      <4>1. w # n BY <1>0, <1>3, <2>3
      <4> QED BY <1>22, <4>1
    <3>2. n # Batch BY <1>0, <1>3, <1>14, <2>3, BoundsAssumption
    <3>3. \A x \in U : x > k => x \in R BY <1>10, <3>2 DEF Lowest, n
    <3>4. U \in SUBSET Nat /\ e \in Nat /\ e > k BY <1>0, <1>4, <1>5, <1>10, IdsFinite
    <3>5. \A x \in U : x <= e
      <4>0. k \in Nat BY <1>0
      <4>1. \A x \in U : x <= k \/ x > k BY <3>4, <4>0
      <4>2. \A x \in U : x <= k => x <= e BY <3>4, <4>0
      <4> QED BY <1>5, <3>3, <4>1, <4>2
    <3>6. Below(U, e) = Cardinality(U) BY <1>0, <3>5, BelowIs
    <3>7. Sound(z, s, o, c + 1) BY <1>0, <3>1, SoundIs
    <3> QED BY <1>0, <1>14, <1>20, <3>6, <3>7
  <2> QED BY <2>2, <2>3
<1>24. Sound(z, s2, o, c + 1) => t[c + 1] <= Below(U, g)
  <2>1. CASE z = "s3" BY <1>22, <1>23, <2>1
  <2>2. CASE z # "s3" BY <1>0, <1>14, <2>2, SoundIs
  <2> QED BY <2>1, <2>2
<1>25. RowFits(z, s2, o, U, h, t, c)
  BY <1>6, <1>7, <1>11, <1>13, <1>14, <1>16, <1>24 DEF RowFits
<1>26. s[c].phase \in Open BY <1>9 DEF Open
<1>27. ASSUME NEW i \in Chunks, s2[i].phase # "none" PROVE RowFits(z, s2, o, U, h, t, i)
  <2>1. CASE i = c BY <1>25, <2>1
  <2>2. CASE i # c
    <3>1. s[i].phase # "none" BY <1>6, <1>27, <2>2
    <3>2. ~(i > c) BY <1>0, <1>26, <3>1, Last
    <3>3. i \in Nat /\ i < c
      <4>1. i \in Nat BY NatChunks
      <4> QED BY <1>0, <2>2, <3>2, <4>1
    <3>4. Agree(s, s2, o, o, i + 1)
      <4>1. \A j \in Chunks : j < i + 1 => j < c BY <1>0, <3>3, NatChunks
      <4> QED BY <1>15, <4>1 DEF Agree
    <3>5. RowFits(z, s, o, U, h, t, i) BY <1>0, <3>1 DEF Rowwise
    <3> QED BY <1>0, <3>4, <3>5, RowBelow
  <2> QED BY <2>1, <2>2
<1>28. Rowwise(z, s2, o, U, h, t) BY <1>0, <1>27 DEF Rowwise
<1>29. Covers(z, s2, o, U, t, c + 1, e) BY <1>18, <1>22, <1>23 DEF Covers
<1>30. l.allVerified /\ Whole(z, s2, o, c) => a + n <= Below(U, e)
  BY <1>0, <1>3, <1>12, <1>20, <1>21
<1>31. ~(c + 1 \in Chunks /\ s2[c + 1].phase # "none")
  <2> SUFFICES ASSUME c + 1 \in Chunks PROVE s2[c + 1].phase = "none" OBVIOUS
  <2>1. c + 1 > c /\ c + 1 # c BY <1>0
  <2>2. s[c + 1].phase = "none" BY <1>0, <1>26, <2>1, Last
  <2> QED BY <1>6, <2>1, <2>2
<1>32. VerifyFits(z, s2, o, U, t, m)
  BY <1>6, <1>7, <1>8, <1>11, <1>12, <1>16, <1>29, <1>30, <1>31 DEF VerifyFits
<1> QED BY <1>28, <1>32, JobIs

(* verify_chunk, with or without success.                                  *)
LEMMA RowVerified ==
  ASSUME NEW z, NEW s, NEW o, NEW U, NEW h, NEW t, Sys(z, s, o, U, h, t), NEW l \in Locals,
         JobFits(z, s, o, U, h, t, "verify", l), NEW s2, Alike(z, s, s2, o),
         NEW m, m.chunk = l.chunk + 1, m.chunk \in Chunks,
         m.cursor = l.cursor, m.archived = l.archived,
         m.allVerified => l.allVerified /\ Whole(z, s, o, l.chunk)
  PROVE  JobFits(z, s2, o, U, h, t, "load", m)
<1> DEFINE c == l.chunk
<1>0. c \in Chunks /\ c + 1 \in Nat /\ c + 1 \in Chunks BY SysFields
<1>1. VerifyFits(z, s, o, U, t, l) BY JobIs
<1>2. m.chunk = c + 1 OBVIOUS
<1>3. s[c].phase = "copied" /\ Behind(s, c) BY <1>1 DEF VerifyFits
<1>4. Covers(z, s, o, U, t, c + 1, l.cursor) BY <1>1 DEF VerifyFits
<1>5. l.allVerified /\ Whole(z, s, o, c) => Sound(z, s, o, c) /\ l.archived <= Below(U, l.cursor)
  BY <1>1 DEF VerifyFits
<1>6. s[c + 1].phase # "none" => l.archived <= t[c + 1] BY <1>0, <1>1 DEF VerifyFits
<1>7. m.allVerified => l.allVerified /\ Whole(z, s, o, c) OBVIOUS
<1> HIDE DEF c
<1>8. /\ Sound(z, s2, o, c + 1) <=> Sound(z, s, o, c + 1)
      /\ Behind(s2, c + 1) <=> Behind(s, c + 1)
      /\ High(s2, c + 1) = High(s, c + 1)
  BY <1>0, AlikeIs
<1>9. Behind(s, c + 1) BY <1>0, <1>3, SoundIs DEF Open
<1>10. Covers(z, s2, o, U, t, c + 1, m.cursor) BY <1>4, <1>8 DEF Covers
<1>11. m.allVerified => Sound(z, s2, o, c + 1) /\ m.archived <= Below(U, m.cursor)
  BY <1>0, <1>5, <1>7, <1>8, SoundIs
<1>12. s2[c + 1].phase # "none" => s[c + 1].phase # "none" BY <1>0 DEF Alike
<1>13. WayFits(z, s2, o, U, t, m) BY <1>2, <1>8, <1>9, <1>10, <1>11 DEF WayFits
<1> QED BY <1>2, <1>6, <1>12, <1>13, JobIs

(* A day passes, or a row is inserted.                                     *)
LEMMA JobAlike ==
  ASSUME NEW z, NEW s, NEW o, NEW U, NEW h, NEW t, NEW s2, NEW h2, h \subseteq h2,
         Alike(z, s, s2, o), \A i \in Chunks : s2[i].phase = s[i].phase,
         NEW p, NEW l \in Locals, JobFits(z, s, o, U, h, t, p, l), NEW m,
         m.chunk = l.chunk, m.cursor = l.cursor, m.archived = l.archived, m.seed = l.seed,
         m.allVerified = l.allVerified, m.rows = l.rows
  PROVE  JobFits(z, s2, o, U, h2, t, p, m)
<1> DEFINE c == l.chunk
<1>0. c \in Chunks BY DEF Locals
<1>1. c \in Nat /\ c + 1 \in Nat /\ (c + 1) - 1 = c BY <1>0, SoundIs
<1>2. /\ Sound(z, s2, o, c) <=> Sound(z, s, o, c)
      /\ Behind(s2, c) <=> Behind(s, c)
      /\ High(s2, c) = High(s, c)
  BY <1>0, <1>1, AlikeIs
<1>3. /\ Sound(z, s2, o, c + 1) <=> Sound(z, s, o, c + 1)
      /\ High(s2, c + 1) = High(s, c + 1)
  BY <1>0, <1>1, AlikeIs
<1>4. s2[c].phase = s[c].phase /\ s2[c].sum = s[c].sum BY <1>0 DEF Alike
<1>5. c + 1 \in Chunks => s2[c + 1].phase = s[c + 1].phase OBVIOUS
<1>6. WayFits(z, s, o, U, t, l) => WayFits(z, s2, o, U, t, m)
  BY <1>2 DEF WayFits, Covers
<1>7. ReadFits(s, U, h, l) => ReadFits(s2, U, h2, m) BY <1>4 DEF ReadFits
<1>8. WriteFits(z, o, U, l) => WriteFits(z, o, U, m) BY DEF WriteFits
<1>9. VerifyFits(z, s, o, U, t, l) => VerifyFits(z, s2, o, U, t, m)
  <2>1. Whole(z, s2, o, c) <=> Whole(z, s, o, c) BY <1>4 DEF Whole
  <2>2. Covers(z, s, o, U, t, c + 1, l.cursor) => Covers(z, s2, o, U, t, c + 1, m.cursor)
    BY <1>3 DEF Covers
  <2>3. m.chunk = c OBVIOUS
  <2> HIDE DEF c
  <2> QED BY <1>2, <1>4, <1>5, <2>1, <2>2, <2>3 DEF VerifyFits, c
<1>10. m.chunk = c OBVIOUS
<1> HIDE DEF c
<1> QED BY <1>4, <1>6, <1>7, <1>8, <1>9, <1>10 DEF JobFits, c

(* The states in which a count may lead to a drop: the partition is there, *)
(* no restore is under way and none crossed a job, and no two jobs were at *)
(* work at once.                                                           *)
Live == exists /\ restore = "idle" /\ ~overlap /\ ~torn /\ ~conf.filter /\ ~conf.dryRun

Fitting(z, s, o, U, h, p, l) ==
  /\ U \subseteq h
  /\ \E t : /\ Rowwise(z, s, o, U, h, t)
            /\ \A r \in Runners : JobFits(z, s, o, U, h, t, p[r], l[r])

(* The invariant: some running total fits the state rows and every job.    *)
Tally == Live => Fitting(conf.sink, st, objects, Archived, hot, pc, loc)

(* Without an overlap one job works at a time; a job starts its walk with  *)
(* nothing counted.                                                        *)
Alone == ~overlap => \A r, q \in Runners : pc[r] # "idle" /\ pc[q] # "idle" => r = q
Fresher == \A r \in Runners : pc[r] \in Rest => loc[r].cursor = 0 /\ loc[r].archived = 0

Others(r) == Budget(r) \/ Fail(r) \/ Crash(r)

(* A step of a job at work.                                                *)
LEMMA Moves ==
  ASSUME TInv, NEW r \in Runners, Step(r) \/ Others(r), ~Begin(r)
  PROVE  /\ pc[r] # "idle" /\ UNCHANGED <<conf, overlap, torn, restore>>
         /\ \E p, l : /\ pc' = [pc EXCEPT ![r] = p] /\ loc' = [loc EXCEPT ![r] = l]
                      /\ p \in Rest => l = Start \/ (pc[r] \in Rest /\ l = loc[r])
                      /\ p = "drop" => /\ CountRows(r) /\ exists /\ Droppable(loc[r])
                                       /\ l = [loc[r] EXCEPT !.rows = hot]
<1> USE DEF oper, ghosts
<1> DEFINE Goal == \E p, l :
             /\ pc' = [pc EXCEPT ![r] = p] /\ loc' = [loc EXCEPT ![r] = l]
             /\ p \in Rest => l = Start \/ (pc[r] \in Rest /\ l = loc[r])
             /\ p = "drop" => /\ CountRows(r) /\ exists /\ Droppable(loc[r])
                              /\ l = [loc[r] EXCEPT !.rows = hot]
<1>0. pc \in [Runners -> Pcs] /\ loc \in [Runners -> Locals] BY DEF TInv, Jobs, JobTypes
<1>1. loc = [loc EXCEPT ![r] = loc[r]] /\ pc = [pc EXCEPT ![r] = pc[r]] BY <1>0
<1>2. pc[r] # "idle" /\ UNCHANGED <<conf, overlap, torn, restore>>
  BY DEF Step, Others, Select, Load, Read, WriteRows, WriteMeta, Seed, Copy, Verify, CountRows,
         Drop, Mark, End, Budget, Fail, Crash, Working
<1>3. ASSUME NEW p, NEW l, p # "drop", p \notin Rest, To(r, p), Set(r, l) PROVE Goal
  BY <1>3 DEF To, Set
<1>4. ASSUME NEW p, NEW l, p # "drop", p \notin Rest, pc[r] = p, UNCHANGED pc, Set(r, l) PROVE Goal
  BY <1>1, <1>4 DEF Set
<1>5. ASSUME NEW p, p # "drop", p \notin Rest, To(r, p), UNCHANGED loc PROVE Goal
  BY <1>1, <1>5 DEF To
<1>6. ASSUME NEW p \in {"release", "idle"}, To(r, p), Set(r, Start) PROVE Goal
  BY <1>6 DEF To, Set
<1>7. ASSUME Leave(r) PROVE Goal
  BY <1>6, <1>7 DEF Leave
<1>8. /\ "load" \notin Rest /\ "read" \notin Rest /\ "data" \notin Rest /\ "meta" \notin Rest
      /\ "seed" \notin Rest /\ "copied" \notin Rest /\ "verify" \notin Rest
      /\ "count" \notin Rest /\ "mark" \notin Rest /\ "drop" \notin Rest
  BY DEF Rest
<1> HIDE DEF Goal
<1>9. ASSUME Select(r) \/ End(r) PROVE Goal
  <2>1. /\ pc[r] \in Rest /\ UNCHANGED loc
        /\ \E p \in {"idle", "release", "load"} : pc' = [pc EXCEPT ![r] = p]
    BY <1>9 DEF Select, End, To, Rest
  <2> QED BY <1>1, <2>1 DEF Goal
<1>10. ASSUME Load(r) PROVE Goal
  <2>1. pc[r] = "load" BY <1>10 DEF Load
  <2> QED BY <1>3, <1>4, <1>7, <1>8, <1>10, <2>1 DEF Load
<1>11. ASSUME Read(r) PROVE Goal
  BY <1>3, <1>5, <1>7, <1>8, <1>11 DEF Read
<1>12. ASSUME WriteRows(r) \/ WriteMeta(r) \/ Seed(r) PROVE Goal
  <2>1. UNCHANGED loc /\ (To(r, "meta") \/ To(r, "seed") \/ To(r, "copied"))
    BY <1>12 DEF WriteRows, WriteMeta, Seed, To
  <2> QED BY <1>5, <1>8, <2>1
<1>13. ASSUME Copy(r) PROVE Goal
  BY <1>3, <1>7, <1>8, <1>13 DEF Copy
<1>14. ASSUME Verify(r) PROVE Goal
  BY <1>3, <1>7, <1>8, <1>14 DEF Verify
<1>15. ASSUME CountRows(r) PROVE Goal
  <2>1. CASE Leave(r) BY <1>7, <2>1
  <2>2. CASE /\ exists /\ Droppable(loc[r]) /\ To(r, "drop")
             /\ Set(r, [loc[r] EXCEPT !.rows = hot])
    BY <1>8, <1>15, <2>2 DEF Goal, To, Set
  <2> QED BY <1>15, <2>1, <2>2 DEF CountRows
<1>16. ASSUME Drop(r) PROVE Goal
  BY <1>5, <1>7, <1>8, <1>16 DEF Drop
<1>17. ASSUME Mark(r) PROVE Goal
  <2>1. pc[r] = "mark" BY <1>17 DEF Mark
  <2> QED BY <1>4, <1>7, <1>8, <1>17, <2>1 DEF Mark
<1>18. ASSUME Others(r) PROVE Goal
  <2>1. Leave(r) \/ (To(r, "idle") /\ Set(r, Start)) BY <1>18 DEF Others, Budget, Fail, Crash
  <2> QED BY <1>6, <1>7, <2>1
<1>19. Goal
  BY <1>9, <1>10, <1>11, <1>12, <1>13, <1>14, <1>15, <1>16, <1>17, <1>18 DEF Step
<1> QED BY <1>2, <1>19 DEF Goal

(* The steps that are not of a job.                                        *)
Outer == Lapse \/ Age \/ Day \/ Exchange \/ Reset \/ RestoreDies
         \/ (\E r \in Runners : BeginLost(r)) \/ (\E i \in Ids : Insert(i)) \/ UNCHANGED vars

LEMMA NextCases ==
  ASSUME [Next]_vars
  PROVE  \/ Outer
         \/ \E r \in Runners : Begin(r)
         \/ \E r \in Runners : (Step(r) \/ Others(r)) /\ ~Begin(r)
BY DEF Next, Outer, Others, Step

LEMMA OuterIs ==
  ASSUME TInv, Outer
  PROVE  /\ UNCHANGED <<pc, overlap, conf>> /\ (torn => torn')
         /\ \A r \in Runners : /\ loc'[r].chunk = loc[r].chunk /\ loc'[r].cursor = loc[r].cursor
                               /\ loc'[r].archived = loc[r].archived /\ loc'[r].seed = loc[r].seed
                               /\ loc'[r].allVerified = loc[r].allVerified
                               /\ loc'[r].rows = loc[r].rows
         /\ UNCHANGED <<objects, table>>
<1> USE DEF oper, ghosts, cold, vars
<1>1. UNCHANGED <<pc, overlap, conf, objects, table>> /\ (torn => torn')
  <2>1. UNCHANGED <<pc, overlap, conf, objects, table>>
    BY DEF Outer, Lapse, Age, Day, Exchange, Reset, RestoreDies, BeginLost, Insert
  <2>2. CASE Exchange BY <2>1, <2>2 DEF Exchange
  <2>3. CASE RestoreDies BY <2>1, <2>3 DEF RestoreDies
  <2>4. CASE ~Exchange /\ ~RestoreDies
    <3>1. UNCHANGED torn BY <2>4 DEF Outer, Lapse, Age, Day, Reset, BeginLost, Insert
    <3> QED BY <2>1, <3>1
  <2> QED BY <2>2, <2>3, <2>4
<1>2. CASE ~Day
  <2>1. UNCHANGED loc
    BY <1>2 DEF Outer, Lapse, Age, Exchange, Reset, RestoreDies, BeginLost, Insert
  <2> QED BY <1>1, <2>1
<1>3. CASE Day
  <2>1. ASSUME NEW r \in Runners
        PROVE  /\ loc'[r].chunk = loc[r].chunk /\ loc'[r].cursor = loc[r].cursor
               /\ loc'[r].archived = loc[r].archived /\ loc'[r].seed = loc[r].seed
               /\ loc'[r].allVerified = loc[r].allVerified
               /\ loc'[r].rows = loc[r].rows
    <3> DEFINE l == loc[r]
               a == [l EXCEPT !.age = Older(l.age)]
    <3>0. l \in Locals BY DEF TInv, JobTypes
    <3>1. /\ a.chunk = l.chunk /\ a.cursor = l.cursor /\ a.archived = l.archived
          /\ a.seed = l.seed /\ a.allVerified = l.allVerified /\ a.rows = l.rows
      BY <3>0 DEF Locals
    <3>2. loc'[r] = l \/ loc'[r] = a BY <1>3 DEF Day
    <3> QED BY <3>1, <3>2
  <2> QED BY <1>1, <2>1
<1> QED BY <1>2, <1>3

LEMMA AloneNext == TInv /\ Alone /\ Fresher /\ [Next]_vars => Alone' /\ Fresher'
<1> SUFFICES ASSUME TInv, Alone, Fresher, [Next]_vars PROVE Alone' /\ Fresher' OBVIOUS
<1>0. pc \in [Runners -> Pcs] /\ loc \in [Runners -> Locals] BY DEF TInv, Jobs, JobTypes
<1>1. CASE Outer
  <2>1. UNCHANGED <<pc, overlap>> BY <1>1, OuterIs
  <2>2. \A r \in Runners : loc'[r].cursor = loc[r].cursor /\ loc'[r].archived = loc[r].archived
    BY <1>1, OuterIs
  <2> QED BY <2>1, <2>2 DEF Alone, Fresher
<1>2. ASSUME NEW r \in Runners, Begin(r) PROVE Alone' /\ Fresher'
  <2>1. /\ pc[r] = "idle" /\ pc' = [pc EXCEPT ![r] = "select"] /\ UNCHANGED loc
        /\ overlap' = (overlap \/ \E q \in Runners \ {r} : Working(q))
    BY <1>2 DEF Begin, To
  <2>2. \A q \in Runners : pc'[q] = IF q = r THEN "select" ELSE pc[q] BY <1>0, <2>1
  <2>3. ~overlap' => \A q \in Runners \ {r} : pc[q] = "idle" BY <2>1 DEF Working
  <2>4. Alone' BY <2>2, <2>3 DEF Alone
  <2>5. \A q \in Runners : pc'[q] \in Rest => pc[q] \in Rest BY <2>1, <2>2 DEF Rest
  <2> QED BY <2>1, <2>4, <2>5 DEF Fresher
<1>3. ASSUME NEW r \in Runners, (Step(r) \/ Others(r)) /\ ~Begin(r) PROVE Alone' /\ Fresher'
  <2>1. pc[r] # "idle" /\ overlap' = overlap BY <1>3, Moves
  <2>2. PICK p, l : /\ pc' = [pc EXCEPT ![r] = p] /\ loc' = [loc EXCEPT ![r] = l]
                    /\ p \in Rest => l = Start \/ (pc[r] \in Rest /\ l = loc[r])
    BY <1>3, Moves
  <2>3. \A q \in Runners : /\ pc'[q] = IF q = r THEN p ELSE pc[q]
                           /\ loc'[q] = IF q = r THEN l ELSE loc[q]
    BY <1>0, <2>2
  <2>4. \A q \in Runners : pc'[q] # "idle" => pc[q] # "idle" BY <2>1, <2>3
  <2>5. Start.cursor = 0 /\ Start.archived = 0 BY DEF Start
  <2>6. p \in Rest => l.cursor = 0 /\ l.archived = 0 BY <2>2, <2>5 DEF Fresher
  <2>7. Fresher' BY <2>3, <2>6 DEF Fresher
  <2> QED BY <2>1, <2>4, <2>7 DEF Alone
<1> QED BY <1>1, <1>2, <1>3, NextCases

(* Between EXCHANGE and the reset the partition has every row of the cold  *)
(* tier.                                                                   *)
Restored == ~torn /\ restore = "exchanged" => Archived \subseteq hot

LEMMA ArchivedIs ==
  ASSUME TInv PROVE Archived \in SUBSET Ids /\ \A c \in Chunks : objects[c] \subseteq Archived
<1>1. \A c \in Chunks : objects[c] \subseteq Ids BY DEF TInv, ColdTypes
<1>2. table \subseteq Ids BY DEF TInv, ColdTypes
<1> QED BY <1>1, <1>2 DEF Archived

LEMMA ArchivedSame == ASSUME UNCHANGED <<objects, table>> PROVE Archived' = Archived
BY DEF Archived

LEMMA SinkIs == ASSUME TInv PROVE conf.sink \in Sinks
BY ConfigsAssumption DEF TInv, PartTypes, Sinks

LEMMA TallyNow ==
  ASSUME TInv, Tally, Live
  PROVE  \E t : /\ Sys(conf.sink, st, objects, Archived, hot, t)
                /\ \A r \in Runners :
                     JobFits(conf.sink, st, objects, Archived, hot, t, pc[r], loc[r])
<1>1. Archived \subseteq hot BY DEF Tally, Fitting
<1>2. PICK t : /\ Rowwise(conf.sink, st, objects, Archived, hot, t)
               /\ \A r \in Runners :
                    JobFits(conf.sink, st, objects, Archived, hot, t, pc[r], loc[r])
  BY DEF Tally, Fitting
<1>3. /\ st \in [Chunks -> Rows] /\ objects \in [Chunks -> SUBSET Ids] /\ hot \in SUBSET Ids
  BY DEF TInv, RowTypes, ColdTypes, PartTypes
<1>4. Sys(conf.sink, st, objects, Archived, hot, t)
  BY <1>1, <1>2, <1>3, ArchivedIs, SinkIs DEF Sys
<1> QED BY <1>2, <1>4

(* A live partition was live before, unless it was just reset.             *)
LEMMA LiveBack ==
  ASSUME TInv, [Next]_vars, ~Reset, Live' PROVE Live
<1> USE DEF oper, ghosts, part, vars
<1>1. CASE Outer
  <2>1. UNCHANGED <<overlap, conf>> /\ (torn => torn') BY <1>1, OuterIs
  <2>2. ~Exchange /\ ~RestoreDies BY DEF Exchange, RestoreDies, Live
  <2>3. UNCHANGED <<exists, restore>>
    BY <1>1, <2>2 DEF Outer, Lapse, Age, Day, BeginLost, Insert
  <2> QED BY <2>1, <2>3 DEF Live
<1>2. ASSUME NEW r \in Runners, Begin(r) PROVE Live BY <1>2 DEF Begin, Live
<1>3. ASSUME NEW r \in Runners, (Step(r) \/ Others(r)) /\ ~Begin(r) PROVE Live
  <2>1. UNCHANGED <<conf, overlap, torn, restore>> BY <1>3, Moves
  <2>2. exists' => exists
    <3>1. CASE Drop(r) BY <3>1 DEF Drop
    <3>2. CASE ~Drop(r)
      <4>1. UNCHANGED exists
        BY <1>3, <3>2 DEF Step, Others, Select, Load, Read, WriteRows, WriteMeta, Seed, Copy,
                          Verify, CountRows, Mark, End, Budget, Fail, Crash
      <4> QED BY <4>1
    <3> QED BY <3>1, <3>2
  <2> QED BY <2>1, <2>2 DEF Live
<1> QED BY <1>1, <1>2, <1>3, NextCases

LEMMA RestoredNext == TInv /\ Renewed /\ Restored /\ [Next]_vars => Restored'
<1> SUFFICES ASSUME TInv, Renewed, Restored, [Next]_vars, ~torn', restore' = "exchanged"
             PROVE  Archived' \subseteq hot'
  BY DEF Restored
<1> USE DEF oper, ghosts, part, cold, vars
<1>1. CASE Outer
  <2>1. UNCHANGED <<objects, table>> /\ (torn => torn') BY <1>1, OuterIs
  <2>2. Archived' = Archived BY <2>1, ArchivedSame
  <2>3. CASE Exchange BY <2>2, <2>3 DEF Exchange
  <2>4. CASE ~Exchange
    <3>1. ~Reset /\ ~RestoreDies BY DEF Reset, RestoreDies
    <3>2. restore' = restore BY <1>1, <2>4, <3>1 DEF Outer, Lapse, Age, Day, BeginLost, Insert
    <3>3. CASE \E i \in Ids : Insert(i) BY <2>1, <2>2, <3>2, <3>3 DEF Insert, Restored
    <3>4. CASE ~(\E i \in Ids : Insert(i))
      <4>1. hot' = hot BY <1>1, <2>4, <3>1, <3>4 DEF Outer, Lapse, Age, Day, BeginLost
      <4> QED BY <2>1, <2>2, <3>2, <4>1 DEF Restored
    <3> QED BY <3>3, <3>4
  <2> QED BY <2>3, <2>4
<1>2. ASSUME NEW r \in Runners, Begin(r) PROVE FALSE BY <1>2 DEF Begin
<1>3. ASSUME NEW r \in Runners, (Step(r) \/ Others(r)) /\ ~Begin(r) PROVE FALSE
  <2>1. pc[r] # "idle" /\ UNCHANGED <<torn, restore>> BY <1>3, Moves
  <2> QED BY <2>1 DEF Renewed, Working
<1> QED BY <1>1, <1>2, <1>3, NextCases

(* A step of the one job at work, and one that leaves the data alone.      *)
LEMMA TallyJob ==
  ASSUME TInv, Alone, Live, NEW r \in Runners, pc[r] # "idle", NEW p, NEW l,
         pc' = [pc EXCEPT ![r] = p], loc' = [loc EXCEPT ![r] = l], conf' = conf,
         Archived' \subseteq hot', NEW t,
         Rowwise(conf.sink, st', objects', Archived', hot', t),
         JobFits(conf.sink, st', objects', Archived', hot', t, p, l)
  PROVE  Tally'
<1>0. pc \in [Runners -> Pcs] /\ loc \in [Runners -> Locals] BY DEF TInv, Jobs, JobTypes
<1>1. \A q \in Runners : q # r => pc'[q] = "idle" BY <1>0 DEF Alone, Live
<1>2. pc'[r] = p /\ loc'[r] = l BY <1>0
<1>3. \A q \in Runners : JobFits(conf.sink, st', objects', Archived', hot', t, pc'[q], loc'[q])
  BY <1>1, <1>2, NoJob
<1>4. Fitting(conf.sink, st', objects', Archived', hot', pc', loc') BY <1>3 DEF Fitting
<1> QED BY <1>4 DEF Tally

LEMMA TallyMove ==
  ASSUME TInv, Alone, Live, NEW r \in Runners, pc[r] # "idle", NEW p, NEW l,
         pc' = [pc EXCEPT ![r] = p], loc' = [loc EXCEPT ![r] = l],
         UNCHANGED <<conf, st, objects, table, hot>>, NEW t,
         Sys(conf.sink, st, objects, Archived, hot, t),
         JobFits(conf.sink, st, objects, Archived, hot, t, p, l)
  PROVE  Tally'
<1>1. Archived' = Archived BY ArchivedSame
<1>2. Archived' \subseteq hot' /\ Rowwise(conf.sink, st', objects', Archived', hot', t)
  BY <1>1 DEF Sys
<1>3. JobFits(conf.sink, st', objects', Archived', hot', t, p, l) BY <1>1
<1> QED BY <1>2, <1>3, TallyJob

(* The steps of a job, one by one.                                         *)
LEMMA TallyLoad ==
  ASSUME TInv, Alone, Live, Tally, NEW r \in Runners, Load(r) PROVE Tally'
<1> USE DEF part, cold
<1> DEFINE l == loc[r]
           s == st[l.chunk]
           Fit(t, p, m) == JobFits(conf.sink, st, objects, Archived, hot, t, p, m)
<1>0. /\ l \in Locals /\ s \in Rows /\ pc[r] = "load" /\ pc \in [Runners -> Pcs]
      /\ UNCHANGED <<conf, st, objects, table, hot>> /\ ~conf.dryRun
  BY DEF TInv, Jobs, JobTypes, RowTypes, Locals, Load, Live
<1>1. PICK t : Sys(conf.sink, st, objects, Archived, hot, t) /\ Fit(t, pc[r], l)
  BY TallyNow
<1>2. Fit(t, "load", l) BY <1>0, <1>1
<1>3. pc = [pc EXCEPT ![r] = "load"] /\ pc[r] # "idle" BY <1>0
<1>4. CASE s.phase = "dropped" /\ Leave(r)
  <2>1. Fit(t, "release", Start) BY NoJob
  <2> QED BY <1>0, <1>1, <1>3, <1>4, <2>1, TallyMove DEF Leave, To, Set
<1>5. CASE /\ s.phase = "verified" /\ UNCHANGED pc
           /\ Set(r, NextChunk([Count(l, s) EXCEPT !.age = VerifiedAge(l, s)]))
  <2> DEFINE m == NextChunk([Count(l, s) EXCEPT !.age = VerifiedAge(l, s)])
  <2>1. /\ m.chunk = l.chunk + 1 /\ m.cursor = s.high /\ m.archived = l.archived + s.rows
        /\ m.allVerified = l.allVerified
    BY <1>0 DEF NextChunk, Count, Locals
  <2>2. loc' = [loc EXCEPT ![r] = m] BY <1>5 DEF Set
  <2> HIDE DEF m
  <2>3. Fit(t, "load", m) BY <1>0, <1>1, <1>2, <1>5, <2>1, LoadVerified
  <2>4. pc' = [pc EXCEPT ![r] = "load"] BY <1>3, <1>5
  <2> QED BY <1>0, <1>1, <1>3, <2>2, <2>3, <2>4, TallyMove
<1>6. CASE s.phase = "copied" /\ Set(r, [Count(l, s) EXCEPT !.rows = s.sum]) /\ To(r, "verify")
  <2> DEFINE m == [Count(l, s) EXCEPT !.rows = s.sum]
  <2>1. /\ m.chunk = l.chunk /\ m.cursor = s.high /\ m.archived = l.archived + s.rows
        /\ m.allVerified = l.allVerified /\ m.rows = s.sum
    BY <1>0 DEF Count, Locals
  <2>2. loc' = [loc EXCEPT ![r] = m] BY <1>6 DEF Set
  <2> HIDE DEF m
  <2>3. Fit(t, "verify", m) BY <1>0, <1>1, <1>2, <1>6, <2>1, LoadCopied
  <2>4. pc' = [pc EXCEPT ![r] = "verify"] BY <1>6 DEF To
  <2> QED BY <1>0, <1>1, <1>3, <2>2, <2>3, <2>4, TallyMove
<1>7. CASE s.phase \in {"none", "pending"}
           /\ Set(r, [l EXCEPT !.seed = (s.phase = "none")]) /\ To(r, "read")
  <2> DEFINE m == [l EXCEPT !.seed = (s.phase = "none")]
  <2>1. /\ m.chunk = l.chunk /\ m.cursor = l.cursor /\ m.archived = l.archived
        /\ m.allVerified = l.allVerified /\ (m.seed => s.phase = "none")
    BY <1>0 DEF Locals
  <2>2. loc' = [loc EXCEPT ![r] = m] BY <1>7 DEF Set
  <2> HIDE DEF m
  <2>3. Fit(t, "read", m) BY <1>2, <2>1, LoadOpen
  <2>4. pc' = [pc EXCEPT ![r] = "read"] BY <1>7 DEF To
  <2> QED BY <1>0, <1>1, <1>3, <2>2, <2>3, <2>4, TallyMove
<1> QED BY <1>0, <1>4, <1>5, <1>6, <1>7 DEF Load

LEMMA TallyRead ==
  ASSUME TInv, Alone, Live, Tally, NEW r \in Runners, Read(r) PROVE Tally'
<1> USE DEF part, cold
<1> DEFINE l == loc[r]
           rows == ReadChunk(l.cursor)
           Fit(t, p, m) == JobFits(conf.sink, st, objects, Archived, hot, t, p, m)
<1>0. /\ l \in Locals /\ pc[r] = "read" /\ pc \in [Runners -> Pcs]
      /\ loc \in [Runners -> Locals]
      /\ UNCHANGED <<conf, st, objects, table, hot>> /\ ~conf.dryRun /\ exists
  BY DEF TInv, Jobs, JobTypes, Read, Live
<1>1. PICK t : Sys(conf.sink, st, objects, Archived, hot, t) /\ Fit(t, pc[r], l)
  BY TallyNow
<1>2. Fit(t, "read", l) /\ pc[r] # "idle" BY <1>0, <1>1
<1>3. rows = First({i \in hot : i > l.cursor})
  <2>1. {i \in hot : i > l.cursor /\ (conf.filter => i \in Matching)} = {i \in hot : i > l.cursor}
    BY DEF Live
  <2> QED BY <2>1 DEF ReadChunk, First
<1> HIDE DEF rows
<1>4. CASE To(r, "count") /\ UNCHANGED loc
  <2>1. WayFits(conf.sink, st, objects, Archived, t, l) BY <1>2, JobIs
  <2>2. Fit(t, "count", l) BY <2>1, JobIs DEF WayFits
  <2>3. loc' = [loc EXCEPT ![r] = l] BY <1>0, <1>4
  <2> QED BY <1>0, <1>1, <1>2, <1>4, <2>2, <2>3, TallyMove DEF To
<1>5. CASE Set(r, [l EXCEPT !.rows = rows]) /\ To(r, "data")
  <2> DEFINE m == [l EXCEPT !.rows = rows]
  <2>1. /\ m.chunk = l.chunk /\ m.cursor = l.cursor /\ m.archived = l.archived
        /\ m.allVerified = l.allVerified /\ m.seed = l.seed /\ m.rows = rows
    BY <1>0 DEF Locals
  <2>2. loc' = [loc EXCEPT ![r] = m] BY <1>5 DEF Set
  <2> HIDE DEF m
  <2>3. Fit(t, "data", m) BY <1>0, <1>1, <1>2, <1>3, <2>1, ReadSome
  <2>4. pc' = [pc EXCEPT ![r] = "data"] BY <1>5 DEF To
  <2> QED BY <1>0, <1>1, <1>2, <2>2, <2>3, <2>4, TallyMove
<1> QED BY <1>0, <1>4, <1>5 DEF Read, rows

LEMMA TallyWriteRows ==
  ASSUME TInv, TInv', Alone, Live, Tally, NEW r \in Runners, WriteRows(r) PROVE Tally'
<1> USE DEF part
<1> DEFINE l == loc[r]
           c == l.chunk
           rows == l.rows
           Fit(t, p, m) == JobFits(conf.sink, st, objects, Archived, hot, t, p, m)
<1>0. /\ l \in Locals /\ pc[r] = "data" /\ pc \in [Runners -> Pcs]
      /\ loc \in [Runners -> Locals] /\ c \in Chunks /\ rows # {}
      /\ objects \in [Chunks -> SUBSET Ids]
      /\ UNCHANGED <<conf, st, hot, loc>> /\ pc' = [pc EXCEPT ![r] = "meta"]
  BY DEF TInv, Jobs, JobTypes, ColdTypes, WriteRows, To, Locals, Full
<1>1. PICK t : Sys(conf.sink, st, objects, Archived, hot, t) /\ Fit(t, pc[r], l)
  BY TallyNow
<1>2. Fit(t, "data", l) /\ pc[r] # "idle" BY <1>0, <1>1
<1>3. rows \subseteq hot /\ Archived \subseteq hot
  <2>1. ReadFits(st, Archived, hot, l) BY <1>2, JobIs
  <2> QED BY <1>1, <2>1 DEF ReadFits, Sys
<1>4. conf.sink = "s3" /\ st[c].phase # "none" => objects[c] # {}
  BY <1>0, <1>1 DEF Sys, Rowwise, RowFits
<1> HIDE DEF c, rows
<1>5. /\ Archived \subseteq Archived' /\ Archived' \subseteq Archived \cup rows
      /\ \A i \in Chunks : i # c => objects'[i] = objects[i]
      /\ st[c].phase # "none" => objects'[c] = objects[c]
      /\ conf.sink = "s3" => objects'[c] # {}
      /\ conf.sink = "clickhouse" => rows \subseteq Archived'
  <2>1. CASE S3Write(c, rows) /\ objects[c] = {}
    <3>1. objects' = [objects EXCEPT ![c] = rows] /\ table' = table /\ conf.sink = "s3"
      BY <2>1 DEF S3Write
    <3>2. objects'[c] = rows /\ \A i \in Chunks : i # c => objects'[i] = objects[i]
      BY <1>0, <3>1
    <3>3. Archived \subseteq Archived' /\ Archived' \subseteq Archived \cup rows
      BY <1>0, <2>1, <3>1, <3>2 DEF Archived
    <3> QED BY <1>0, <1>4, <2>1, <3>1, <3>2, <3>3
  <2>2. CASE S3Write(c, rows) /\ objects[c] # {}
    <3>1. objects' = objects /\ table' = table /\ conf.sink = "s3" BY <2>2 DEF S3Write
    <3> QED BY <2>2, <3>1, ArchivedSame
  <2>3. CASE ClickhouseWrite(c, rows)
    <3>1. objects' = objects /\ table' = table \cup rows /\ conf.sink = "clickhouse"
      BY <2>3 DEF ClickhouseWrite, ClickhouseInsert
    <3> QED BY <3>1 DEF Archived
  <2> QED BY <2>1, <2>2, <2>3 DEF WriteRows, c, rows
<1>6. WriteFits(conf.sink, objects', Archived', l) BY <1>5 DEF WriteFits, c, rows
<1>7. Archived' \in SUBSET Ids
  <2>1. Archived \in SUBSET Ids /\ rows \in SUBSET Ids BY <1>0, ArchivedIs DEF Locals, rows
  <2> QED BY <1>5, <2>1
<1>8. /\ Rowwise(conf.sink, st, objects', Archived', hot, t)
      /\ JobFits(conf.sink, st, objects', Archived', hot, t, "meta", l)
  BY <1>0, <1>1, <1>2, <1>5, <1>6, <1>7, RowsWritten DEF c, rows
<1>9. Archived' \subseteq hot' BY <1>0, <1>3, <1>5
<1>10. loc' = [loc EXCEPT ![r] = l] BY <1>0
<1>11. /\ Rowwise(conf.sink, st', objects', Archived', hot', t)
       /\ JobFits(conf.sink, st', objects', Archived', hot', t, "meta", l)
  BY <1>0, <1>8
<1> QED BY <1>0, <1>2, <1>9, <1>10, <1>11, TallyJob

LEMMA TallyWriteMeta ==
  ASSUME TInv, Alone, Live, Tally, NEW r \in Runners, WriteMeta(r) PROVE Tally'
<1> USE DEF part
<1> DEFINE l == loc[r]
           Fit(t, p, m) == JobFits(conf.sink, st, objects, Archived, hot, t, p, m)
           p == IF l.seed THEN "seed" ELSE "copied"
<1>0. /\ l \in Locals /\ pc[r] = "meta" /\ loc \in [Runners -> Locals]
      /\ UNCHANGED <<conf, st, objects, table, hot, loc>> /\ pc' = [pc EXCEPT ![r] = p]
  BY DEF TInv, JobTypes, WriteMeta, To
<1>1. PICK t : Sys(conf.sink, st, objects, Archived, hot, t) /\ Fit(t, pc[r], l)
  BY TallyNow
<1>2. Fit(t, "meta", l) /\ pc[r] # "idle" BY <1>0, <1>1
<1>3. Fit(t, p, l)
  <2>1. CASE l.seed BY <1>2, <2>1, JobIs
  <2>2. CASE ~l.seed BY <1>2, <2>2, JobIs
  <2> QED BY <2>1, <2>2
<1>4. loc' = [loc EXCEPT ![r] = l] BY <1>0
<1> HIDE DEF p
<1> QED BY <1>0, <1>1, <1>2, <1>3, <1>4, TallyMove

LEMMA TallySeed ==
  ASSUME TInv, Alone, Live, Tally, NEW r \in Runners, Seed(r) PROVE Tally'
<1> USE DEF part, cold
<1> DEFINE l == loc[r]
           rows == l.rows
           q == [phase |-> "pending", high |-> Max(rows), rows |-> Cardinality(rows),
                 sum |-> rows, age |-> 0]
           Fit(t, p, m) == JobFits(conf.sink, st, objects, Archived, hot, t, p, m)
<1>0. /\ l \in Locals /\ pc[r] = "seed" /\ loc \in [Runners -> Locals] /\ rows # {}
      /\ UNCHANGED <<conf, objects, table, hot, loc>> /\ pc' = [pc EXCEPT ![r] = "copied"]
      /\ st' = [st EXCEPT ![l.chunk] = q]
  BY DEF TInv, JobTypes, Seed, To, Full
<1>1. PICK t : Sys(conf.sink, st, objects, Archived, hot, t) /\ Fit(t, pc[r], l)
  BY TallyNow
<1>2. Fit(t, "seed", l) /\ pc[r] # "idle" BY <1>0, <1>1
<1>3. q.phase = "pending" /\ q.high = Max(rows) /\ q.rows = Cardinality(rows) /\ q.sum = rows
  OBVIOUS
<1> HIDE DEF q
<1>4. PICK t2 : /\ Rowwise(conf.sink, st', objects, Archived, hot, t2)
                /\ JobFits(conf.sink, st', objects, Archived, hot, t2, "copied", l)
  BY <1>0, <1>1, <1>2, <1>3, RowSeeded
<1>5. loc' = [loc EXCEPT ![r] = l] BY <1>0
<1>6. Archived' = Archived BY <1>0, ArchivedSame
<1>7. /\ Rowwise(conf.sink, st', objects', Archived', hot', t2)
      /\ JobFits(conf.sink, st', objects', Archived', hot', t2, "copied", l)
  BY <1>0, <1>4, <1>6
<1>8. Archived' \subseteq hot' BY <1>0, <1>1, <1>6 DEF Sys
<1> QED BY <1>0, <1>2, <1>5, <1>7, <1>8, TallyJob

LEMMA TallyCopy ==
  ASSUME TInv, Alone, Live, Tally, NEW r \in Runners, Copy(r) PROVE Tally'
<1> USE DEF part, cold
<1> DEFINE l == loc[r]
           rows == l.rows
           c == l.chunk
           q == [Advanced(c, "copied") EXCEPT !.sum = rows]
           m == [l EXCEPT !.archived = @ + Cardinality(rows), !.copiedAny = TRUE,
                          !.cursor = Max(rows)]
           Fit(t, p, k) == JobFits(conf.sink, st, objects, Archived, hot, t, p, k)
<1>0. /\ l \in Locals /\ pc[r] = "copied" /\ loc \in [Runners -> Locals] /\ rows # {}
      /\ UNCHANGED <<conf, objects, table, hot>> /\ st[c] \in Rows
  BY DEF TInv, JobTypes, RowTypes, Locals, Copy, Full
<1>1. PICK t : Sys(conf.sink, st, objects, Archived, hot, t) /\ Fit(t, pc[r], l)
  BY TallyNow
<1>2. Fit(t, "copied", l) /\ pc[r] # "idle" BY <1>0, <1>1
<1>3. CASE Leave(r) /\ UNCHANGED st
  <2>1. Fit(t, "release", Start) BY NoJob
  <2> QED BY <1>0, <1>1, <1>2, <1>3, <2>1, TallyMove DEF Leave, To, Set
<1>4. CASE /\ CanAdvance(c, "copied") /\ st' = [st EXCEPT ![c] = q]
           /\ Set(r, m) /\ To(r, "verify")
  <2>1. st[c].phase = "pending" BY <1>4 DEF CanAdvance, Predecessor
  <2>2. q.phase = "copied" /\ q.high = st[c].high /\ q.rows = st[c].rows /\ q.sum = rows
    BY <1>0 DEF Advanced, Rows
  <2>3. /\ m.chunk = c /\ m.rows = rows /\ m.allVerified = l.allVerified
        /\ m.archived = l.archived + Cardinality(rows) /\ m.cursor = Max(rows)
    BY <1>0 DEF Locals
  <2>4. /\ loc' = [loc EXCEPT ![r] = m] /\ pc' = [pc EXCEPT ![r] = "verify"]
        /\ st' = [st EXCEPT ![c] = q]
    BY <1>4 DEF Set, To
  <2> HIDE DEF q, m
  <2>5. /\ Rowwise(conf.sink, st', objects, Archived, hot, t)
        /\ JobFits(conf.sink, st', objects, Archived, hot, t, "verify", m)
    BY <1>0, <1>1, <1>2, <2>1, <2>2, <2>3, <2>4, RowCopied
  <2>6. Archived' = Archived BY <1>0, ArchivedSame
  <2>7. /\ Rowwise(conf.sink, st', objects', Archived', hot', t)
        /\ JobFits(conf.sink, st', objects', Archived', hot', t, "verify", m)
    BY <1>0, <2>5, <2>6
  <2>8. Archived' \subseteq hot' BY <1>0, <1>1, <2>6 DEF Sys
  <2> QED BY <1>0, <1>2, <2>4, <2>7, <2>8, TallyJob
<1> QED BY <1>3, <1>4 DEF Copy

LEMMA TallyVerify ==
  ASSUME TInv, TInv', Alone, Live, Tally, NEW r \in Runners, Verify(r) PROVE Tally'
<1> USE DEF part, cold
<1> DEFINE l == loc[r]
           c == l.chunk
           z == conf.sink
           Fit(t, p, k) == JobFits(z, st, objects, Archived, hot, t, p, k)
<1>0. /\ l \in Locals /\ pc[r] = "verify" /\ loc \in [Runners -> Locals] /\ c \in Chunks
      /\ UNCHANGED <<conf, objects, table, hot>> /\ st \in [Chunks -> Rows]
      /\ loc' \in [Runners -> Locals]
  BY DEF TInv, JobTypes, RowTypes, Locals, Verify
<1>1. PICK t : Sys(z, st, objects, Archived, hot, t) /\ Fit(t, pc[r], l)
  BY TallyNow
<1>2. Fit(t, "verify", l) /\ pc[r] # "idle" BY <1>0, <1>1
<1>3. l.rows = st[c].sum /\ st[c].phase = "copied" BY <1>2, JobIs DEF VerifyFits
<1>4. Archived' = Archived BY <1>0, ArchivedSame
<1>5. Archived' \subseteq hot' BY <1>0, <1>1, <1>4 DEF Sys
<1>6. ASSUME NEW m, Alike(z, st, st', objects), m.chunk = c + 1, m.cursor = l.cursor,
             m.archived = l.archived, m.allVerified => l.allVerified /\ Whole(z, st, objects, c),
             Set(r, m), To(r, "load")
      PROVE  Tally'
  <2>1. loc' = [loc EXCEPT ![r] = m] /\ pc' = [pc EXCEPT ![r] = "load"] BY <1>6 DEF Set, To
  <2>2. loc'[r] = m BY <1>0, <2>1
  <2>3. m.chunk \in Chunks BY <1>0, <2>2 DEF Locals
  <2>4. JobFits(z, st', objects, Archived, hot, t, "load", m)
    BY <1>0, <1>1, <1>2, <1>6, <2>3, RowVerified
  <2>5. Rowwise(z, st', objects, Archived, hot, t) BY <1>1, <1>6, RowsAlike DEF Sys
  <2>6. /\ Rowwise(z, st', objects', Archived', hot', t)
        /\ JobFits(z, st', objects', Archived', hot', t, "load", m)
    BY <1>0, <1>4, <2>4, <2>5
  <2> QED BY <1>0, <1>2, <1>5, <2>1, <2>6, TallyJob
<1>7. CASE Leave(r) /\ UNCHANGED st
  <2>1. Fit(t, "release", Start) BY NoJob
  <2> QED BY <1>0, <1>1, <1>2, <1>7, <2>1, TallyMove DEF Leave, To, Set
<1>8. CASE /\ VerifyChunk(c, l.rows) /\ st' = [st EXCEPT ![c] = Advanced(c, "verified")]
           /\ Set(r, NextChunk([l EXCEPT !.age = 0])) /\ To(r, "load")
  <2> DEFINE m == NextChunk([l EXCEPT !.age = 0])
             q == Advanced(c, "verified")
  <2>1. m.chunk = c + 1 /\ m.cursor = l.cursor /\ m.archived = l.archived
        /\ m.allVerified = l.allVerified
    BY <1>0 DEF NextChunk, Locals
  <2>2. q.phase = "verified" /\ q.high = st[c].high /\ q.rows = st[c].rows /\ q.sum = st[c].sum
    BY <1>0 DEF Advanced, Rows
  <2>3. Whole(z, st, objects, c)
    BY <1>3, <1>8 DEF Whole, VerifyChunk, S3Verify, ClickhouseVerify
  <2>4. st' = [st EXCEPT ![c] = q] BY <1>8
  <2> HIDE DEF m, q
  <2>5. \A i \in Chunks : st'[i] = IF i = c THEN q ELSE st[i] BY <1>0, <2>4
  <2>6. Alike(z, st, st', objects) BY <1>3, <2>2, <2>3, <2>5 DEF Alike
  <2> QED BY <1>6, <1>8, <2>1, <2>3, <2>6 DEF m
<1>9. CASE /\ UNCHANGED st /\ To(r, "load")
           /\ Set(r, NextChunk([l EXCEPT !.allVerified = FALSE]))
  <2> DEFINE m == NextChunk([l EXCEPT !.allVerified = FALSE])
  <2>1. m.chunk = c + 1 /\ m.cursor = l.cursor /\ m.archived = l.archived
        /\ m.allVerified = FALSE
    BY <1>0 DEF NextChunk, Locals
  <2> HIDE DEF m
  <2>2. Alike(z, st, st', objects) BY <1>9 DEF Alike
  <2> QED BY <1>6, <1>9, <2>1, <2>2 DEF m
<1> QED BY <1>7, <1>8, <1>9 DEF Verify

(* The start of a walk, and the steps that end one.                        *)
LEMMA TallySelect ==
  ASSUME TInv, Renewed, Alone, Fresher, Live, Tally, NEW r \in Runners, Select(r) PROVE Tally'
<1> USE DEF part, cold
<1> DEFINE l == loc[r]
           Fit(t, p, k) == JobFits(conf.sink, st, objects, Archived, hot, t, p, k)
<1>0. /\ l \in Locals /\ pc[r] = "select" /\ loc \in [Runners -> Locals]
      /\ UNCHANGED <<conf, st, objects, table, hot, loc>>
      /\ pc' = [pc EXCEPT ![r] = "load"] \/ pc' = [pc EXCEPT ![r] = "release"]
  BY DEF TInv, JobTypes, Select, To
<1>1. PICK t : Sys(conf.sink, st, objects, Archived, hot, t)
  BY TallyNow
<1>2. l.chunk = 0 /\ l.cursor = 0 /\ l.archived = 0 BY <1>0 DEF Renewed, Fresher, Rest
<1>3. Fit(t, "release", l) BY NoJob
<1>4. t[0] = 0 BY <1>1 DEF Sys, Rowwise
<1>5. 0 \in Chunks BY IdsFinite
<1>6. Below(Archived, 0) \in Nat BY ArchivedIs, BelowIs
<1>7. 0 <= Below(Archived, 0) BY <1>6
<1>8. WayFits(conf.sink, st, objects, Archived, t, l)
  <2>1. /\ Behind(st, 0) /\ Sound(conf.sink, st, objects, 0) /\ High(st, 0) = 0
    BY <1>5, SoundIs
  <2>2. Covers(conf.sink, st, objects, Archived, t, 0, 0) BY <1>4, <1>7, <2>1 DEF Covers
  <2> QED BY <1>2, <1>7, <2>1, <2>2 DEF WayFits
<1>9. Fit(t, "load", l)
  <2>1. l.archived <= t[l.chunk] BY <1>2, <1>4
  <2> QED BY <1>8, <2>1, JobIs
<1>10. loc' = [loc EXCEPT ![r] = l] /\ pc[r] # "idle" BY <1>0
<1> QED BY <1>0, <1>1, <1>3, <1>9, <1>10, TallyMove

LEMMA TallyEnds ==
  ASSUME TInv, Alone, Live, Live', Tally, NEW r \in Runners,
         End(r) \/ CountRows(r) \/ Drop(r) \/ Mark(r) \/ Others(r)
  PROVE  Tally'
<1> USE DEF part, cold
<1>0. pc \in [Runners -> Pcs] /\ loc \in [Runners -> Locals] BY DEF TInv, Jobs, JobTypes
<1>1. PICK t : /\ Sys(conf.sink, st, objects, Archived, hot, t)
               /\ JobFits(conf.sink, st, objects, Archived, hot, t, pc[r], loc[r])
  BY TallyNow
<1>2. pc[r] # "mark" BY <1>1, JobIs
<1>3. ~Mark(r) BY <1>2 DEF Mark
<1>4. ~Drop(r) \/ Leave(r) BY DEF Drop, Live
<1>5. /\ UNCHANGED <<conf, st, objects, table>> /\ pc[r] # "idle"
  BY <1>3 DEF End, CountRows, Drop, Others, Budget, Fail, Crash, Working
<1>6. UNCHANGED hot
  BY <1>3 DEF End, CountRows, Drop, Others, Budget, Fail, Crash, Live
<1>7. \E p \in {"idle", "release", "drop"} :
        \E l : pc' = [pc EXCEPT ![r] = p] /\ loc' = [loc EXCEPT ![r] = l]
  <2>1. loc = [loc EXCEPT ![r] = loc[r]] BY <1>0
  <2>2. CASE Leave(r) BY <2>2 DEF Leave, To, Set
  <2>3. CASE End(r) BY <2>1, <2>3 DEF End, To
  <2>4. CASE CountRows(r) BY <2>2, <2>4 DEF CountRows, To, Set
  <2>5. CASE Others(r) BY <2>2, <2>5 DEF Others, Budget, Fail, Crash, To, Set
  <2> QED BY <1>3, <1>4, <2>2, <2>3, <2>4, <2>5
<1>8. PICK p \in {"idle", "release", "drop"} :
        \E l : pc' = [pc EXCEPT ![r] = p] /\ loc' = [loc EXCEPT ![r] = l]
  BY <1>7
<1>9. PICK l : pc' = [pc EXCEPT ![r] = p] /\ loc' = [loc EXCEPT ![r] = l] BY <1>8
<1>10. JobFits(conf.sink, st, objects, Archived, hot, t, p, l) BY NoJob
<1> QED BY <1>1, <1>5, <1>6, <1>9, <1>10, TallyMove

LEMMA TallyOuter ==
  ASSUME TInv, Live, Live', Tally, Outer, ~Reset PROVE Tally'
<1> USE DEF part, cold, ghosts, oper, vars
<1> DEFINE z == conf.sink
<1>0. /\ loc \in [Runners -> Locals] /\ st \in [Chunks -> Rows]
      /\ hot \in SUBSET Ids
  BY DEF TInv, JobTypes, RowTypes, PartTypes
<1>1. /\ UNCHANGED <<pc, conf, objects, table>>
      /\ \A r \in Runners : /\ loc'[r].chunk = loc[r].chunk /\ loc'[r].cursor = loc[r].cursor
                            /\ loc'[r].archived = loc[r].archived /\ loc'[r].seed = loc[r].seed
                            /\ loc'[r].allVerified = loc[r].allVerified
                            /\ loc'[r].rows = loc[r].rows
  BY OuterIs
<1>2. ~Exchange /\ ~RestoreDies BY DEF Exchange, RestoreDies, Live
<1>3. hot \subseteq hot'
  <2>1. CASE \E i \in Ids : Insert(i) BY <2>1 DEF Insert
  <2>2. CASE ~(\E i \in Ids : Insert(i))
    <3>1. hot' = hot BY <1>2, <2>2 DEF Outer, Lapse, Age, Day, BeginLost
    <3> QED BY <3>1
  <2> QED BY <2>1, <2>2
<1>4. Alike(z, st, st', objects) /\ \A i \in Chunks : st'[i].phase = st[i].phase
  <2>1. CASE Day
    <3>1. ASSUME NEW i \in Chunks
          PROVE  /\ st'[i].phase = st[i].phase /\ st'[i].sum = st[i].sum
                 /\ st'[i].high = st[i].high /\ st'[i].rows = st[i].rows
      <4>1. st[i] \in Rows /\ st' = Aged BY <1>0, <2>1 DEF Day
      <4>2. st'[i] = st[i] \/ st'[i] = [st[i] EXCEPT !.age = Older(@)] BY <4>1 DEF Aged
      <4> QED BY <4>1, <4>2 DEF Rows
    <3> QED BY <3>1 DEF Alike
  <2>2. CASE ~Day
    <3>1. st' = st BY <1>2, <2>2 DEF Outer, Lapse, Age, BeginLost, Insert
    <3> QED BY <3>1 DEF Alike
  <2> QED BY <2>1, <2>2
<1>5. PICK t : /\ Sys(z, st, objects, Archived, hot, t)
               /\ \A r \in Runners : JobFits(z, st, objects, Archived, hot, t, pc[r], loc[r])
  BY TallyNow
<1>6. Archived' = Archived /\ Archived \in SUBSET Ids BY <1>1, ArchivedSame, ArchivedIs
<1>7. Archived' \subseteq hot' BY <1>3, <1>5, <1>6 DEF Sys
<1> HIDE DEF z
<1>8. Rowwise(z, st', objects, Archived, hot, t) BY <1>4, <1>5, RowsAlike DEF Sys
<1>9. st' \in [Chunks -> Rows] /\ t \in [Nat -> Nat]
  <2>1. CASE Day
    <3>1. \A c \in Chunks : Aged[c] \in Rows BY <1>0, RowSteps DEF Aged
    <3>2. Aged = [c \in Chunks |-> Aged[c]] BY DEF Aged
    <3> QED BY <1>5, <2>1, <3>1, <3>2 DEF Day, Sys, Rowwise
  <2>2. CASE ~Day
    <3>1. st' = st BY <1>2, <2>2 DEF Outer, Lapse, Age, BeginLost, Insert
    <3> QED BY <1>0, <1>5, <3>1 DEF Sys, Rowwise
  <2> QED BY <2>1, <2>2
<1>10. ASSUME NEW c \in Chunks, st'[c].phase # "none"
       PROVE  RowFits(z, st', objects, Archived, hot', t, c)
  <2>1. RowFits(z, st', objects, Archived, hot, t, c) BY <1>8, <1>10 DEF Rowwise
  <2>2. Agree(st', st', objects, objects, c + 1) BY DEF Agree
  <2> QED BY <1>3, <1>6, <1>9, <2>1, <2>2, RowBelow
<1>11. Rowwise(z, st', objects, Archived, hot', t) BY <1>8, <1>10 DEF Rowwise
<1>12. ASSUME NEW r \in Runners
       PROVE  JobFits(z, st', objects, Archived, hot', t, pc[r], loc'[r])
  <2>1. loc[r] \in Locals BY <1>0
  <2> QED BY <1>1, <1>3, <1>4, <1>5, <2>1, JobAlike
<1>13. z' = z BY <1>1 DEF z
<1>14. /\ Rowwise(z, st', objects', Archived', hot', t)
       /\ \A r \in Runners : JobFits(z, st', objects', Archived', hot', t, pc'[r], loc'[r])
  BY <1>1, <1>6, <1>11, <1>12
<1>15. Fitting(z, st', objects', Archived', hot', pc', loc') BY <1>7, <1>14 DEF Fitting
<1> QED BY <1>1, <1>15 DEF Tally, z

LEMMA TallyBegin ==
  ASSUME TInv, Live, Tally, NEW r \in Runners, Begin(r) PROVE Tally'
<1> USE DEF part, cold
<1>0. pc \in [Runners -> Pcs] BY DEF TInv, Jobs
<1>1. pc' = [pc EXCEPT ![r] = "select"] /\ UNCHANGED <<conf, st, objects, table, hot, loc>>
  BY DEF Begin, To
<1>2. PICK t : /\ Sys(conf.sink, st, objects, Archived, hot, t)
               /\ \A q \in Runners : JobFits(conf.sink, st, objects, Archived, hot, t, pc[q], loc[q])
  BY TallyNow
<1>3. Archived' = Archived BY <1>1, ArchivedSame
<1>4. ASSUME NEW q \in Runners
      PROVE  JobFits(conf.sink, st, objects, Archived, hot, t, pc'[q], loc[q])
  <2>1. CASE q = r
    <3>1. pc'[q] = "select" BY <1>0, <1>1, <2>1
    <3> QED BY <3>1, NoJob
  <2>2. CASE q # r
    <3>1. pc'[q] = pc[q] BY <1>0, <1>1, <2>2
    <3> QED BY <1>2, <3>1
  <2> QED BY <2>1, <2>2
<1>5. Archived \subseteq hot /\ Rowwise(conf.sink, st, objects, Archived, hot, t) BY <1>2 DEF Sys
<1>6. Fitting(conf.sink, st, objects, Archived, hot, pc', loc) BY <1>4, <1>5 DEF Fitting
<1> QED BY <1>1, <1>3, <1>6 DEF Tally

(* The state table is empty again, and no job is at work.                  *)
LEMMA Blank ==
  ASSUME NEW z, NEW s, NEW o, NEW U, NEW h, NEW p, NEW l, U \subseteq h,
         \A c \in Chunks : s[c].phase = "none", \A r \in Runners : p[r] = "idle"
  PROVE  Fitting(z, s, o, U, h, p, l)
<1> DEFINE t == [n \in Nat |-> 0]
<1>1. t \in [Nat -> Nat] /\ t[0] = 0 OBVIOUS
<1> HIDE DEF t
<1>2. Rowwise(z, s, o, U, h, t) BY <1>1 DEF Rowwise
<1>3. \A r \in Runners : JobFits(z, s, o, U, h, t, p[r], l[r]) BY NoJob
<1> QED BY <1>2, <1>3 DEF Fitting

LEMMA TallyReset ==
  ASSUME TInv, Renewed, Restored, Reset PROVE Tally'
<1> USE DEF part, cold
<1> SUFFICES ASSUME Live' PROVE Fitting(conf.sink, st, objects, Archived, hot, pc, loc)'
  BY DEF Tally
<1>1. /\ restore = "exchanged" /\ UNCHANGED <<conf, objects, table, hot, pc, loc, torn>>
      /\ st' = [c \in Chunks |-> NoRow]
  BY DEF Reset, ResetPartition
<1>2. ~torn BY <1>1 DEF Live
<1>3. Archived' = Archived BY <1>1, ArchivedSame
<1>4. Archived' \subseteq hot' BY <1>1, <1>2, <1>3 DEF Restored
<1>5. \A r \in Runners : pc'[r] = "idle" BY <1>1, <1>2 DEF Renewed, Working
<1>6. \A c \in Chunks : st'[c].phase = "none" BY <1>1 DEF NoRow
<1> QED BY <1>4, <1>5, <1>6, Blank

LEMMA TallyNext ==
  ASSUME TInv, TInv', Renewed, Restored, Alone, Fresher, Tally, [Next]_vars PROVE Tally'
<1>1. CASE Reset BY <1>1, TallyReset
<1>2. CASE ~Live' BY <1>2 DEF Tally
<1>3. CASE ~Reset /\ Live'
  <2>1. Live BY <1>3, LiveBack
  <2>2. CASE Outer BY <1>3, <2>1, <2>2, TallyOuter
  <2>3. ASSUME NEW r \in Runners, Begin(r) PROVE Tally' BY <2>1, <2>3, TallyBegin
  <2>4. ASSUME NEW r \in Runners, (Step(r) \/ Others(r)) /\ ~Begin(r) PROVE Tally'
    BY <1>3, <2>1, <2>4, TallySelect, TallyLoad, TallyRead, TallyWriteRows, TallyWriteMeta,
       TallySeed, TallyCopy, TallyVerify, TallyEnds DEF Step
  <2> QED BY <2>2, <2>3, <2>4, NextCases
<1> QED BY <1>1, <1>2, <1>3

(* The count of a complete walk is the count of the archived rows.         *)
LEMMA CountIsExact ==
  ASSUME TInv, Renewed, Tally, NEW r \in Runners, CountRows(r), exists, Droppable(loc[r]),
         ~overlap, ~torn
  PROVE  hot = Archived
<1> DEFINE l == loc[r]
<1>0. pc[r] = "count" /\ l \in Locals BY DEF CountRows, TInv, JobTypes
<1>1. Live
  <2>1. restore \in {"idle", "exchanged"} BY DEF TInv, OperTypes
  <2> QED BY <1>0, <2>1 DEF Live, Droppable, Renewed, Working
<1>2. PICK t : /\ Sys(conf.sink, st, objects, Archived, hot, t)
               /\ JobFits(conf.sink, st, objects, Archived, hot, t, pc[r], l)
  BY <1>1, TallyNow
<1>3. l.allVerified /\ Cardinality(hot) = l.archived BY DEF Droppable
<1>4. l.archived <= Below(Archived, l.cursor) BY <1>0, <1>2, <1>3, JobIs
<1>5. Archived \in SUBSET hot /\ hot \in SUBSET Ids /\ Archived \in SUBSET Ids BY <1>2 DEF Sys
<1>6. /\ Cardinality(hot) \in Nat /\ Cardinality(Archived) \in Nat /\ IsFiniteSet(hot)
      /\ Below(Archived, l.cursor) \in Nat /\ Below(Archived, l.cursor) <= Cardinality(Archived)
  BY <1>5, IdsFinite, BelowIs
<1>7. Cardinality(Archived) <= Cardinality(hot) BY <1>5, <1>6, FS_Subset
<1>8. Cardinality(hot) = Cardinality(Archived) BY <1>3, <1>4, <1>6, <1>7
<1> QED BY <1>5, <1>6, <1>8, FS_Subset

LEMMA ArchivedGrows == ASSUME TInv, [Next]_vars PROVE Archived \subseteq Archived'
<1> USE DEF cold, vars
<1>1. CASE \E r \in Runners : WriteRows(r)
  <2>1. PICK r \in Runners : WriteRows(r) BY <1>1
  <2> DEFINE c == loc[r].chunk
             rows == loc[r].rows
  <2>2. c \in Chunks /\ objects \in [Chunks -> SUBSET Ids]
    BY DEF TInv, JobTypes, ColdTypes, Locals
  <2> HIDE DEF c, rows
  <2>3. CASE S3Write(c, rows) /\ objects[c] = {}
    <3>1. objects' = [objects EXCEPT ![c] = rows] /\ table' = table BY <2>3 DEF S3Write
    <3>2. \A i \in Chunks : objects[i] \subseteq objects'[i] BY <2>2, <2>3, <3>1
    <3> QED BY <3>1, <3>2 DEF Archived
  <2>4. CASE S3Write(c, rows) /\ objects[c] # {}
    <3>1. UNCHANGED <<objects, table>> BY <2>4 DEF S3Write
    <3> QED BY <3>1, ArchivedSame
  <2>5. CASE ClickhouseWrite(c, rows) BY <2>5 DEF ClickhouseWrite, ClickhouseInsert, Archived
  <2> QED BY <2>1, <2>3, <2>4, <2>5 DEF WriteRows, c, rows
<1>2. CASE ~(\E r \in Runners : WriteRows(r))
  <2>1. UNCHANGED <<objects, table>>
    <3>1. CASE Outer BY <3>1, OuterIs
    <3>2. ASSUME NEW r \in Runners, Step(r) \/ Others(r) PROVE UNCHANGED <<objects, table>>
      BY <1>2, <3>2 DEF Step, Others, Begin, Select, Load, Read, WriteMeta, Seed, Copy, Verify,
                        CountRows, Drop, Mark, End, Budget, Fail, Crash
    <3> QED BY <3>1, <3>2, NextCases DEF Step
  <2> QED BY <2>1, ArchivedSame
<1> QED BY <1>1, <1>2

LEMMA CountedNext ==
  ASSUME TInv, Renewed, Tally, CountedIsArchived, [Next]_vars PROVE CountedIsArchived'
<1> SUFFICES ASSUME NEW q \in Runners, pc'[q] = "drop", ~overlap', ~torn'
             PROVE  loc'[q].rows \subseteq Archived'
  BY DEF CountedIsArchived
<1>0. pc \in [Runners -> Pcs] /\ loc \in [Runners -> Locals] BY DEF TInv, Jobs, JobTypes
<1>1. Archived \subseteq Archived' BY ArchivedGrows
<1>2. ASSUME pc[q] = "drop", ~overlap, ~torn, loc'[q].rows = loc[q].rows
      PROVE  loc'[q].rows \subseteq Archived'
  BY <1>1, <1>2 DEF CountedIsArchived
<1>3. CASE Outer BY <1>2, <1>3, OuterIs
<1>4. ASSUME NEW r \in Runners, Begin(r) PROVE loc'[q].rows \subseteq Archived'
  <2>1. /\ pc' = [pc EXCEPT ![r] = "select"] /\ UNCHANGED loc
        /\ (overlap => overlap') /\ (torn => torn')
    BY <1>4 DEF Begin, To
  <2>2. pc[q] = "drop" BY <1>0, <2>1
  <2> QED BY <1>2, <2>1, <2>2
<1>5. ASSUME NEW r \in Runners, (Step(r) \/ Others(r)) /\ ~Begin(r)
      PROVE  loc'[q].rows \subseteq Archived'
  <2>1. UNCHANGED <<conf, overlap, torn, restore>> BY <1>5, Moves
  <2>2. PICK p, l : /\ pc' = [pc EXCEPT ![r] = p] /\ loc' = [loc EXCEPT ![r] = l]
                    /\ p = "drop" => /\ CountRows(r) /\ exists /\ Droppable(loc[r])
                                     /\ l = [loc[r] EXCEPT !.rows = hot]
    BY <1>5, Moves
  <2>3. CASE q # r
    <3>1. pc'[q] = pc[q] /\ loc'[q] = loc[q] BY <1>0, <2>2, <2>3
    <3> QED BY <1>2, <2>1, <3>1
  <2>4. CASE q = r
    <3>1. pc'[q] = p /\ loc'[q] = l BY <1>0, <2>2, <2>4
    <3>2. CountRows(r) /\ exists /\ Droppable(loc[r]) /\ l = [loc[r] EXCEPT !.rows = hot]
      BY <2>2, <3>1
    <3>3. l.rows = hot BY <1>0, <3>2 DEF Locals
    <3>4. hot = Archived BY <2>1, <3>2, CountIsExact
    <3> QED BY <1>1, <3>1, <3>3, <3>4
  <2> QED BY <2>3, <2>4
<1> QED BY <1>3, <1>4, <1>5, NextCases

AInv == TInv /\ Renewed /\ Restored /\ Alone /\ Fresher /\ Tally /\ CountedIsArchived

LEMMA AInit == Init => AInv
<1> SUFFICES ASSUME Init PROVE AInv OBVIOUS
<1>1. TInv /\ Renewed BY TInit, RenewedInit
<1>2. /\ \A r \in Runners : pc[r] = "idle" /\ loc[r] = Start
      /\ restore = "idle" /\ objects = [c \in Chunks |-> {}] /\ table = {}
      /\ \A c \in Chunks : st[c].phase = "none"
  BY DEF Init, NoRow
<1>3. Archived = {} BY <1>2 DEF Archived
<1>4. Fitting(conf.sink, st, objects, Archived, hot, pc, loc) BY <1>2, <1>3, Blank
<1>5. Restored /\ Alone /\ CountedIsArchived BY <1>2 DEF Restored, Alone, CountedIsArchived
<1>6. Fresher BY <1>2 DEF Fresher, Start
<1> QED BY <1>1, <1>4, <1>5, <1>6 DEF AInv, Tally

LEMMA ANext == AInv /\ Walks' /\ [Next]_vars => AInv'
<1> SUFFICES ASSUME AInv, Walks', [Next]_vars PROVE AInv' OBVIOUS
<1>1. /\ TInv /\ Renewed /\ Restored /\ Alone /\ Fresher /\ Tally /\ CountedIsArchived
  BY DEF AInv
<1>2. TInv' BY <1>1, TNext
<1>3. Renewed' BY <1>1, RenewedNext
<1>4. Restored' BY <1>1, RestoredNext
<1>5. Alone' /\ Fresher' BY <1>1, AloneNext
<1>6. Tally' BY <1>1, <1>2, TallyNext
<1>7. CountedIsArchived' BY <1>1, CountedNext
<1> QED BY <1>2, <1>3, <1>4, <1>5, <1>6, <1>7 DEF AInv

(* CountedIsArchived, for any rows, batch size, jobs, faults and restores: *)
(* the rows a job counted before its DROP PARTITION (archive.rs:358-376)   *)
(* are all in the cold tier, unless two jobs were at work at once or a     *)
(* restore met one. Walks bounds the chunk numbers, as in the theorems     *)
(* above.                                                                  *)
THEOREM CountedIsArchivedHolds == Spec /\ []Walks => []CountedIsArchived
<1>1. AInv => CountedIsArchived BY DEF AInv
<1> QED BY <1>1, AInit, ANext, PTL DEF Spec
=============================================================================
