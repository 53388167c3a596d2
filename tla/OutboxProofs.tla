---------------------------- MODULE OutboxProofs ----------------------------
(***************************************************************************)
(* Proofs about Outbox, for any number of records, relays and any limits:  *)
(* the queue is the table's ORDER BY, Done is final, and relays that keep  *)
(* to their lease never deliver the same record at once.                   *)
(***************************************************************************)
EXTENDS Outbox, WellFoundedInduction, TLAPS

-----------------------------------------------------------------------------
(* Keep and the ORDER BY.                                                  *)

(* Induction over the naturals, for a set.                                 *)
LEMMA NatInd ==
  ASSUME NEW T \in SUBSET Nat, 0 \in T, \A n \in T : n + 1 \in T
  PROVE  T = Nat
<1> SUFFICES ASSUME Nat \ T # {} PROVE FALSE OBVIOUS
<1>1. PICK x \in Nat \ T : \A y \in Nat \ T : ~(<<y, x>> \in OpToRel(<, Nat))
  BY NatLessThanWellFounded, WFMin
<1>2. \A y \in Nat \ T : ~(y < x) BY <1>1 DEF OpToRel
<1>3. x # 0 /\ x - 1 \in Nat /\ x - 1 < x /\ (x - 1) + 1 = x OBVIOUS
<1>4. x - 1 \in T BY <1>2, <1>3
<1>5. (x - 1) + 1 \in T BY <1>4
<1> QED BY <1>3, <1>5

(* keep is a function: the recursion has a solution.                       *)
LEMMA KeepFunction ==
  ASSUME NEW X, NEW q \in Seq(X), NEW S
  PROVE  \E f : f = [k \in 0..Len(q) |->
                       IF k = 0 THEN <<>>
                       ELSE IF q[k] \in S THEN Append(f[k - 1], q[k]) ELSE f[k - 1]]
<1> DEFINE Solves(f, m) == f = [k \in 0..m |->
                       IF k = 0 THEN <<>>
                       ELSE IF q[k] \in S THEN Append(f[k - 1], q[k]) ELSE f[k - 1]]
           T == {m \in Nat : \E f : Solves(f, m)}
<1>1. 0 \in T
  <2>1. Solves([k \in 0..0 |-> <<>>], 0) OBVIOUS
  <2> QED BY <2>1
<1>2. ASSUME NEW m \in T PROVE m + 1 \in T
  <2>1. PICK f : Solves(f, m) OBVIOUS
  <2> DEFINE e == IF q[m + 1] \in S THEN Append(f[m], q[m + 1]) ELSE f[m]
             g == [k \in 0..m + 1 |-> IF k = m + 1 THEN e ELSE f[k]]
  <2>2. m \in Nat OBVIOUS
  <2>3. g[m + 1] = IF q[m + 1] \in S THEN Append(g[m], q[m + 1]) ELSE g[m] BY <2>2
  <2>4. ASSUME NEW k \in 0..m
        PROVE  g[k] = IF k = 0 THEN <<>>
                      ELSE IF q[k] \in S THEN Append(g[k - 1], q[k]) ELSE g[k - 1]
    <3>1. f[k] = IF k = 0 THEN <<>>
                 ELSE IF q[k] \in S THEN Append(f[k - 1], q[k]) ELSE f[k - 1]
      BY <2>1
    <3>2. g[k] = f[k] BY <2>2
    <3>3. k # 0 => g[k - 1] = f[k - 1] BY <2>2
    <3> QED BY <3>1, <3>2, <3>3
  <2>5. ASSUME NEW k \in 0..m + 1
        PROVE  g[k] = IF k = 0 THEN <<>>
                      ELSE IF q[k] \in S THEN Append(g[k - 1], q[k]) ELSE g[k - 1]
    <3>1. CASE k \in 0..m BY <2>4, <3>1
    <3>2. CASE k = m + 1
      <4>1. k # 0 /\ k - 1 = m BY <2>2, <3>2
      <4> HIDE DEF g
      <4> QED BY <2>3, <3>2, <4>1
    <3> QED BY <2>2, <3>1, <3>2
  <2>6. DOMAIN g = 0..m + 1 /\ g = [k \in DOMAIN g |-> g[k]] OBVIOUS
  <2> HIDE DEF g
  <2>7. Solves(g, m + 1) BY <2>5, <2>6
  <2> HIDE DEF Solves
  <2> QED BY <2>2, <2>7
<1>3. T = Nat
  <2> HIDE DEF Solves
  <2>1. T \in SUBSET Nat OBVIOUS
  <2> HIDE DEF T
  <2> QED BY <1>1, <1>2, <2>1, NatInd
<1>4. Len(q) \in Nat OBVIOUS
<1>5. Len(q) \in T
  <2> HIDE DEF T
  <2> QED BY <1>3, <1>4
<1> QED BY <1>5

(* s, of length n, is what the first m elements of q leave: the ones in S, *)
(* in their order.                                                         *)
Kept(q, S, s, n, m) ==
  \E g \in [1..n -> 1..m] :
    /\ \A j, k \in 1..n : j < k => g[j] < g[k]
    /\ \A k \in 1..n : s[k] = q[g[k]] /\ q[g[k]] \in S
    /\ \A p \in 1..m : q[p] \in S => \E k \in 1..n : g[k] = p

LEMMA KeptNone == ASSUME NEW q, NEW S, NEW s PROVE Kept(q, S, s, 0, 0)
<1>1. [k \in 1..0 |-> k] \in [1..0 -> 1..0] OBVIOUS
<1>2. \A k \in 1..0 : FALSE OBVIOUS
<1> QED BY <1>1, <1>2 DEF Kept

LEMMA KeptMore ==
  ASSUME NEW q, NEW S, NEW s, NEW t, NEW n \in Nat, NEW m \in Nat, Kept(q, S, s, n, m),
         q[m + 1] \in S, t[n + 1] = q[m + 1], \A k \in 1..n : t[k] = s[k]
  PROVE  Kept(q, S, t, n + 1, m + 1)
<1>1. PICK g \in [1..n -> 1..m] :
        /\ \A j, k \in 1..n : j < k => g[j] < g[k]
        /\ \A k \in 1..n : s[k] = q[g[k]] /\ q[g[k]] \in S
        /\ \A p \in 1..m : q[p] \in S => \E k \in 1..n : g[k] = p
  BY DEF Kept
<1> DEFINE h == [k \in 1..n + 1 |-> IF k = n + 1 THEN m + 1 ELSE g[k]]
<1>2. h \in [1..n + 1 -> 1..m + 1] OBVIOUS
<1>3. h[n + 1] = m + 1 /\ (\A k \in 1..n : h[k] = g[k] /\ h[k] \in 1..m) OBVIOUS
<1> HIDE DEF h
<1>4. \A k \in 1..n + 1 : k = n + 1 \/ k \in 1..n OBVIOUS
<1>5. ASSUME NEW j \in 1..n + 1, NEW k \in 1..n + 1, j < k PROVE h[j] < h[k]
  <2>1. j \in 1..n BY <1>5
  <2>2. CASE k \in 1..n BY <1>1, <1>3, <1>5, <2>1, <2>2
  <2>3. CASE k = n + 1 BY <1>3, <2>1, <2>3
  <2> QED BY <1>4, <2>2, <2>3
<1>6. ASSUME NEW k \in 1..n + 1 PROVE t[k] = q[h[k]] /\ q[h[k]] \in S
  BY <1>1, <1>3, <1>4
<1>7. ASSUME NEW p \in 1..m + 1, q[p] \in S PROVE \E k \in 1..n + 1 : h[k] = p
  <2>1. CASE p = m + 1
    <3>1. n + 1 \in 1..n + 1 OBVIOUS
    <3> QED BY <1>3, <2>1, <3>1
  <2>2. CASE p \in 1..m
    <3>1. PICK k \in 1..n : g[k] = p BY <1>1, <1>7, <2>2
    <3>2. k \in 1..n + 1 OBVIOUS
    <3> QED BY <1>3, <3>1, <3>2
  <2> QED BY <2>1, <2>2
<1> QED BY <1>2, <1>5, <1>6, <1>7 DEF Kept

LEMMA KeptSame ==
  ASSUME NEW q, NEW S, NEW s, NEW n \in Nat, NEW m \in Nat, Kept(q, S, s, n, m),
         q[m + 1] \notin S
  PROVE  Kept(q, S, s, n, m + 1)
<1>1. PICK g \in [1..n -> 1..m] :
        /\ \A j, k \in 1..n : j < k => g[j] < g[k]
        /\ \A k \in 1..n : s[k] = q[g[k]] /\ q[g[k]] \in S
        /\ \A p \in 1..m : q[p] \in S => \E k \in 1..n : g[k] = p
  BY DEF Kept
<1>2. g \in [1..n -> 1..m + 1] OBVIOUS
<1>3. \A p \in 1..m + 1 : p = m + 1 \/ p \in 1..m OBVIOUS
<1>4. \A p \in 1..m + 1 : q[p] \in S => \E k \in 1..n : g[k] = p BY <1>1, <1>3
<1> QED BY <1>1, <1>2, <1>4 DEF Kept

(* What Keep returns: the elements of q that are in S, in their order.     *)
LEMMA KeepIs ==
  ASSUME NEW X, NEW q \in Seq(X), NEW S
  PROVE  Keep(q, S) \in Seq(X) /\ Kept(q, S, Keep(q, S), Len(Keep(q, S)), Len(q))
<1> DEFINE Solves(f) == f = [k \in 0..Len(q) |->
                       IF k = 0 THEN <<>>
                       ELSE IF q[k] \in S THEN Append(f[k - 1], q[k]) ELSE f[k - 1]]
           keep == CHOOSE f : Solves(f)
<1>1. Keep(q, S) = keep[Len(q)] BY DEF Keep
<1>2. Solves(keep)
  <2>1. \E f : Solves(f) BY KeepFunction
  <2> HIDE DEF Solves
  <2> QED BY <2>1
<1> HIDE DEF keep
<1>3. keep[0] = <<>> BY <1>2
<1>4. ASSUME NEW m \in 0..Len(q) - 1
      PROVE  keep[m + 1] = IF q[m + 1] \in S THEN Append(keep[m], q[m + 1]) ELSE keep[m]
  <2>1. m + 1 \in 0..Len(q) /\ m + 1 # 0 /\ (m + 1) - 1 = m OBVIOUS
  <2> QED BY <1>2, <2>1
<1> DEFINE Good(m) == keep[m] \in Seq(X) /\ Kept(q, S, keep[m], Len(keep[m]), m)
           T == {m \in Nat : m <= Len(q) => Good(m)}
<1>5. Len(q) \in Nat OBVIOUS
<1> HIDE DEF Solves
<1>6. 0 \in T
  <2>1. <<>> \in Seq(X) /\ Len(<<>>) = 0 OBVIOUS
  <2> QED BY <1>3, <2>1, KeptNone
<1>7. ASSUME NEW m \in T PROVE m + 1 \in T
  <2>1. m \in Nat /\ m + 1 \in Nat OBVIOUS
  <2>2. ASSUME m + 1 <= Len(q) PROVE Good(m + 1)
    <3>1. m \in 0..Len(q) - 1 /\ m <= Len(q) BY <1>5, <2>1, <2>2
    <3>2. Good(m) BY <3>1
    <3>3. q[m + 1] \in X BY <2>1, <2>2
    <3> DEFINE s == keep[m]
    <3>4. s \in Seq(X) /\ Len(s) \in Nat BY <3>2
    <3>5. CASE q[m + 1] \in S
      <4> DEFINE t == Append(s, q[m + 1])
      <4>1. keep[m + 1] = t BY <1>4, <3>1, <3>5
      <4>2. /\ t \in Seq(X) /\ Len(t) = Len(s) + 1 /\ t[Len(s) + 1] = q[m + 1]
            /\ \A k \in 1..Len(s) : t[k] = s[k]
        BY <3>3, <3>4
      <4> HIDE DEF t
      <4>3. Kept(q, S, t, Len(s) + 1, m + 1) BY <2>1, <3>2, <3>4, <3>5, <4>2, KeptMore
      <4> QED BY <4>1, <4>2, <4>3
    <3>6. CASE q[m + 1] \notin S
      <4>1. keep[m + 1] = s BY <1>4, <3>1, <3>6
      <4>2. Kept(q, S, s, Len(s), m + 1) BY <2>1, <3>2, <3>4, <3>6, KeptSame
      <4> QED BY <3>4, <4>1, <4>2
    <3> QED BY <3>5, <3>6
  <2> HIDE DEF Good
  <2> QED BY <2>1, <2>2
<1>8. T = Nat
  <2> HIDE DEF Good
  <2>1. T \in SUBSET Nat OBVIOUS
  <2> HIDE DEF T
  <2> QED BY <1>6, <1>7, <2>1, NatInd
<1>9. Good(Len(q))
  <2> HIDE DEF Good
  <2> QED BY <1>5, <1>8
<1> QED BY <1>1, <1>9

(* s has no id twice and is in the order of W.                             *)
Ordered(s, W) == \A j, k \in 1..Len(s) : j < k => s[j] # s[k] /\ W[s[j]] <= W[s[k]]

LEMMA KeepOrdered ==
  ASSUME NEW q \in Seq(Ids), NEW S, NEW W, Ordered(q, W)
  PROVE  /\ Keep(q, S) \in Seq(Ids) /\ Ordered(Keep(q, S), W)
         /\ ToSet(Keep(q, S)) = {i \in ToSet(q) : i \in S}
<1> DEFINE s == Keep(q, S)
<1>1. s \in Seq(Ids) /\ Kept(q, S, s, Len(s), Len(q)) BY KeepIs
<1>2. Len(s) \in Nat /\ DOMAIN s = 1..Len(s) /\ Len(q) \in Nat /\ DOMAIN q = 1..Len(q)
  BY <1>1
<1> HIDE DEF s
<1>3. PICK g \in [1..Len(s) -> 1..Len(q)] :
        /\ \A j, k \in 1..Len(s) : j < k => g[j] < g[k]
        /\ \A k \in 1..Len(s) : s[k] = q[g[k]] /\ q[g[k]] \in S
        /\ \A p \in 1..Len(q) : q[p] \in S => \E k \in 1..Len(s) : g[k] = p
  BY <1>1 DEF Kept
<1>4. Ordered(s, W) BY <1>3 DEF Ordered
<1>5. ToSet(s) \subseteq {i \in ToSet(q) : i \in S} BY <1>2, <1>3 DEF ToSet
<1>6. ASSUME NEW i \in ToSet(q), i \in S PROVE i \in ToSet(s)
  <2>1. PICK p \in 1..Len(q) : q[p] = i BY <1>2 DEF ToSet
  <2>2. PICK k \in 1..Len(s) : g[k] = p BY <1>3, <1>6, <2>1
  <2>3. s[k] = i BY <1>3, <2>1, <2>2
  <2> QED BY <1>2, <2>3 DEF ToSet
<1> QED BY <1>1, <1>4, <1>5, <1>6 DEF s

LEMMA ConcatOrdered ==
  ASSUME NEW s \in Seq(Ids), NEW t \in Seq(Ids), NEW W, Ordered(s, W), Ordered(t, W),
         \A x \in ToSet(s), y \in ToSet(t) : x # y /\ W[x] <= W[y]
  PROVE  s \o t \in Seq(Ids) /\ Ordered(s \o t, W) /\ ToSet(s \o t) = ToSet(s) \cup ToSet(t)
<1> DEFINE u == s \o t
           n == Len(s)
           m == Len(t)
<1>1. n \in Nat /\ m \in Nat /\ DOMAIN s = 1..n /\ DOMAIN t = 1..m OBVIOUS
<1>2. u \in Seq(Ids) /\ Len(u) = n + m /\ DOMAIN u = 1..n + m OBVIOUS
<1>3. \A k \in 1..n + m : u[k] = IF k <= n THEN s[k] ELSE t[k - n] OBVIOUS
<1> HIDE DEF u, n, m
<1>4. ASSUME NEW j \in 1..n + m, NEW k \in 1..n + m, j < k
      PROVE  u[j] # u[k] /\ W[u[j]] <= W[u[k]]
  <2>1. CASE k <= n
    <3>1. j \in 1..n /\ k \in 1..n BY <1>1, <1>4, <2>1
    <3>2. u[j] = s[j] /\ u[k] = s[k] BY <1>3, <3>1, <1>1
    <3> QED BY <1>4, <3>1, <3>2 DEF Ordered, n
  <2>2. CASE j <= n /\ ~(k <= n)
    <3>1. j \in 1..n /\ k - n \in 1..m BY <1>1, <2>2
    <3>2. u[j] = s[j] /\ u[k] = t[k - n] BY <1>3, <2>2
    <3>3. s[j] \in ToSet(s) /\ t[k - n] \in ToSet(t) BY <1>1, <3>1 DEF ToSet
    <3> QED BY <3>2, <3>3
  <2>3. CASE ~(j <= n)
    <3>1. j - n \in 1..m /\ k - n \in 1..m /\ j - n < k - n BY <1>1, <1>4, <2>3
    <3>2. ~(k <= n) BY <1>1, <1>4, <2>3
    <3>3. u[j] = t[j - n] /\ u[k] = t[k - n] BY <1>3, <2>3, <3>2
    <3> QED BY <3>1, <3>3 DEF Ordered, m
  <2> QED BY <1>1, <1>4, <2>1, <2>2, <2>3
<1>5. Ordered(u, W) BY <1>2, <1>4 DEF Ordered
<1>6. ToSet(u) \subseteq ToSet(s) \cup ToSet(t)
  <2> SUFFICES ASSUME NEW k \in 1..n + m PROVE u[k] \in ToSet(s) \cup ToSet(t)
    BY <1>2 DEF ToSet
  <2>1. CASE k <= n
    <3>1. k \in 1..n BY <1>1, <2>1
    <3> QED BY <1>1, <1>3, <2>1, <3>1 DEF ToSet
  <2>2. CASE ~(k <= n)
    <3>1. k - n \in 1..m BY <1>1, <2>2
    <3> QED BY <1>1, <1>3, <2>2, <3>1 DEF ToSet
  <2> QED BY <2>1, <2>2
<1>7. ToSet(s) \subseteq ToSet(u)
  <2> SUFFICES ASSUME NEW k \in 1..n PROVE s[k] \in ToSet(u) BY <1>1 DEF ToSet
  <2>1. k \in 1..n + m /\ u[k] = s[k] BY <1>1, <1>3
  <2> QED BY <1>2, <2>1 DEF ToSet
<1>8. ToSet(t) \subseteq ToSet(u)
  <2> SUFFICES ASSUME NEW k \in 1..m PROVE t[k] \in ToSet(u) BY <1>1 DEF ToSet
  <2>1. k + n \in 1..n + m /\ ~(k + n <= n) /\ (k + n) - n = k BY <1>1
  <2>2. u[k + n] = t[k] BY <1>3, <2>1
  <2> QED BY <1>2, <2>1, <2>2 DEF ToSet
<1> QED BY <1>2, <1>5, <1>6, <1>7, <1>8 DEF u

LEMMA OrderedSame ==
  ASSUME NEW s \in Seq(Ids), NEW V, NEW W, Ordered(s, V), \A i \in ToSet(s) : V[i] = W[i]
  PROVE  Ordered(s, W)
<1>1. DOMAIN s = 1..Len(s) OBVIOUS
<1>2. \A k \in 1..Len(s) : s[k] \in ToSet(s) BY <1>1 DEF ToSet
<1> QED BY <1>2 DEF Ordered

(* The waiting times after the ids of S are put off to w.                  *)
PutOff(V, S, w) == [i \in Ids |-> IF i \in S THEN w ELSE V[i]]
Waits(t) == [i \in Ids |-> t[i].wait]

LEMMA LaterIs ==
  ASSUME NEW q \in Seq(Ids), row \in [Ids -> Rows], Ordered(q, Waits(row)),
         NEW S \in SUBSET Ids, NEW w \in Nat
  PROVE  /\ Later(q, S, w) \in Seq(Ids)
         /\ Ordered(Later(q, S, w), PutOff(Waits(row), S, w))
         /\ ToSet(Later(q, S, w)) = ToSet(q) \cup S
<1> DEFINE V == Waits(row)
           W == PutOff(V, S, w)
           L == {i \in Ids \ S : row[i].wait <= w}
           H == {i \in Ids \ S : row[i].wait > w}
           I == [i \in Ids |-> i]
           a == Keep(q, L)
           b == Keep(I, S)
           c == Keep(q, H)
<1>0. \A i \in Ids : row[i].wait \in Int
  BY ConfigAssumption DEF Rows
<1>1. \A i \in Ids : V[i] = row[i].wait /\ W[i] = IF i \in S THEN w ELSE row[i].wait
  BY DEF Waits, PutOff
<1>2. I \in Seq(Ids) /\ Len(I) = NumIds /\ (\A k \in 1..NumIds : I[k] = k) /\ ToSet(I) = Ids
  BY IdsAssumption DEF Ids, ToSet
<1>3. Ordered(I, [i \in Ids |-> w])
  <2>1. \A k \in 1..NumIds : I[k] = k /\ k \in Ids BY <1>2 DEF Ids
  <2>2. Len(I) = NumIds BY <1>2
  <2> HIDE DEF I
  <2> QED BY <2>1, <2>2 DEF Ordered
<1>4. ToSet(q) \subseteq Ids BY DEF ToSet
<1>5. a \in Seq(Ids) /\ Ordered(a, V) /\ ToSet(a) = {i \in ToSet(q) : i \in L}
  BY KeepOrdered
<1>6. c \in Seq(Ids) /\ Ordered(c, V) /\ ToSet(c) = {i \in ToSet(q) : i \in H}
  BY KeepOrdered
<1>7. b \in Seq(Ids) /\ Ordered(b, [i \in Ids |-> w]) /\ ToSet(b) = {i \in Ids : i \in S}
  <2> HIDE DEF I
  <2> QED BY <1>2, <1>3, KeepOrdered
<1>8. Later(q, S, w) = a \o b \o c BY DEF Later
<1> HIDE DEF V, W, I, a, b, c
<1>9. Ordered(a, W)
  <2>1. \A i \in ToSet(a) : V[i] = W[i] BY <1>1, <1>5
  <2> QED BY <1>5, <2>1, OrderedSame
<1>10. Ordered(c, W)
  <2>1. \A i \in ToSet(c) : V[i] = W[i] BY <1>1, <1>6
  <2> QED BY <1>6, <2>1, OrderedSame
<1>11. Ordered(b, W)
  <2> DEFINE U == [i \in Ids |-> w]
  <2>1. \A i \in ToSet(b) : U[i] = W[i] BY <1>1, <1>7
  <2> HIDE DEF U
  <2> QED BY <1>7, <2>1, OrderedSame DEF U
<1>12. \A x \in ToSet(a), y \in ToSet(b) : x # y /\ W[x] <= W[y]
  BY <1>0, <1>1, <1>5, <1>7
<1>13. a \o b \in Seq(Ids) /\ Ordered(a \o b, W) /\ ToSet(a \o b) = ToSet(a) \cup ToSet(b)
  BY <1>5, <1>7, <1>9, <1>11, <1>12, ConcatOrdered
<1>14. \A x \in ToSet(a) \cup ToSet(b), y \in ToSet(c) : x # y /\ W[x] <= W[y]
  BY <1>0, <1>1, <1>5, <1>6, <1>7
<1>15. /\ (a \o b) \o c \in Seq(Ids) /\ Ordered((a \o b) \o c, W)
       /\ ToSet((a \o b) \o c) = (ToSet(a) \cup ToSet(b)) \cup ToSet(c)
  BY <1>6, <1>10, <1>13, <1>14, ConcatOrdered
<1>16. (ToSet(a) \cup ToSet(b)) \cup ToSet(c) = ToSet(q) \cup S
  BY <1>0, <1>4, <1>5, <1>6, <1>7
<1> QED BY <1>8, <1>15, <1>16 DEF W, V

LEMMA FirstDueIs ==
  ASSUME NEW q \in Seq(Ids), NEW W, Ordered(q, W), NEW table
  PROVE  /\ FirstDue(q, table) \in Seq(Ids) /\ Len(FirstDue(q, table)) <= Batch
         /\ ToSet(FirstDue(q, table)) \subseteq ToSet(q)
         /\ \A j, k \in 1..Len(FirstDue(q, table)) :
              j # k => FirstDue(q, table)[j] # FirstDue(q, table)[k]
<1> DEFINE due == Keep(q, {i \in Ids : table[i].wait = 0})
           n == IF Len(due) < Batch THEN Len(due) ELSE Batch
           ids == SubSeq(due, 1, n)
<1>1. FirstDue(q, table) = ids BY DEF FirstDue
<1>2. due \in Seq(Ids) /\ Ordered(due, W) /\ ToSet(due) \subseteq ToSet(q)
  BY KeepOrdered
<1> HIDE DEF due
<1>3. n \in Nat /\ n <= Len(due) /\ n <= Batch BY <1>2, ConfigAssumption
<1>4. DOMAIN due = 1..Len(due) /\ Len(due) \in Nat BY <1>2
<1> HIDE DEF n
<1>5. ids \in Seq(Ids) /\ Len(ids) = n /\ (\A k \in 1..n : ids[k] = due[k]) BY <1>2, <1>3
<1>6. DOMAIN ids = 1..n BY <1>5
<1> HIDE DEF ids
<1>7. \A k \in 1..n : k \in 1..Len(due) BY <1>3, <1>4
<1>8. ToSet(ids) \subseteq ToSet(due) BY <1>4, <1>5, <1>6, <1>7 DEF ToSet
<1>9. ASSUME NEW j \in 1..n, NEW k \in 1..n, j # k PROVE ids[j] # ids[k]
  <2>1. j < k \/ k < j BY <1>9, <1>3
  <2> QED BY <1>2, <1>5, <1>7, <2>1 DEF Ordered
<1> QED BY <1>1, <1>2, <1>3, <1>5, <1>8, <1>9
-----------------------------------------------------------------------------
(* The backoff.                                                            *)

LEMMA FactorFunction ==
  \E f : f = [n \in 0..MaxAttempts |-> IF n = 0 THEN 1 ELSE 2 * f[n - 1]]
<1> DEFINE Solves(f, m) == f = [n \in 0..m |-> IF n = 0 THEN 1 ELSE 2 * f[n - 1]]
           T == {m \in Nat : \E f : Solves(f, m)}
<1>1. 0 \in T
  <2>1. Solves([n \in 0..0 |-> 1], 0) OBVIOUS
  <2> QED BY <2>1
<1>2. ASSUME NEW m \in T PROVE m + 1 \in T
  <2>1. PICK f : Solves(f, m) OBVIOUS
  <2> DEFINE g == [n \in 0..m + 1 |-> IF n = m + 1 THEN 2 * f[m] ELSE f[n]]
  <2>2. m \in Nat OBVIOUS
  <2>3. ASSUME NEW n \in 0..m + 1
        PROVE  g[n] = IF n = 0 THEN 1 ELSE 2 * g[n - 1]
    <3>1. CASE n \in 0..m
      <4>1. f[n] = IF n = 0 THEN 1 ELSE 2 * f[n - 1] BY <2>1, <3>1
      <4>2. g[n] = f[n] BY <2>2, <3>1
      <4>3. n # 0 => g[n - 1] = f[n - 1] BY <2>2, <3>1
      <4> QED BY <4>1, <4>2, <4>3
    <3>2. CASE n = m + 1
      <4>1. n # 0 /\ n - 1 = m BY <2>2, <3>2
      <4>2. g[m] = f[m] /\ g[m + 1] = 2 * f[m] BY <2>2
      <4> HIDE DEF g
      <4> QED BY <3>2, <4>1, <4>2
    <3> QED BY <2>2, <3>1, <3>2
  <2>4. DOMAIN g = 0..m + 1 /\ g = [n \in DOMAIN g |-> g[n]] OBVIOUS
  <2> HIDE DEF g
  <2>5. Solves(g, m + 1) BY <2>3, <2>4
  <2> HIDE DEF Solves
  <2> QED BY <2>2, <2>5
<1>3. T = Nat
  <2> HIDE DEF Solves
  <2>1. T \in SUBSET Nat OBVIOUS
  <2> HIDE DEF T
  <2> QED BY <1>1, <1>2, <2>1, NatInd
<1>4. MaxAttempts \in T
  <2> HIDE DEF T
  <2> QED BY <1>3, ConfigAssumption
<1> QED BY <1>4

LEMMA FactorType == \A n \in 0..MaxAttempts : Factor[n] \in Nat \ {0}
<1> DEFINE Solves(f) == f = [n \in 0..MaxAttempts |-> IF n = 0 THEN 1 ELSE 2 * f[n - 1]]
<1>1. Factor = CHOOSE f : Solves(f) BY DEF Factor
<1>2. \E f : Solves(f) BY FactorFunction
<1>3. Solves(Factor)
  <2> HIDE DEF Solves
  <2> QED BY <1>1, <1>2
<1> DEFINE T == {m \in Nat : m <= MaxAttempts => Factor[m] \in Nat \ {0}}
<1>4. MaxAttempts \in Nat BY ConfigAssumption
<1>5. 0 \in T BY <1>3, <1>4
<1>6. ASSUME NEW m \in T PROVE m + 1 \in T
  <2>1. m \in Nat OBVIOUS
  <2>2. ASSUME m + 1 <= MaxAttempts PROVE Factor[m + 1] \in Nat \ {0}
    <3>1. m + 1 \in 0..MaxAttempts /\ m + 1 # 0 /\ (m + 1) - 1 = m /\ m <= MaxAttempts
      BY <1>4, <2>1, <2>2
    <3>2. Factor[m + 1] = 2 * Factor[m] BY <1>3, <3>1
    <3>3. Factor[m] \in Nat \ {0} BY <3>1
    <3> QED BY <3>2, <3>3
  <2> QED BY <2>1, <2>2
<1>7. T = Nat
  <2>1. T \in SUBSET Nat OBVIOUS
  <2> HIDE DEF T
  <2> QED BY <1>5, <1>6, <2>1, NatInd
<1> QED BY <1>4, <1>7

WaitMax == IF StaleBackoff > MaxBackoff THEN StaleBackoff ELSE MaxBackoff

LEMMA WaitsAre ==
  /\ WaitMax \in Nat /\ StaleBackoff \in 0..WaitMax /\ 0..1 \subseteq 0..WaitMax
  /\ 0..WaitMax \subseteq Nat
BY ConfigAssumption DEF WaitMax

LEMMA BackoffType == ASSUME NEW n \in 0..MaxAttempts PROVE Backoff(n) \in 0..WaitMax
<1>1. Factor[n] \in Nat BY FactorType
<1> QED BY <1>1, ConfigAssumption DEF Backoff, WaitMax

LEMMA RowIs ==
  ASSUME NEW s \in Statuses, NEW n \in 0..MaxAttempts, NEW w \in 0..WaitMax,
         NEW a \in 0..(Lease + 1), NEW x,
         x = [status |-> s, attempts |-> n, wait |-> w, age |-> a]
  PROVE  x \in Rows /\ x.status = s /\ x.attempts = n /\ x.wait = w /\ x.age = a
BY DEF Rows, WaitMax

LEMMA RowFields ==
  ASSUME NEW x \in Rows
  PROVE  /\ x.status \in Statuses /\ x.attempts \in 0..MaxAttempts
         /\ x.wait \in 0..WaitMax /\ x.age \in 0..(Lease + 1)
BY DEF Rows, WaitMax

LEMMA MoreType == ASSUME NEW n \in 0..MaxAttempts PROVE More(n) \in 0..MaxAttempts
BY ConfigAssumption DEF More

-----------------------------------------------------------------------------
(* The queue is the part of the table that a claim may select, in order.   *)

Waiting == {"pending", "failed"}

Queued(q, t) ==
  /\ q \in Seq(Ids)
  /\ ToSet(q) = {i \in Ids : t[i].status \in Waiting}
  /\ Ordered(q, Waits(t))

(* Rows are put off, or put back, by w.                                    *)
LEMMA QueueLater ==
  ASSUME row \in [Ids -> Rows], Queued(queue, row), NEW S \in SUBSET Ids,
         NEW w \in 0..WaitMax, NEW t,
         \A i \in Ids \ S : t[i] = row[i],
         \A i \in S : t[i].status \in Waiting /\ t[i].wait = w
  PROVE  Queued(Later(queue, S, w), t)
<1> DEFINE q == Later(queue, S, w)
<1>1. w \in Nat BY WaitsAre
<1>2. queue \in Seq(Ids) /\ Ordered(queue, Waits(row)) BY DEF Queued
<1>3. /\ q \in Seq(Ids) /\ Ordered(q, PutOff(Waits(row), S, w))
      /\ ToSet(q) = ToSet(queue) \cup S
  BY <1>1, <1>2, LaterIs
<1> HIDE DEF q
<1>4. Waits(t) = PutOff(Waits(row), S, w) BY DEF Waits, PutOff
<1>5. ToSet(q) = {i \in Ids : t[i].status \in Waiting} BY <1>3 DEF Queued
<1> QED BY <1>3, <1>4, <1>5 DEF Queued, q

(* Rows leave the queue.                                                   *)
LEMMA QueueKeep ==
  ASSUME NEW q, NEW t, Queued(q, t), NEW S \in SUBSET Ids, NEW u,
         \A i \in Ids \ S : u[i] = t[i], \A i \in S : u[i].status \notin Waiting
  PROVE  Queued(Keep(q, Ids \ S), u)
<1> DEFINE p == Keep(q, Ids \ S)
<1>1. q \in Seq(Ids) /\ Ordered(q, Waits(t)) BY DEF Queued
<1>2. p \in Seq(Ids) /\ Ordered(p, Waits(t)) /\ ToSet(p) = {i \in ToSet(q) : i \in Ids \ S}
  BY <1>1, KeepOrdered
<1> HIDE DEF p
<1>3. \A i \in ToSet(p) : Waits(t)[i] = Waits(u)[i] BY <1>2 DEF Waits
<1>4. Ordered(p, Waits(u)) BY <1>2, <1>3, OrderedSame
<1>5. ToSet(p) = {i \in Ids : u[i].status \in Waiting} BY <1>2 DEF Queued
<1> QED BY <1>2, <1>4, <1>5 DEF Queued, p

LEMMA QueueSame ==
  ASSUME NEW q, NEW t, Queued(q, t), NEW u,
         \A i \in Ids : u[i].status = t[i].status /\ u[i].wait = Less(t[i].wait),
         \A i \in Ids : t[i].wait \in Nat
  PROVE  Queued(q, u)
<1>1. q \in Seq(Ids) /\ Ordered(q, Waits(t)) BY DEF Queued
<1>2. \A k \in 1..Len(q) : q[k] \in Ids BY <1>1
<1>3. \A m, n \in Nat : m <= n => Less(m) <= Less(n) BY DEF Less
<1>4. \A i \in Ids : Waits(t)[i] = t[i].wait /\ Waits(u)[i] = Less(t[i].wait) BY DEF Waits
<1>5. Ordered(q, Waits(u)) BY <1>1, <1>2, <1>3, <1>4 DEF Ordered
<1> QED BY <1>1, <1>5 DEF Queued

-----------------------------------------------------------------------------
(* The inductive invariant.                                                *)

Entries == [id : Ids, attempts : 0..MaxAttempts]
Pcs == {"off", "handle", "mark_done", "mark_failed"}
RelayStates == [pc : Pcs, batch : Seq(Entries), held : 0..(Lease + 1)]

(* A relay works on a batch that is not empty, within the limit, and in    *)
(* which no record is twice.                                               *)
Working(x) ==
  /\ (x.pc = "off") <=> (x.batch = <<>>)
  /\ Len(x.batch) <= Batch
  /\ \A j, k \in 1..Len(x.batch) : j # k => x.batch[j].id # x.batch[k].id

Types ==
  /\ row \in [Ids -> Rows] /\ Queued(queue, row)
  /\ relay \in [Relays -> RelayStates] /\ \A r \in Relays : Working(relay[r])
  /\ owner \in [Ids -> Relays \cup {NoRelay}]
  /\ delivered \subseteq Ids
  /\ late \in BOOLEAN /\ faults \in 0..MaxFaults

(* Done rows were delivered, and so was the record a relay is about to     *)
(* mark Done.                                                              *)
AllDelivered(t, d) == \A i \in Ids : t[i].status = "done" => i \in d
MarksDelivered(x, d) == x.pc = "mark_done" => Head(x.batch).id \in d

(* The records that r holds in x are processing, claimed by r, for as long *)
(* as r has held them, and the lease is not over.                          *)
Leased(x, r, t, o) ==
  \A k \in 1..Len(x.batch) :
    /\ t[x.batch[k].id].status = "processing" /\ o[x.batch[k].id] = r
    /\ t[x.batch[k].id].age = x.held /\ x.held <= Lease

Delivery ==
  /\ AllDelivered(row, delivered)
  /\ \A r \in Relays : MarksDelivered(relay[r], delivered)

Leases == ~late => \A r \in Relays : Leased(relay[r], r, row, owner)

IInv == Types /\ Delivery /\ Leases

LEMMA RelayIs ==
  ASSUME NEW p \in Pcs, NEW b \in Seq(Entries), NEW h \in 0..(Lease + 1), NEW x,
         x = [pc |-> p, batch |-> b, held |-> h]
  PROVE  x \in RelayStates /\ x.pc = p /\ x.batch = b /\ x.held = h
BY DEF RelayStates

LEMMA RelayFields ==
  ASSUME NEW x \in RelayStates
  PROVE  /\ x.pc \in Pcs /\ x.batch \in Seq(Entries) /\ x.held \in 0..(Lease + 1)
         /\ Len(x.batch) \in Nat /\ DOMAIN x.batch = 1..Len(x.batch)
         /\ \A k \in 1..Len(x.batch) : /\ x.batch[k] \in Entries /\ x.batch[k].id \in Ids
                                       /\ x.batch[k].attempts \in 0..MaxAttempts
<1>1. x.pc \in Pcs /\ x.batch \in Seq(Entries) /\ x.held \in 0..(Lease + 1)
  BY DEF RelayStates
<1>2. \A k \in 1..Len(x.batch) : x.batch[k] \in Entries BY <1>1
<1>3. Len(x.batch) \in Nat /\ DOMAIN x.batch = 1..Len(x.batch) BY <1>1
<1> QED BY <1>1, <1>2, <1>3 DEF Entries

LEMMA OffIs ==
  /\ Off \in RelayStates /\ Working(Off) /\ Off.pc = "off"
  /\ \A r, t, o : Leased(Off, r, t, o)
<1>1. <<>> \in Seq(Entries) /\ Len(<<>>) = 0 OBVIOUS
<1>2. 0 \in 0..(Lease + 1) BY ConfigAssumption
<1>3. Off \in RelayStates /\ Off.pc = "off" /\ Off.batch = <<>>
  BY <1>1, <1>2 DEF Off, RelayStates, Pcs
<1>4. \A k \in 1..0 : FALSE OBVIOUS
<1> QED BY <1>1, <1>3, <1>4, ConfigAssumption DEF Working, Leased

(* A step changes what one relay does.                                     *)
LEMMA OneRelay ==
  ASSUME NEW f \in [Relays -> RelayStates], \A r \in Relays : Working(f[r]),
         NEW r \in Relays, NEW x \in RelayStates, Working(x), NEW g,
         g = [f EXCEPT ![r] = x]
  PROVE  /\ g \in [Relays -> RelayStates] /\ \A q \in Relays : Working(g[q])
         /\ g[r] = x /\ \A q \in Relays : q # r => g[q] = f[q]
OBVIOUS

(* What a relay holds stays leased as long as its rows are left alone.     *)
LEMMA LeaseKept ==
  ASSUME NEW x \in RelayStates, NEW r, NEW t, NEW o, Leased(x, r, t, o), NEW u, NEW p,
         \A i \in Ids : t[i].status = "processing" /\ o[i] = r /\ t[i].age <= Lease
                          => u[i] = t[i] /\ p[i] = o[i]
  PROVE  Leased(x, r, u, p)
BY RelayFields DEF Leased

LEMMA InitInv == Init => IInv
<1> SUFFICES ASSUME Init PROVE IInv OBVIOUS
<1>1. "absent" \in Statuses /\ 0 \in 0..MaxAttempts /\ 0 \in 0..WaitMax
      /\ 0 \in 0..(Lease + 1)
  BY ConfigAssumption, WaitsAre DEF Statuses
<1>2. \A i \in Ids : row[i] \in Rows /\ row[i].status = "absent"
  BY <1>1, RowIs DEF Init
<1>3. row \in [Ids -> Rows] BY <1>2 DEF Init
<1>4. Queued(queue, row)
  <2>1. queue = <<>> BY DEF Init
  <2>2. <<>> \in Seq(Ids) /\ Len(<<>>) = 0 /\ ToSet(<<>>) = {} BY DEF ToSet
  <2>3. \A i \in Ids : row[i].status \notin Waiting BY <1>2 DEF Waiting
  <2>4. \A k \in 1..0 : FALSE OBVIOUS
  <2> QED BY <2>1, <2>2, <2>3, <2>4 DEF Queued, Ordered
<1>5. relay \in [Relays -> RelayStates] /\ \A r \in Relays : relay[r] = Off
  BY OffIs DEF Init
<1>6. Types
  <2>1. \A r \in Relays : Working(relay[r]) BY <1>5, OffIs
  <2>2. owner \in [Ids -> Relays \cup {NoRelay}] /\ delivered \subseteq Ids BY DEF Init
  <2>3. late \in BOOLEAN BY Zenon DEF Init
  <2>4. faults \in 0..MaxFaults BY ConfigAssumption DEF Init
  <2> QED BY <1>3, <1>4, <1>5, <2>1, <2>2, <2>3, <2>4 DEF Types
<1>7. Delivery BY <1>2, <1>5, OffIs DEF Delivery, AllDelivered, MarksDelivered
<1>8. Leases BY <1>5, OffIs DEF Leases
<1> QED BY <1>6, <1>7, <1>8 DEF IInv

-----------------------------------------------------------------------------
(* Every action keeps it.                                                  *)

(* What a step does to Done rows.                                          *)
DoneStep ==
  /\ \A i \in Ids : row[i].status = "done" => row'[i].status = "done"
  /\ AllDelivered(row', delivered)

LEMMA AppendInv ==
  ASSUME IInv, NEW i \in Ids, NEW w \in 0..1, Append_(i, w)
  PROVE  IInv' /\ DoneStep
<1> DEFINE x == [status |-> "pending", attempts |-> 0, wait |-> w, age |-> 0]
<1>1. /\ row[i].status = "absent" /\ row' = [row EXCEPT ![i] = x]
      /\ queue' = Later(queue, {i}, w)
      /\ UNCHANGED <<relay, owner, delivered, late, faults>>
  BY DEF Append_
<1>2. Types /\ Delivery /\ Leases BY DEF IInv
<1>3. w \in 0..WaitMax BY WaitsAre
<1>4. x \in Rows /\ x.status = "pending" /\ x.wait = w
  BY <1>3, RowIs, ConfigAssumption DEF Statuses
<1> HIDE DEF x
<1>5. row \in [Ids -> Rows] /\ Queued(queue, row) BY <1>2 DEF Types
<1>6. /\ row' \in [Ids -> Rows] /\ row'[i] = x
      /\ \A j \in Ids \ {i} : row'[j] = row[j]
  BY <1>1, <1>4, <1>5
<1>7. Queued(queue', row')
  <2>1. \A j \in {i} : row'[j].status \in Waiting /\ row'[j].wait = w
    BY <1>4, <1>6 DEF Waiting
  <2>2. {i} \in SUBSET Ids OBVIOUS
  <2>3. Queued(Later(queue, {i}, w), row') BY <1>3, <1>5, <1>6, <2>1, <2>2, QueueLater
  <2> QED BY <1>1, <2>3
<1>8. Types' BY <1>1, <1>2, <1>6, <1>7 DEF Types
<1>9. AllDelivered(row', delivered) BY <1>2, <1>4, <1>6 DEF Delivery, AllDelivered
<1>10. Delivery' BY <1>1, <1>2, <1>9 DEF Delivery
<1>11. ASSUME ~late, NEW r \in Relays PROVE Leased(relay[r], r, row', owner)
  <2>1. Leased(relay[r], r, row, owner) BY <1>2, <1>11 DEF Leases
  <2>2. relay[r] \in RelayStates BY <1>2 DEF Types
  <2>3. \A j \in Ids : row[j].status = "processing" => j # i BY <1>1
  <2> QED BY <1>6, <2>1, <2>2, <2>3, LeaseKept
<1>12. Leases' BY <1>1, <1>11 DEF Leases
<1>13. DoneStep BY <1>1, <1>6, <1>9 DEF DoneStep
<1> QED BY <1>8, <1>10, <1>12, <1>13 DEF IInv

(* The reclaimed table and its queue.                                      *)
LEMMA ReclaimIs ==
  ASSUME Types, NEW stale, stale = {i \in Ids : Stale(row[i])}, NEW table,
         table = [i \in Ids |-> IF i \in stale THEN Reclaimed(row[i]) ELSE row[i]],
         NEW q, q = IF stale = {} THEN queue ELSE Later(queue, stale, StaleBackoff)
  PROVE  /\ table \in [Ids -> Rows] /\ Queued(q, table)
         /\ \A i \in stale : /\ table[i].status = "pending"
                             /\ row[i].status = "processing" /\ row[i].age > Lease
         /\ \A i \in Ids \ stale : table[i] = row[i]
<1>1. row \in [Ids -> Rows] /\ Queued(queue, row) BY DEF Types
<1>2. ASSUME NEW i \in stale
      PROVE  /\ table[i] \in Rows /\ table[i].status = "pending"
             /\ table[i].wait = StaleBackoff
             /\ row[i].status = "processing" /\ row[i].age > Lease
  <2>1. i \in Ids /\ Stale(row[i]) OBVIOUS
  <2>2. More(row[i].attempts) \in 0..MaxAttempts BY <1>1, <2>1, RowFields, MoreType
  <2>3. table[i] = [status |-> "pending", attempts |-> More(row[i].attempts),
                    wait |-> StaleBackoff, age |-> 0]
    BY <2>1 DEF Reclaimed
  <2>4. "pending" \in Statuses /\ StaleBackoff \in 0..WaitMax /\ 0 \in 0..(Lease + 1)
    BY WaitsAre, ConfigAssumption DEF Statuses
  <2>5. table[i] \in Rows /\ table[i].status = "pending" /\ table[i].wait = StaleBackoff
    BY <2>2, <2>3, <2>4, RowIs
  <2> QED BY <2>1, <2>5 DEF Stale
<1>3. \A i \in Ids \ stale : table[i] = row[i] OBVIOUS
<1>4. table \in [Ids -> Rows] BY <1>1, <1>2, <1>3
<1>5. stale \in SUBSET Ids OBVIOUS
<1>6. Queued(q, table)
  <2>1. CASE stale = {}
    <3>1. q = queue /\ table = row BY <1>1, <2>1
    <3> QED BY <1>1, <3>1
  <2>2. CASE stale # {}
    <3>1. q = Later(queue, stale, StaleBackoff) BY <2>2
    <3>2. \A i \in stale : table[i].status \in Waiting /\ table[i].wait = StaleBackoff
      BY <1>2 DEF Waiting
    <3> QED BY <1>1, <1>3, <1>5, <3>1, <3>2, WaitsAre, QueueLater
  <2> QED BY <2>1, <2>2
<1> QED BY <1>2, <1>3, <1>4, <1>6

(* The relay after a claim that took ids.                                  *)
Claimed(ids, table) ==
  [pc |-> IF ids = <<>> THEN "off" ELSE "handle", held |-> 0,
   batch |-> [k \in 1..Len(ids) |-> [id |-> ids[k], attempts |-> table[ids[k]].attempts]]]

LEMMA BatchIs ==
  ASSUME NEW table \in [Ids -> Rows], NEW ids \in Seq(Ids), Len(ids) <= Batch,
         \A j, k \in 1..Len(ids) : j # k => ids[j] # ids[k], NEW x, x = Claimed(ids, table)
  PROVE  /\ x \in RelayStates /\ Working(x) /\ x.pc # "mark_done" /\ x.held = 0
         /\ Len(x.batch) = Len(ids) /\ \A k \in 1..Len(ids) : x.batch[k].id = ids[k]
<1> DEFINE e(k) == [id |-> ids[k], attempts |-> table[ids[k]].attempts]
           b == [k \in 1..Len(ids) |-> e(k)]
           p == IF ids = <<>> THEN "off" ELSE "handle"
<1>1. Len(ids) \in Nat /\ \A k \in 1..Len(ids) : ids[k] \in Ids OBVIOUS
<1>2. \A k \in 1..Len(ids) : e(k) \in Entries /\ e(k).id = ids[k]
  BY <1>1, RowFields DEF Entries
<1> HIDE DEF e
<1>3. b \in Seq(Entries) /\ Len(b) = Len(ids) /\ \A k \in 1..Len(ids) : b[k] = e(k)
  BY <1>1, <1>2
<1>4. (p = "off") <=> (b = <<>>)
  <2>1. ids = <<>> <=> Len(ids) = 0 OBVIOUS
  <2>2. b = <<>> <=> Len(b) = 0 BY <1>3
  <2> HIDE DEF b
  <2> QED BY <1>3, <2>1, <2>2
<1>5. x = [pc |-> p, batch |-> b, held |-> 0] BY DEF e, Claimed
<1>6. p \in Pcs /\ 0 \in 0..(Lease + 1) /\ p # "mark_done" BY ConfigAssumption DEF Pcs
<1> HIDE DEF b, p
<1>7. x \in RelayStates /\ x.pc = p /\ x.batch = b /\ x.held = 0
  BY <1>3, <1>5, <1>6, RelayIs
<1>8. Working(x) BY <1>2, <1>3, <1>4, <1>7 DEF Working
<1> QED BY <1>2, <1>3, <1>6, <1>7, <1>8

LEMMA ClaimInv ==
  ASSUME IInv, NEW r \in Relays, Claim(r)
  PROVE  IInv' /\ DoneStep
<1> DEFINE stale == {i \in Ids : Stale(row[i])}
           table == [i \in Ids |-> IF i \in stale THEN Reclaimed(row[i]) ELSE row[i]]
           q == IF stale = {} THEN queue ELSE Later(queue, stale, StaleBackoff)
           ids == FirstDue(q, table)
           took == ToSet(ids)
           y(i) == [status |-> "processing", attempts |-> table[i].attempts,
                    wait |-> 0, age |-> 0]
           x == Claimed(ids, table)
<1>1. /\ row' = [i \in Ids |-> IF i \in took THEN y(i) ELSE table[i]]
      /\ queue' = Keep(q, Ids \ took)
      /\ relay' = [relay EXCEPT ![r] = x]
      /\ owner' = [i \in Ids |-> IF i \in took THEN r
                                 ELSE IF i \in stale THEN NoRelay ELSE owner[i]]
      /\ UNCHANGED <<delivered, late, faults>>
  BY DEF Claim, Claimed
<1>2. Types /\ Delivery /\ Leases BY DEF IInv
<1>3. /\ table \in [Ids -> Rows] /\ Queued(q, table)
      /\ \A i \in stale : /\ table[i].status = "pending"
                          /\ row[i].status = "processing" /\ row[i].age > Lease
      /\ \A i \in Ids \ stale : table[i] = row[i]
  <2>1. /\ stale = {i \in Ids : Stale(row[i])}
        /\ table = [i \in Ids |-> IF i \in stale THEN Reclaimed(row[i]) ELSE row[i]]
        /\ q = IF stale = {} THEN queue ELSE Later(queue, stale, StaleBackoff)
    OBVIOUS
  <2> HIDE DEF stale, table, q
  <2> QED BY <1>2, <2>1, ReclaimIs
<1> HIDE DEF stale, table, q
<1>4. q \in Seq(Ids) /\ Ordered(q, Waits(table)) BY <1>3 DEF Queued
<1>5. /\ ids \in Seq(Ids) /\ Len(ids) <= Batch /\ took \subseteq ToSet(q)
      /\ \A j, k \in 1..Len(ids) : j # k => ids[j] # ids[k]
  BY <1>4, FirstDueIs
<1> HIDE DEF ids
<1>6. /\ x \in RelayStates /\ Working(x) /\ x.pc # "mark_done" /\ x.held = 0
      /\ Len(x.batch) = Len(ids) /\ \A k \in 1..Len(ids) : x.batch[k].id = ids[k]
  <2>1. x = Claimed(ids, table) OBVIOUS
  <2>2. table \in [Ids -> Rows] /\ ids \in Seq(Ids) /\ Len(ids) <= Batch BY <1>3, <1>5
  <2>3. \A j, k \in 1..Len(ids) : j # k => ids[j] # ids[k] BY <1>5
  <2> HIDE DEF x
  <2> QED BY <2>1, <2>2, <2>3, BatchIs
<1>7. took \in SUBSET Ids /\ \A i \in took : table[i].status \in Waiting
  BY <1>3, <1>5 DEF Queued
<1>8. \A k \in 1..Len(ids) : ids[k] \in took BY <1>5 DEF ToSet
<1> HIDE DEF took, x
<1>9. ASSUME NEW i \in took
      PROVE  y(i) \in Rows /\ y(i).status = "processing" /\ y(i).age = 0
  <2>1. i \in Ids /\ table[i].attempts \in 0..MaxAttempts BY <1>3, <1>7, RowFields
  <2>2. "processing" \in Statuses /\ 0 \in 0..WaitMax /\ 0 \in 0..(Lease + 1)
    BY WaitsAre, ConfigAssumption DEF Statuses
  <2> HIDE DEF y
  <2> QED BY <2>1, <2>2, RowIs DEF y
<1> HIDE DEF y
<1>10. /\ \A i \in took : row'[i] = y(i) /\ owner'[i] = r
       /\ \A i \in Ids \ took : row'[i] = table[i]
       /\ \A i \in Ids \ (took \cup stale) : row'[i] = row[i] /\ owner'[i] = owner[i]
  BY <1>1, <1>3, <1>7
<1>11. row' \in [Ids -> Rows] BY <1>1, <1>3, <1>9
<1>12. owner' \in [Ids -> Relays \cup {NoRelay}] BY <1>1, <1>2 DEF Types
<1>13. Queued(queue', row')
  <2>1. \A i \in took : row'[i].status \notin Waiting BY <1>9, <1>10 DEF Waiting
  <2> QED BY <1>1, <1>3, <1>7, <1>10, <2>1, QueueKeep
<1>14. /\ relay' \in [Relays -> RelayStates] /\ \A s \in Relays : Working(relay'[s])
       /\ relay'[r] = x /\ \A s \in Relays : s # r => relay'[s] = relay[s]
  <2>1. relay \in [Relays -> RelayStates] /\ \A s \in Relays : Working(relay[s])
    BY <1>2 DEF Types
  <2> QED BY <1>1, <1>6, <2>1, OneRelay
<1>15. Types' BY <1>1, <1>2, <1>11, <1>12, <1>13, <1>14 DEF Types
<1>16. /\ AllDelivered(row', delivered)
       /\ \A i \in Ids : row[i].status = "done" => row'[i].status = "done"
  <2>1. ASSUME NEW i \in Ids, row'[i].status = "done" PROVE row[i].status = "done"
    BY <1>3, <1>9, <1>10, <2>1
  <2>2. ASSUME NEW i \in Ids, row[i].status = "done" PROVE row'[i].status = "done"
    <3>1. i \notin stale BY <1>3, <2>2
    <3>2. i \notin took BY <1>3, <1>7, <2>2, <3>1 DEF Waiting
    <3> QED BY <1>10, <2>2, <3>1, <3>2
  <2> QED BY <1>2, <2>1, <2>2 DEF Delivery, AllDelivered
<1>17. Delivery'
  <2>1. \A s \in Relays : MarksDelivered(relay'[s], delivered)
    BY <1>2, <1>6, <1>14 DEF Delivery, MarksDelivered
  <2> QED BY <1>1, <1>16, <2>1 DEF Delivery
<1>18. ASSUME ~late, NEW s \in Relays PROVE Leased(relay'[s], s, row', owner')
  <2>1. CASE s = r
    <3>1. \A k \in 1..Len(ids) : /\ row'[ids[k]].status = "processing"
                                 /\ row'[ids[k]].age = 0 /\ owner'[ids[k]] = r
      BY <1>8, <1>9, <1>10
    <3>2. 0 <= Lease BY ConfigAssumption
    <3> QED BY <1>6, <1>14, <2>1, <3>1, <3>2 DEF Leased
  <2>2. CASE s # r
    <3>1. Leased(relay[s], s, row, owner) /\ relay[s] \in RelayStates
      BY <1>2, <1>18 DEF Leases, Types
    <3>2. ASSUME NEW i \in Ids, row[i].status = "processing", row[i].age <= Lease
          PROVE  row'[i] = row[i] /\ owner'[i] = owner[i]
      <4>1. row[i].age \in Nat /\ Lease \in Nat
        BY <1>2, RowFields, ConfigAssumption DEF Types
      <4>2. i \notin stale BY <1>3, <3>2, <4>1
      <4>3. i \notin took BY <1>3, <1>7, <3>2, <4>2 DEF Waiting
      <4> QED BY <1>10, <4>2, <4>3
    <3>3. Leased(relay[s], s, row', owner') BY <3>1, <3>2, LeaseKept
    <3> QED BY <1>14, <2>2, <3>3
  <2> QED BY <2>1, <2>2
<1>19. Leases' BY <1>1, <1>18 DEF Leases
<1> QED BY <1>15, <1>16, <1>17, <1>19 DEF IInv, DoneStep

LEMMA CurrentIs ==
  ASSUME Types, NEW r \in Relays, relay[r].pc # "off"
  PROVE  /\ relay[r] \in RelayStates /\ Working(relay[r])
         /\ 1 \in 1..Len(relay[r].batch) /\ relay[r].batch # <<>>
         /\ Current(r) = relay[r].batch[1] /\ Current(r).id \in Ids
         /\ Current(r).attempts \in 0..MaxAttempts
<1>1. relay[r] \in RelayStates /\ Working(relay[r]) BY DEF Types
<1>2. relay[r].batch # <<>> BY <1>1 DEF Working
<1>3. relay[r].batch \in Seq(Entries) BY <1>1, RelayFields
<1>4. 1 \in 1..Len(relay[r].batch) /\ Head(relay[r].batch) = relay[r].batch[1] BY <1>2, <1>3
<1>5. Current(r) = relay[r].batch[1] BY <1>4 DEF Current
<1>6. relay[r].batch[1].id \in Ids /\ relay[r].batch[1].attempts \in 0..MaxAttempts
  BY <1>1, <1>4, RelayFields
<1> QED BY <1>1, <1>2, <1>4, <1>5, <1>6

LEMMA HandleInv ==
  ASSUME IInv, NEW r \in Relays, Handle(r)
  PROVE  IInv' /\ DoneStep
<1>1. relay[r].pc = "handle" /\ UNCHANGED <<row, queue, owner, late>> BY DEF Handle
<1>2. Types /\ Delivery /\ Leases BY DEF IInv
<1>3. /\ relay[r] \in RelayStates /\ Working(relay[r]) /\ relay[r].batch # <<>>
      /\ Current(r).id \in Ids
  BY <1>1, <1>2, CurrentIs
<1>4. PICK p \in {"mark_done", "mark_failed"} :
        /\ relay' = [relay EXCEPT ![r].pc = p] /\ delivered \subseteq delivered'
        /\ delivered' \subseteq Ids /\ faults' \in 0..MaxFaults
        /\ p = "mark_done" => Current(r).id \in delivered'
  <2>1. delivered \subseteq Ids /\ faults \in 0..MaxFaults BY <1>2 DEF Types
  <2>2. \A n \in 0..MaxFaults : n < MaxFaults => n + 1 \in 0..MaxFaults
    BY ConfigAssumption
  <2>3. CASE /\ delivered' = delivered \cup {Current(r).id}
             /\ relay' = [relay EXCEPT ![r].pc = "mark_done"] /\ UNCHANGED faults
    BY <1>3, <2>1, <2>3
  <2>4. CASE /\ IF Current(r).id \in Poison THEN UNCHANGED faults ELSE Fault
             /\ relay' = [relay EXCEPT ![r].pc = "mark_failed"] /\ UNCHANGED delivered
    BY <2>1, <2>2, <2>4 DEF Fault
  <2> QED BY <2>3, <2>4 DEF Handle
<1> DEFINE x == [pc |-> p, batch |-> relay[r].batch, held |-> relay[r].held]
<1>5. relay' = [relay EXCEPT ![r] = x]
  <2>1. [relay[r] EXCEPT !.pc = p] = x BY <1>3 DEF RelayStates
  <2> QED BY <1>4, <2>1
<1>6. /\ x \in RelayStates /\ x.pc = p /\ x.batch = relay[r].batch /\ x.held = relay[r].held
  BY <1>3, RelayFields, RelayIs DEF Pcs
<1> HIDE DEF x
<1>7. Working(x) BY <1>3, <1>6 DEF Working
<1>8. /\ relay' \in [Relays -> RelayStates] /\ \A q \in Relays : Working(relay'[q])
      /\ relay'[r] = x /\ \A q \in Relays : q # r => relay'[q] = relay[q]
  <2>1. relay \in [Relays -> RelayStates] /\ \A q \in Relays : Working(relay[q])
    BY <1>2 DEF Types
  <2> QED BY <1>5, <1>6, <1>7, <2>1, OneRelay
<1>9. Types' BY <1>1, <1>2, <1>4, <1>8 DEF Types
<1>10. Delivery'
  <2>1. \A q \in Relays : MarksDelivered(relay'[q], delivered')
    BY <1>2, <1>4, <1>6, <1>8 DEF Delivery, MarksDelivered, Current
  <2>2. AllDelivered(row', delivered') BY <1>1, <1>2, <1>4 DEF Delivery, AllDelivered
  <2> QED BY <2>1, <2>2 DEF Delivery
<1>11. Leases' BY <1>1, <1>2, <1>6, <1>8 DEF Leases, Leased
<1>12. DoneStep BY <1>1, <1>2 DEF DoneStep, Delivery
<1> QED BY <1>9, <1>10, <1>11, <1>12 DEF IInv

(* A relay after it has marked its current record.                         *)
Marked(r) ==
  LET rest == Tail(relay[r].batch) IN
  IF rest = <<>> THEN Off
  ELSE [pc |-> "handle", batch |-> rest, held |-> relay[r].held]

LEMMA MarkedIs ==
  ASSUME Types, NEW r \in Relays, relay[r].pc # "off", NEW x, x = Marked(r)
  PROVE  /\ x \in RelayStates /\ Working(x) /\ x.pc # "mark_done"
         /\ \A k \in 1..Len(x.batch) :
              /\ x.held = relay[r].held /\ k + 1 \in 1..Len(relay[r].batch)
              /\ x.batch[k] = relay[r].batch[k + 1] /\ x.batch[k].id \in Ids
              /\ x.batch[k].id # Current(r).id
<1> DEFINE b == relay[r].batch
           rest == Tail(b)
<1>1. /\ relay[r] \in RelayStates /\ Working(relay[r]) /\ b # <<>> /\ 1 \in 1..Len(b)
      /\ Current(r) = b[1]
  BY CurrentIs
<1>2. b \in Seq(Entries) /\ relay[r].held \in 0..(Lease + 1) BY <1>1, RelayFields
<1>3. /\ rest \in Seq(Entries) /\ Len(rest) = Len(b) - 1 /\ Len(b) \in Nat
      /\ \A k \in 1..Len(rest) : rest[k] = b[k + 1]
  BY <1>1, <1>2
<1>4. x = IF rest = <<>> THEN Off ELSE [pc |-> "handle", batch |-> rest, held |-> relay[r].held]
  BY DEF Marked
<1>5. Len(b) <= Batch /\ \A j, k \in 1..Len(b) : j # k => b[j].id # b[k].id
  BY <1>1 DEF Working
<1> HIDE DEF b, rest
<1>6. CASE rest = <<>>
  <2>1. x = Off /\ Len(x.batch) = 0 BY <1>4, <1>6 DEF Off
  <2>2. \A k \in 1..0 : FALSE OBVIOUS
  <2> QED BY <2>1, <2>2, OffIs
<1>7. CASE rest # <<>>
  <2>1. x = [pc |-> "handle", batch |-> rest, held |-> relay[r].held] BY <1>4, <1>7
  <2>2. "handle" \in Pcs BY DEF Pcs
  <2>3. x \in RelayStates /\ x.pc = "handle" /\ x.batch = rest /\ x.held = relay[r].held
    BY <1>2, <1>3, <2>1, <2>2, RelayIs
  <2>4. \A k \in 1..Len(rest) : k + 1 \in 1..Len(b) /\ k + 1 # 1 BY <1>3
  <2>5. Len(rest) <= Batch BY <1>3, <1>5, ConfigAssumption
  <2>6. ASSUME NEW j \in 1..Len(rest), NEW k \in 1..Len(rest), j # k
        PROVE  rest[j].id # rest[k].id
    <3>1. j + 1 # k + 1 BY <2>6
    <3> QED BY <1>3, <1>5, <2>4, <3>1
  <2>7. Working(x) BY <1>7, <2>3, <2>5, <2>6 DEF Working
  <2>8. \A k \in 1..Len(rest) : rest[k].id \in Ids /\ rest[k].id # b[1].id
    BY <1>1, <1>3, <1>5, <2>3, <2>4, RelayFields
  <2> QED BY <1>1, <1>3, <2>3, <2>4, <2>7, <2>8 DEF b
<1> QED BY <1>6, <1>7

(* A mark by r changes at most the row of its current record.              *)
LEMMA MarkInv ==
  ASSUME IInv, NEW r \in Relays, relay[r].pc # "off", NextRecord(r),
         UNCHANGED <<delivered, late, faults>>,
         row' \in [Ids -> Rows], Queued(queue', row'),
         owner' \in [Ids -> Relays \cup {NoRelay}],
         \A i \in Ids \ {Current(r).id} : row'[i] = row[i] /\ owner'[i] = owner[i],
         \A i \in Ids : row[i].status = "done" => row'[i].status = "done",
         AllDelivered(row', delivered)
  PROVE  IInv' /\ DoneStep
<1> DEFINE x == Marked(r)
<1>1. relay' = [relay EXCEPT ![r] = x] BY DEF NextRecord, Marked
<1>2. Types /\ Delivery /\ Leases BY DEF IInv
<1>3. /\ x \in RelayStates /\ Working(x) /\ x.pc # "mark_done"
      /\ \A k \in 1..Len(x.batch) :
           /\ x.held = relay[r].held /\ k + 1 \in 1..Len(relay[r].batch)
           /\ x.batch[k] = relay[r].batch[k + 1] /\ x.batch[k].id \in Ids
           /\ x.batch[k].id # Current(r).id
  BY <1>2, MarkedIs
<1> HIDE DEF x
<1>4. /\ relay' \in [Relays -> RelayStates] /\ \A q \in Relays : Working(relay'[q])
      /\ relay'[r] = x /\ \A q \in Relays : q # r => relay'[q] = relay[q]
  <2>1. relay \in [Relays -> RelayStates] /\ \A q \in Relays : Working(relay[q])
    BY <1>2 DEF Types
  <2> QED BY <1>1, <1>3, <2>1, OneRelay
<1>5. Types' BY <1>2, <1>4 DEF Types
<1>6. Delivery'
  <2>1. \A q \in Relays : MarksDelivered(relay'[q], delivered)
    BY <1>2, <1>3, <1>4 DEF Delivery, MarksDelivered
  <2> QED BY <2>1 DEF Delivery
<1>7. ASSUME ~late, NEW q \in Relays PROVE Leased(relay'[q], q, row', owner')
  <2>1. Leased(relay[q], q, row, owner) /\ Leased(relay[r], r, row, owner)
    BY <1>2, <1>7 DEF Leases
  <2>2. CASE q = r
    <3>1. ASSUME NEW k \in 1..Len(x.batch)
          PROVE  /\ row'[x.batch[k].id].status = "processing" /\ owner'[x.batch[k].id] = r
                 /\ row'[x.batch[k].id].age = x.held /\ x.held <= Lease
      <4> DEFINE n == k + 1
      <4>0. /\ n \in 1..Len(relay[r].batch) /\ x.batch[k] = relay[r].batch[n]
            /\ x.held = relay[r].held
        BY <1>3
      <4> HIDE DEF n
      <4>1. /\ row[x.batch[k].id].status = "processing" /\ owner[x.batch[k].id] = r
            /\ row[x.batch[k].id].age = x.held /\ x.held <= Lease
        BY <2>1, <4>0 DEF Leased
      <4>2. row'[x.batch[k].id] = row[x.batch[k].id] /\ owner'[x.batch[k].id] = owner[x.batch[k].id]
        BY <1>3
      <4> QED BY <4>1, <4>2
    <3> QED BY <1>4, <2>2, <3>1 DEF Leased
  <2>3. CASE q # r
    <3>1. owner[Current(r).id] = r BY <1>2, <2>1, CurrentIs DEF Leased
    <3>2. \A i \in Ids : owner[i] = q => row'[i] = row[i] /\ owner'[i] = owner[i]
      BY <2>3, <3>1
    <3>3. relay[q] \in RelayStates BY <1>2 DEF Types
    <3>4. Leased(relay[q], q, row', owner') BY <2>1, <3>2, <3>3, LeaseKept
    <3> QED BY <1>4, <2>3, <3>4
  <2> QED BY <2>2, <2>3
<1>8. Leases' BY <1>7 DEF Leases
<1> QED BY <1>5, <1>6, <1>8 DEF IInv, DoneStep

LEMMA MarkDoneInv ==
  ASSUME IInv, NEW r \in Relays, MarkDone(r)
  PROVE  IInv' /\ DoneStep
<1> DEFINE i == Current(r).id
           y == [status |-> "done", attempts |-> row[i].attempts, wait |-> 0, age |-> 0]
<1>1. /\ relay[r].pc = "mark_done" /\ NextRecord(r)
      /\ row' = [row EXCEPT ![i] = IF Markable(row[i]) THEN y ELSE row[i]]
      /\ queue' = IF Markable(row[i]) THEN Keep(queue, Ids \ {i}) ELSE queue
      /\ owner' = [owner EXCEPT ![i] = IF Markable(row[i]) THEN NoRelay ELSE owner[i]]
      /\ UNCHANGED <<delivered, late, faults>>
  BY DEF MarkDone, AfterHandle
<1>2. Types /\ Delivery /\ Leases BY DEF IInv
<1>3. relay[r].pc # "off" BY <1>1
<1>4. i \in Ids BY <1>2, <1>3, CurrentIs
<1>5. i \in delivered BY <1>1, <1>2 DEF Delivery, MarksDelivered, Current
<1>6. row \in [Ids -> Rows] /\ owner \in [Ids -> Relays \cup {NoRelay}] /\ Queued(queue, row)
  BY <1>2 DEF Types
<1>7. y \in Rows /\ y.status = "done"
  <2>1. row[i].attempts \in 0..MaxAttempts BY <1>4, <1>6, RowFields
  <2>2. "done" \in Statuses /\ 0 \in 0..WaitMax /\ 0 \in 0..(Lease + 1)
    BY WaitsAre, ConfigAssumption DEF Statuses
  <2> QED BY <2>1, <2>2, RowIs
<1> HIDE DEF i, y
<1>8. /\ row' \in [Ids -> Rows] /\ owner' \in [Ids -> Relays \cup {NoRelay}]
      /\ \A j \in Ids \ {i} : row'[j] = row[j] /\ owner'[j] = owner[j]
      /\ row'[i] = IF Markable(row[i]) THEN y ELSE row[i]
  BY <1>1, <1>4, <1>6, <1>7
<1>9. Queued(queue', row')
  <2>1. CASE Markable(row[i])
    <3>1. queue' = Keep(queue, Ids \ {i}) BY <1>1, <2>1
    <3>2. {i} \in SUBSET Ids BY <1>4
    <3>3. \A j \in {i} : row'[j].status \notin Waiting BY <1>7, <1>8, <2>1 DEF Waiting
    <3>4. \A j \in Ids \ {i} : row'[j] = row[j] BY <1>8
    <3>5. Queued(queue, row) BY <1>6
    <3>6. Queued(Keep(queue, Ids \ {i}), row') BY <3>2, <3>3, <3>4, <3>5, QueueKeep
    <3> QED BY <3>1, <3>6
  <2>2. CASE ~Markable(row[i])
    <3>1. queue' = queue /\ row' = row BY <1>1, <1>4, <1>6, <2>2
    <3> QED BY <1>6, <3>1
  <2> QED BY <2>1, <2>2
<1>10. \A j \in Ids : row[j].status = "done" => row'[j].status = "done"
  BY <1>8 DEF Markable
<1>11. AllDelivered(row', delivered)
  BY <1>2, <1>5, <1>8 DEF Delivery, AllDelivered
<1> QED BY <1>1, <1>3, <1>8, <1>9, <1>10, <1>11, MarkInv DEF i

LEMMA MarkFailedInv ==
  ASSUME IInv, NEW r \in Relays, MarkFailed(r)
  PROVE  IInv' /\ DoneStep
<1> DEFINE i == Current(r).id
           w == Backoff(Current(r).attempts)
           y == [status |-> "failed", wait |-> w, age |-> 0, attempts |-> More(row[i].attempts)]
<1>1. /\ relay[r].pc = "mark_failed" /\ NextRecord(r)
      /\ UNCHANGED <<delivered, late, faults>>
      /\ IF Markable(row[i])
         THEN /\ row' = [row EXCEPT ![i] = y]
              /\ queue' = Later(queue, {i}, w)
              /\ owner' = [owner EXCEPT ![i] = NoRelay]
         ELSE UNCHANGED <<row, queue, owner>>
  BY DEF MarkFailed
<1>2. Types /\ Delivery /\ Leases BY DEF IInv
<1>3. relay[r].pc # "off" BY <1>1
<1>4. i \in Ids /\ Current(r).attempts \in 0..MaxAttempts BY <1>2, <1>3, CurrentIs
<1>5. w \in 0..WaitMax BY <1>4, BackoffType
<1>6. row \in [Ids -> Rows] /\ owner \in [Ids -> Relays \cup {NoRelay}] /\ Queued(queue, row)
  BY <1>2 DEF Types
<1>7. y \in Rows /\ y.status = "failed" /\ y.wait = w
  <2>1. More(row[i].attempts) \in 0..MaxAttempts BY <1>4, <1>6, RowFields, MoreType
  <2>2. "failed" \in Statuses /\ 0 \in 0..(Lease + 1) BY ConfigAssumption DEF Statuses
  <2>3. y = [status |-> "failed", attempts |-> More(row[i].attempts), wait |-> w, age |-> 0]
    OBVIOUS
  <2> HIDE DEF y, w
  <2> QED BY <1>5, <2>1, <2>2, <2>3, RowIs
<1> HIDE DEF i, w, y
<1>8. /\ row' \in [Ids -> Rows] /\ owner' \in [Ids -> Relays \cup {NoRelay}]
      /\ \A j \in Ids \ {i} : row'[j] = row[j] /\ owner'[j] = owner[j]
      /\ row'[i] = IF Markable(row[i]) THEN y ELSE row[i]
  BY <1>1, <1>4, <1>6, <1>7
<1>9. Queued(queue', row')
  <2>1. CASE Markable(row[i])
    <3>1. queue' = Later(queue, {i}, w) BY <1>1, <2>1
    <3>2. {i} \in SUBSET Ids BY <1>4
    <3>3. \A j \in {i} : row'[j].status \in Waiting /\ row'[j].wait = w
      BY <1>7, <1>8, <2>1 DEF Waiting
    <3>4. Queued(Later(queue, {i}, w), row')
      BY <1>5, <1>6, <1>8, <3>2, <3>3, QueueLater
    <3> QED BY <3>1, <3>4
  <2>2. CASE ~Markable(row[i])
    <3>1. UNCHANGED <<row, queue, owner>> BY <1>1, <2>2, Zenon
    <3> QED BY <1>6, <3>1
  <2> QED BY <2>1, <2>2
<1>10. \A j \in Ids : row[j].status = "done" => row'[j].status = "done"
  BY <1>8 DEF Markable
<1>11. AllDelivered(row', delivered)
  BY <1>2, <1>7, <1>8 DEF Delivery, AllDelivered
<1> QED BY <1>1, <1>3, <1>8, <1>9, <1>10, <1>11, MarkInv DEF i

LEMMA StopInv ==
  ASSUME IInv, NEW r \in Relays, Stop(r)
  PROVE  IInv' /\ DoneStep
<1>1. /\ relay' = [relay EXCEPT ![r] = Off] /\ Fault
      /\ UNCHANGED <<row, queue, owner, delivered, late>>
  BY DEF Stop
<1>2. Types /\ Delivery /\ Leases BY DEF IInv
<1>3. /\ relay' \in [Relays -> RelayStates] /\ \A q \in Relays : Working(relay'[q])
      /\ relay'[r] = Off /\ \A q \in Relays : q # r => relay'[q] = relay[q]
  <2>1. relay \in [Relays -> RelayStates] /\ \A q \in Relays : Working(relay[q])
    BY <1>2 DEF Types
  <2> QED BY <1>1, <2>1, OffIs, OneRelay
<1>4. faults' \in 0..MaxFaults BY <1>1, <1>2, ConfigAssumption DEF Types, Fault
<1>5. Types' BY <1>1, <1>2, <1>3, <1>4 DEF Types
<1>6. Delivery' BY <1>1, <1>2, <1>3, OffIs DEF Delivery, MarksDelivered
<1>7. Leases' BY <1>1, <1>2, <1>3, OffIs DEF Leases
<1>8. DoneStep BY <1>1, <1>2 DEF DoneStep, Delivery
<1> QED BY <1>5, <1>6, <1>7, <1>8 DEF IInv

LEMMA TickInv ==
  ASSUME IInv, Tick
  PROVE  IInv' /\ DoneStep
<1> DEFINE y(i) == [status |-> row[i].status, attempts |-> row[i].attempts,
                    wait |-> Less(row[i].wait),
                    age |-> IF row[i].status = "processing" THEN Older(row[i].age) ELSE 0]
           x(r) == [pc |-> relay[r].pc, batch |-> relay[r].batch,
                    held |-> IF relay[r].pc = "off" THEN 0 ELSE Older(relay[r].held)]
<1>1. /\ IF \E r \in Relays : Expiring(r) THEN Fault /\ late' = TRUE
         ELSE UNCHANGED <<late, faults>>
      /\ row' = [i \in Ids |-> y(i)] /\ relay' = [r \in Relays |-> x(r)]
      /\ UNCHANGED <<queue, owner, delivered>>
  BY DEF Tick
<1>2. Types /\ Delivery /\ Leases BY DEF IInv
<1>3. row \in [Ids -> Rows] /\ relay \in [Relays -> RelayStates] BY <1>2 DEF Types
<1>4. \A n \in 0..(Lease + 1) : /\ Older(n) \in 0..(Lease + 1)
                                /\ n < Lease => Older(n) = n + 1 /\ Older(n) <= Lease
  BY ConfigAssumption DEF Older
<1>5. \A n \in 0..WaitMax : Less(n) \in 0..WaitMax BY WaitsAre DEF Less
<1>6. 0 \in 0..(Lease + 1) BY ConfigAssumption
<1>7. ASSUME NEW i \in Ids
      PROVE  /\ row'[i] \in Rows /\ row'[i].status = row[i].status
             /\ row'[i].wait = Less(row[i].wait)
             /\ row[i].status = "processing" => row'[i].age = Older(row[i].age)
  <2>1. /\ row[i].status \in Statuses /\ row[i].attempts \in 0..MaxAttempts
        /\ row[i].wait \in 0..WaitMax /\ row[i].age \in 0..(Lease + 1)
    BY <1>3, RowFields
  <2> DEFINE a == IF row[i].status = "processing" THEN Older(row[i].age) ELSE 0
  <2>2. a \in 0..(Lease + 1) BY <1>4, <1>6, <2>1
  <2>3. row'[i] = [status |-> row[i].status, attempts |-> row[i].attempts,
                   wait |-> Less(row[i].wait), age |-> a]
    BY <1>1
  <2>4. row[i].status = "processing" => a = Older(row[i].age) OBVIOUS
  <2> HIDE DEF a
  <2>5. /\ row'[i] \in Rows /\ row'[i].status = row[i].status
        /\ row'[i].wait = Less(row[i].wait) /\ row'[i].age = a
    BY <1>5, <2>1, <2>2, <2>3, RowIs
  <2> QED BY <2>4, <2>5
<1>8. ASSUME NEW r \in Relays
      PROVE  /\ relay'[r] \in RelayStates /\ relay'[r].pc = relay[r].pc
             /\ relay'[r].batch = relay[r].batch
             /\ relay[r].pc # "off" => relay'[r].held = Older(relay[r].held)
  <2>1. relay[r].pc \in Pcs /\ relay[r].batch \in Seq(Entries) /\ relay[r].held \in 0..(Lease + 1)
    BY <1>3, RelayFields
  <2> DEFINE h == IF relay[r].pc = "off" THEN 0 ELSE Older(relay[r].held)
  <2>2. h \in 0..(Lease + 1) BY <1>4, <1>6, <2>1
  <2>3. relay'[r] = [pc |-> relay[r].pc, batch |-> relay[r].batch, held |-> h] BY <1>1
  <2>4. relay[r].pc # "off" => h = Older(relay[r].held) OBVIOUS
  <2> HIDE DEF h
  <2>5. /\ relay'[r] \in RelayStates /\ relay'[r].pc = relay[r].pc
        /\ relay'[r].batch = relay[r].batch /\ relay'[r].held = h
    BY <2>1, <2>2, <2>3, RelayIs
  <2> QED BY <2>4, <2>5
<1> HIDE DEF x, y
<1>9. row' \in [Ids -> Rows] /\ relay' \in [Relays -> RelayStates] BY <1>1, <1>7, <1>8
<1>10. Queued(queue', row')
  <2>1. \A i \in Ids : row[i].wait \in Nat BY <1>3, RowFields, WaitsAre
  <2>2. Queued(queue, row) BY <1>2 DEF Types
  <2>3. Queued(queue, row') BY <1>7, <2>1, <2>2, QueueSame
  <2> QED BY <1>1, <2>3
<1>11. \A r \in Relays : Working(relay'[r]) BY <1>2, <1>8 DEF Types, Working
<1>12. late' \in BOOLEAN
  <2>1. late \in BOOLEAN BY <1>2 DEF Types
  <2> QED BY <1>1, <2>1, Zenon
<1>13. faults' \in 0..MaxFaults BY <1>1, <1>2, ConfigAssumption DEF Types, Fault
<1>14. Types' BY <1>1, <1>2, <1>9, <1>10, <1>11, <1>12, <1>13 DEF Types
<1>15. AllDelivered(row', delivered) BY <1>2, <1>7 DEF Delivery, AllDelivered
<1>16. Delivery'
  <2>1. \A r \in Relays : MarksDelivered(relay'[r], delivered)
    BY <1>2, <1>8 DEF Delivery, MarksDelivered
  <2> QED BY <1>1, <1>15, <2>1 DEF Delivery
<1>17. ASSUME ~late', NEW r \in Relays PROVE Leased(relay'[r], r, row', owner')
  <2>1. ~(\E q \in Relays : Expiring(q)) /\ ~late BY <1>1, <1>17
  <2>2. Leased(relay[r], r, row, owner) BY <1>2, <2>1 DEF Leases
  <2> SUFFICES ASSUME NEW k \in 1..Len(relay[r].batch)
      PROVE  /\ row'[relay[r].batch[k].id].status = "processing"
             /\ owner'[relay[r].batch[k].id] = r
             /\ row'[relay[r].batch[k].id].age = relay'[r].held /\ relay'[r].held <= Lease
    BY <1>8 DEF Leased
  <2> DEFINE i == relay[r].batch[k].id
  <2>3. i \in Ids /\ relay[r].held \in 0..(Lease + 1) BY <1>3, RelayFields
  <2>4. relay[r].pc # "off"
    <3>1. Working(relay[r]) BY <1>2 DEF Types
    <3>2. Len(relay[r].batch) \in Nat BY <1>3, RelayFields
    <3>3. relay[r].batch # <<>>
      <4>1. Len(<<>>) = 0 OBVIOUS
      <4>2. Len(relay[r].batch) # 0 BY <3>2
      <4> QED BY <4>1, <4>2
    <3> QED BY <3>1, <3>3 DEF Working
  <2>5. /\ row[i].status = "processing" /\ owner[i] = r
        /\ row[i].age = relay[r].held /\ relay[r].held <= Lease
    BY <2>2 DEF Leased
  <2>6. relay[r].held # Lease BY <2>1, <2>4 DEF Expiring
  <2>7. relay[r].held < Lease BY <2>3, <2>5, <2>6, ConfigAssumption
  <2>8. relay'[r].held = Older(relay[r].held) /\ Older(relay[r].held) <= Lease
    BY <1>4, <1>8, <2>3, <2>4, <2>7
  <2>9. row'[i].status = "processing" /\ row'[i].age = Older(row[i].age)
    BY <1>7, <2>3, <2>5
  <2>10. owner'[i] = r BY <1>1, <2>5
  <2> HIDE DEF i
  <2> QED BY <2>5, <2>8, <2>9, <2>10 DEF i
<1>18. Leases' BY <1>17 DEF Leases
<1>19. DoneStep BY <1>7, <1>15 DEF DoneStep
<1> QED BY <1>14, <1>16, <1>18, <1>19 DEF IInv

LEMMA StepInv == IInv /\ [Next]_vars => IInv' /\ DoneStep
<1> SUFFICES ASSUME IInv, [Next]_vars PROVE IInv' /\ DoneStep OBVIOUS
<1>1. ASSUME NEW i \in Ids, NEW w \in 0..1, Append_(i, w) PROVE IInv' /\ DoneStep
  BY <1>1, AppendInv
<1>2. ASSUME NEW r \in Relays, Claim(r) PROVE IInv' /\ DoneStep BY <1>2, ClaimInv
<1>3. ASSUME NEW r \in Relays, Handle(r) PROVE IInv' /\ DoneStep BY <1>3, HandleInv
<1>4. ASSUME NEW r \in Relays, MarkDone(r) PROVE IInv' /\ DoneStep BY <1>4, MarkDoneInv
<1>5. ASSUME NEW r \in Relays, MarkFailed(r) PROVE IInv' /\ DoneStep
  BY <1>5, MarkFailedInv
<1>6. ASSUME NEW r \in Relays, Stop(r) PROVE IInv' /\ DoneStep BY <1>6, StopInv
<1>7. CASE Tick BY <1>7, TickInv
<1>8. CASE UNCHANGED vars
  BY <1>8 DEF vars, IInv, Types, Delivery, Leases, DoneStep
<1> QED BY <1>1, <1>2, <1>3, <1>4, <1>5, <1>6, <1>7, <1>8 DEF Next, Round

-----------------------------------------------------------------------------

(* The table, the relays and the queue have their types; the queue holds   *)
(* the rows that are pending or failed, each once, in the order of claim's *)
(* ORDER BY, whatever was appended, put off, reclaimed or marked.          *)
THEOREM TypeCorrect == Spec => []TypeOK
<1>1. IInv => TypeOK
  <2> SUFFICES ASSUME IInv PROVE TypeOK OBVIOUS
  <2>1. Types BY DEF IInv
  <2>2. /\ queue \in Seq(Ids) /\ Ordered(queue, Waits(row))
        /\ ToSet(queue) = {i \in Ids : row[i].status \in {"pending", "failed"}}
    BY <2>1 DEF Types, Queued, Waiting
  <2>3. \A k \in 1..Len(queue) : Waits(row)[queue[k]] = row[queue[k]].wait
    BY <2>2 DEF Waits
  <2>4. \A j, k \in 1..Len(queue) :
          j < k => queue[j] # queue[k] /\ row[queue[j]].wait <= row[queue[k]].wait
    BY <2>2, <2>3 DEF Ordered
  <2>5. ASSUME NEW r \in Relays
        PROVE  /\ relay[r].pc \in {"off", "handle", "mark_done", "mark_failed"}
               /\ (relay[r].pc = "off") <=> (relay[r].batch = <<>>)
               /\ Holds(r) \subseteq Ids /\ Len(relay[r].batch) <= Batch
               /\ relay[r].held \in 0..(Lease + 1)
    <3>1. relay[r] \in RelayStates /\ Working(relay[r]) BY <2>1 DEF Types
    <3>2. Holds(r) \subseteq Ids BY <3>1, RelayFields DEF Holds
    <3> QED BY <3>1, <3>2, RelayFields DEF Working, Pcs
  <2> QED BY <2>1, <2>2, <2>4, <2>5 DEF TypeOK, Types
<1> QED BY <1>1, InitInv, StepInv, PTL DEF Spec

(* As long as every relay keeps to its lease, no record is held, and so    *)
(* delivered, by two relays at once: "并发 claim 不会双领" (outbox.rs:183).     *)
THEOREM LeaseExclusiveHolds == Spec => []LeaseExclusive
<1>1. IInv => LeaseExclusive
  <2> SUFFICES ASSUME IInv, ~late, NEW r \in Relays, NEW q \in Relays, r # q,
                      NEW i \in Holds(r), i \in Holds(q)
               PROVE  FALSE
    BY DEF LeaseExclusive
  <2>1. Leased(relay[r], r, row, owner) /\ Leased(relay[q], q, row, owner)
    BY DEF IInv, Leases
  <2>2. /\ DOMAIN relay[r].batch = 1..Len(relay[r].batch)
        /\ DOMAIN relay[q].batch = 1..Len(relay[q].batch)
    BY RelayFields DEF IInv, Types
  <2>3. owner[i] = r BY <2>1, <2>2 DEF Holds, Leased
  <2>4. owner[i] = q BY <2>1, <2>2 DEF Holds, Leased
  <2> QED BY <2>3, <2>4
<1> QED BY <1>1, InitInv, StepInv, PTL DEF Spec

(* A row becomes Done only when a handler has returned Ok for it, and stays *)
(* Done, late marks and expired leases included ("不能把 Done 翻回 Failed       *)
(* 重新入队", outbox.rs:291).                                                 *)
THEOREM DoneIsFinalHolds == Spec => DoneIsFinal
<1>1. IInv /\ [Next]_vars =>
        [\A i \in Ids :
           /\ row[i].status = "done" => row'[i].status = "done"
           /\ row'[i].status = "done" => i \in delivered]_vars
  BY StepInv DEF DoneStep, AllDelivered
<1> QED BY <1>1, InitInv, StepInv, PTL DEF Spec, DoneIsFinal
=============================================================================
