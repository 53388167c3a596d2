-------------------------- MODULE SnowflakeProofs --------------------------
(***************************************************************************)
(* Proofs about Snowflake, for any number of workers, threads, bits and    *)
(* clock rollbacks: no id is returned twice (Unique) and a worker's ids    *)
(* increase (Increasing).  The inductive invariant says that every id      *)
(* returned belongs to a state the worker has reached, and that a thread   *)
(* about to swap would raise the state it loaded.                          *)
(***************************************************************************)
EXTENDS Snowflake, FiniteSetTheorems, TLAPS

-----------------------------------------------------------------------------
(* Arithmetic of the packed state and of the ids.                          *)

\* A packed state is its millisecond and its sequence (id.rs:64-68, 76).
LEMMA Split == ASSUME NEW s \in Nat
  PROVE /\ Ms(s) \in Nat /\ Sequence(s) \in 0..MaxSequence
        /\ s = Ms(s) * PerMs + Sequence(s)
  BY BitsAssumption, SMTT(20) DEF Ms, Sequence, MaxSequence

\* Packing and unpacking are inverse as long as the sequence fits its bits.
LEMMA PackParts ==
  ASSUME NEW ms \in Nat, NEW q \in 0..MaxSequence
  PROVE /\ Pack(ms, q) \in Nat /\ Ms(Pack(ms, q)) = ms /\ Sequence(Pack(ms, q)) = q
  BY BitsAssumption, SMTT(20) DEF Pack, Ms, Sequence, MaxSequence

\* Multiplication by a positive number keeps a strict order.
LEMMA MulOrder == ASSUME NEW q \in Int, NEW p \in Int, NEW n \in Nat \ {0}, q < p
  PROVE q * n + n <= p * n
  BY SMTT(20)

\* Products of naturals are naturals.
LEMMA MulNat == ASSUME NEW q \in Nat, NEW n \in Nat PROVE q * n \in Nat
  BY SMTT(20)

\* The id that is returned for state s of worker w.
IdOf(w, s) == compose_id(Ms(s), w, Sequence(s))

\* Quotient and remainder of q * n + r.
LEMMA Quotient == ASSUME NEW q \in Nat, NEW r \in Nat, NEW n \in Nat \ {0}, r < n
  PROVE /\ (q * n + r) \div n = q /\ (q * n + r) % n = r
  BY SMTT(20)

\* The worker bits of an id are the worker (compose_id, id.rs:98-100).
LEMMA IdWorker ==
  ASSUME NEW w \in 0..(WorkerIds - 1), NEW s \in Nat
  PROVE IdOf(w, s) \in Nat /\ WorkerOf(IdOf(w, s)) = w
<1>1. Ms(s) \in Nat /\ Sequence(s) \in 0..MaxSequence BY Split
<1>2. Ms(s) * WorkerIds + w \in Nat BY <1>1, BitsAssumption, MulNat
<1>3. IdOf(w, s) \in Nat /\ IdOf(w, s) \div PerMs = Ms(s) * WorkerIds + w
  <2> DEFINE q == Ms(s) * WorkerIds + w
  <2>1. q \in Nat BY <1>2
  <2>2. Sequence(s) \in Nat /\ Sequence(s) < PerMs BY <1>1, BitsAssumption DEF MaxSequence
  <2>3. q * PerMs \in Nat BY <2>1, BitsAssumption, MulNat
  <2> HIDE DEF q
  <2>4. (q * PerMs + Sequence(s)) \div PerMs = q BY <2>1, <2>2, Quotient, BitsAssumption
  <2>5. IdOf(w, s) = q * PerMs + Sequence(s) BY DEF IdOf, compose_id, q
  <2> QED BY <2>2, <2>3, <2>4, <2>5 DEF q
<1>4. (Ms(s) * WorkerIds + w) % WorkerIds = w
  BY <1>1, BitsAssumption, Quotient
<1> QED BY <1>3, <1>4 DEF WorkerOf

\* Later states give larger ids of the same worker.
LEMMA IdOrder ==
  ASSUME NEW w \in 0..(WorkerIds - 1), NEW s \in Nat, NEW u \in Nat, s < u
  PROVE IdOf(w, s) < IdOf(w, u)
<1>1. /\ Ms(s) \in Nat /\ Sequence(s) \in 0..MaxSequence
      /\ s = Ms(s) * PerMs + Sequence(s)
      /\ Ms(u) \in Nat /\ Sequence(u) \in 0..MaxSequence
      /\ u = Ms(u) * PerMs + Sequence(u)
  BY Split
<1>2. CASE Ms(s) = Ms(u)
  <2>1. Sequence(s) < Sequence(u) BY <1>1, <1>2, MulNat, BitsAssumption DEF MaxSequence
  <2>2. (Ms(s) * WorkerIds + w) * PerMs \in Nat BY <1>1, MulNat, BitsAssumption
  <2> QED BY <1>1, <1>2, <2>1, <2>2 DEF IdOf, compose_id, MaxSequence
<1>3. CASE Ms(s) < Ms(u)
  <2> DEFINE a == Ms(s) * WorkerIds + w
             b == Ms(u) * WorkerIds + w
  <2>1. a \in Nat /\ b \in Nat BY <1>1, MulNat, BitsAssumption
  <2>2. a < b BY <1>1, <1>3, MulOrder, MulNat, BitsAssumption
  <2>3. IdOf(w, s) = a * PerMs + Sequence(s) /\ IdOf(w, u) = b * PerMs + Sequence(u)
    BY DEF IdOf, compose_id
  <2> HIDE DEF a, b
  <2>4. a * PerMs + PerMs <= b * PerMs BY <2>1, <2>2, MulOrder, BitsAssumption
  <2>5. a * PerMs \in Nat /\ b * PerMs \in Nat BY <2>1, MulNat, BitsAssumption
  <2> QED BY <1>1, <2>3, <2>4, <2>5, BitsAssumption DEF MaxSequence
<1>4. CASE Ms(u) < Ms(s)
  <2>1. Ms(u) * PerMs + PerMs <= Ms(s) * PerMs BY <1>1, <1>4, MulOrder, BitsAssumption
  <2>2. Ms(u) * PerMs \in Nat /\ Ms(s) * PerMs \in Nat BY <1>1, MulNat, BitsAssumption
  <2> QED BY <1>1, <2>1, <2>2, BitsAssumption DEF MaxSequence
<1> QED BY <1>1, <1>2, <1>3, <1>4

\* What next_id stores is larger than what it loaded: neither a clock that
\* went back nor an exhausted sequence gets as far as the swap.
LEMMA NextLarger ==
  ASSUME NEW now \in 0..MaxTimestamp, NEW seen \in Nat \cup {Unset},
         ~RolledBack(now, seen), ~Exhausted(now, seen)
  PROVE  NextState(now, seen) \in Nat /\ NextState(now, seen) > seen
<1>1. 0 \in 0..MaxSequence BY BitsAssumption DEF MaxSequence
<1>2. CASE seen = Unset
  BY <1>1, <1>2, PackParts, BitsAssumption DEF NextState, Unset
<1>3. CASE seen \in Nat
  <2>1. Ms(seen) \in Nat /\ Sequence(seen) \in 0..MaxSequence
        /\ seen = Ms(seen) * PerMs + Sequence(seen)
    BY <1>3, Split
  <2>2. Ms(seen) * PerMs \in Nat /\ now * PerMs \in Nat /\ now \in Nat
    BY <2>1, MulNat, BitsAssumption
  <2>3. CASE now = Ms(seen)
    <3>1. Sequence(seen) + 1 \in 0..MaxSequence
      BY <1>3, <2>1, <2>3, BitsAssumption DEF Exhausted, MaxSequence, Unset
    <3> QED BY <1>3, <2>1, <2>2, <2>3, <3>1 DEF NextState, Pack, Unset
  <2>4. CASE Ms(seen) < now
    <3>1. Ms(seen) * PerMs + PerMs <= now * PerMs
      BY <2>1, <2>2, <2>4, MulOrder, BitsAssumption
    <3>2. NextState(now, seen) = now * PerMs
      BY <1>3, <2>1, <2>2, <2>4 DEF NextState, Pack, Unset
    <3> QED BY <2>1, <2>2, <3>1, <3>2, BitsAssumption DEF MaxSequence
  <2> QED BY <1>3, <2>1, <2>2, <2>3, <2>4 DEF RolledBack, Unset
<1> QED BY <1>2, <1>3

\* What next_id stores is within the bits of the state.
LEMMA NextInRange ==
  ASSUME NEW now \in 0..MaxTimestamp, NEW seen \in States,
         ~RolledBack(now, seen), ~Exhausted(now, seen)
  PROVE  NextState(now, seen) \in States
<1>1. seen \in Nat \cup {Unset} BY DEF States
<1>2. NextState(now, seen) \in Nat BY <1>1, NextLarger
<1>3. \E q \in 0..MaxSequence : NextState(now, seen) = now * PerMs + q
  <2>1. CASE seen # Unset /\ now = Ms(seen)
    <3>1. Sequence(seen) \in 0..MaxSequence BY <1>1, <2>1, Split
    <3>2. Sequence(seen) + 1 \in 0..MaxSequence
      BY <2>1, <3>1, BitsAssumption DEF Exhausted, MaxSequence
    <3> QED BY <2>1, <3>2 DEF NextState, Pack
  <2>2. CASE ~(seen # Unset /\ now = Ms(seen))
    BY <2>2, BitsAssumption DEF NextState, Pack, MaxSequence
  <2> QED BY <2>1, <2>2
<1>4. now * PerMs <= MaxTimestamp * PerMs
  <2>1. CASE now = MaxTimestamp BY <2>1, BitsAssumption, MulNat
  <2>2. CASE now < MaxTimestamp
    <3>1. now * PerMs + PerMs <= MaxTimestamp * PerMs BY <2>2, MulOrder, BitsAssumption
    <3> QED BY <3>1, MulNat, BitsAssumption
  <2> QED BY <2>1, <2>2, BitsAssumption
<1>5. now * PerMs \in Nat /\ MaxTimestamp * PerMs \in Nat BY MulNat, BitsAssumption
<1> QED BY <1>2, <1>3, <1>4, <1>5, BitsAssumption DEF States, MaxSequence

-----------------------------------------------------------------------------
(* The inductive invariant.                                                *)

\* A thread about to swap has computed a larger state than it loaded.
SwapRaises ==
  \A p \in Workers \X Threads :
    thread[p].pc = "cas" => thread[p].next \in Nat /\ thread[p].next > thread[p].seen

\* Every id returned belongs to a state its worker has reached.
Covered ==
  \A id \in issued : \E w \in Workers, s \in Nat :
    s <= state[w] /\ id = IdOf(w, s)

IInv ==
  /\ TypeOK
  /\ SwapRaises
  /\ Covered
  /\ IsFiniteSet(issued) /\ Cardinality(issued) = count

LEMMA InitIInv == Init => IInv
<1> SUFFICES ASSUME Init PROVE IInv OBVIOUS
<1> USE BitsAssumption DEF Init
<1>1. TypeOK
  <2>1. Idle \in Calls BY DEF Idle, Calls, States
  <2>2. thread \in [Workers \X Threads -> Calls] BY <2>1
  <2>3. state \in [Workers -> States] BY DEF States
  <2>4. clock \in [Workers -> -1..MaxClock] OBVIOUS
  <2>5. rejected \in BOOLEAN OBVIOUS
  <2>6. issued \subseteq Nat /\ count \in Nat OBVIOUS
  <2>7. rollbacks \in 0..MaxRollbacks OBVIOUS
  <2> QED BY <2>2, <2>3, <2>4, <2>5, <2>6, <2>7, Zenon DEF TypeOK
<1>2. SwapRaises BY DEF SwapRaises, Idle
<1>3. Covered BY DEF Covered
<1>4. IsFiniteSet(issued) /\ Cardinality(issued) = count BY FS_EmptySet
<1> QED BY <1>1, <1>2, <1>3, <1>4 DEF IInv

\* A successful swap returns an id that is larger than all the ids of its
\* worker and different from those of the other workers.
LEMMA SwapIsFresh ==
  ASSUME IInv, NEW w \in Workers, NEW t \in Threads,
         thread[<<w, t>>].pc = "cas", Swaps(w, thread[<<w, t>>].seen)
  PROVE  LET next == thread[<<w, t>>].next IN
         /\ next \in Nat /\ next > state[w]
         /\ WorkerOf(IdOf(w, next)) = w
         /\ \A old \in issued :
              /\ old # IdOf(w, next)
              /\ WorkerOf(old) = w => IdOf(w, next) > old
<1> DEFINE p == <<w, t>>
<1> DEFINE next == thread[p].next
<1>1. p \in Workers \X Threads OBVIOUS
<1>2. next \in Nat /\ next > thread[p].seen
  BY <1>1 DEF IInv, SwapRaises
<1>3. next > state[w] BY <1>2 DEF Swaps
<1>4. w \in 0..(WorkerIds - 1) BY BitsAssumption
<1>5. state[w] \in States BY DEF IInv, TypeOK
<1>6. IdOf(w, next) \in Nat /\ WorkerOf(IdOf(w, next)) = w BY <1>2, <1>4, IdWorker
<1>7. ASSUME NEW old \in issued
      PROVE  old # IdOf(w, next) /\ (WorkerOf(old) = w => IdOf(w, next) > old)
  <2>1. PICK v \in Workers, s \in Nat : s <= state[v] /\ old = IdOf(v, s)
    BY DEF IInv, Covered
  <2>2. v \in 0..(WorkerIds - 1) BY BitsAssumption
  <2>3. old \in Nat /\ WorkerOf(old) = v BY <2>1, <2>2, IdWorker
  <2>4. CASE v = w
    <3>1. s < next BY <1>2, <1>3, <1>5, <2>1, <2>4, BitsAssumption DEF States, Unset
    <3>2. IdOf(w, s) < IdOf(w, next) BY <1>2, <1>4, <2>1, <3>1, IdOrder
    <3> QED BY <1>6, <2>1, <2>3, <2>4, <3>2
  <2>5. CASE v # w BY <1>6, <2>3, <2>5
  <2> QED BY <2>4, <2>5
<1> QED BY <1>2, <1>3, <1>6, <1>7

LEMMA NextIInv == IInv /\ [Next]_vars => IInv'
<1> SUFFICES ASSUME IInv, [Next]_vars PROVE IInv' OBVIOUS
<1> USE DEF IInv
<1>1. ASSUME NEW w \in Workers, NEW t \in Threads, Load(w, t) PROVE IInv'
  <2> DEFINE p == <<w, t>>
  <2>1. p \in Workers \X Threads OBVIOUS
  <2>2. thread' = [thread EXCEPT ![p] = [pc |-> "clock", seen |-> state[w], next |-> Unset]]
    BY <1>1 DEF Load
  <2>3. UNCHANGED <<state, clock, issued, count, rejected, rollbacks>>
    BY <1>1 DEF Load
  <2>4. TypeOK' BY <2>1, <2>2, <2>3 DEF TypeOK, Calls, States
  <2>5. SwapRaises' BY <2>1, <2>2 DEF SwapRaises, TypeOK, Calls
  <2>6. Covered' BY <2>3 DEF Covered
  <2> QED BY <2>3, <2>4, <2>5, <2>6
<1>2. ASSUME NEW w \in Workers, NEW t \in Threads, ReadClock(w, t) PROVE IInv'
  <2> DEFINE p == <<w, t>>
             now == clock[w]
             seen == thread[p].seen
  <2>1. p \in Workers \X Threads OBVIOUS
  <2>2. UNCHANGED <<state, clock, issued, count, rollbacks>>
    BY <1>2 DEF ReadClock
  <2>3. rejected' \in BOOLEAN BY <1>2 DEF ReadClock
  <2>4. seen \in States BY <2>1 DEF TypeOK, Calls
  <2>5. PICK x : /\ thread' = [thread EXCEPT ![p] = x]
                 /\ x \in Calls
                 /\ x.pc = "cas" => x.next \in Nat /\ x.next > x.seen
    <3>1. CASE RolledBack(now, seen) \/ ~InRange(now)
      <4>1. thread' = [thread EXCEPT ![p] = Idle] BY <1>2, <3>1 DEF ReadClock
      <4>2. Idle \in Calls /\ Idle.pc # "cas" BY DEF Idle, Calls, States
      <4> QED BY <4>1, <4>2
    <3>2. CASE ~(RolledBack(now, seen) \/ ~InRange(now)) /\ Exhausted(now, seen)
      <4>1. thread' = [thread EXCEPT ![p] = [pc |-> "again", seen |-> Unset, next |-> Unset]]
        BY <1>2, <3>2 DEF ReadClock
      <4>2. [pc |-> "again", seen |-> Unset, next |-> Unset] \in Calls
        BY DEF Calls, States
      <4>3. \A x : x = [pc |-> "again", seen |-> Unset, next |-> Unset] => x.pc # "cas"
        OBVIOUS
      <4> QED BY <4>1, <4>2, <4>3
    <3>3. CASE ~(RolledBack(now, seen) \/ ~InRange(now)) /\ ~Exhausted(now, seen)
      <4>1. thread' = [thread EXCEPT ![p] =
                         [pc |-> "cas", seen |-> seen, next |-> NextState(now, seen)]]
        BY <1>2, <3>3 DEF ReadClock
      <4>2. now \in 0..MaxTimestamp BY <3>3 DEF InRange
      <4>3. NextState(now, seen) \in States BY <2>4, <3>3, <4>2, NextInRange
      <4>4. NextState(now, seen) \in Nat /\ NextState(now, seen) > seen
        <5>1. seen \in Nat \cup {Unset} BY <2>4 DEF States
        <5> QED BY <3>3, <4>2, <5>1, NextLarger
      <4>5. [pc |-> "cas", seen |-> seen, next |-> NextState(now, seen)] \in Calls
        BY <2>4, <4>3 DEF Calls
      <4>6. \A x : x = [pc |-> "cas", seen |-> seen, next |-> NextState(now, seen)]
                     => x.next \in Nat /\ x.next > x.seen
        BY <4>4
      <4> HIDE DEF seen, now
      <4> QED BY <4>1, <4>5, <4>6
    <3> QED BY <3>1, <3>2, <3>3
  <2>6. TypeOK' BY <2>1, <2>2, <2>3, <2>5 DEF TypeOK
  <2>7. SwapRaises' BY <2>1, <2>5 DEF SwapRaises, TypeOK, Calls
  <2>8. Covered' BY <2>2 DEF Covered
  <2> QED BY <2>2, <2>6, <2>7, <2>8
<1>3. ASSUME NEW w \in Workers, NEW t \in Threads, CompareExchange(w, t) PROVE IInv'
  <2> DEFINE p == <<w, t>>
             next == thread[p].next
  <2>1. p \in Workers \X Threads OBVIOUS
  <2>2. UNCHANGED <<clock, rejected, rollbacks>> BY <1>3 DEF CompareExchange
  <2>3. PICK x : /\ thread' = [thread EXCEPT ![p] = x]
                 /\ x \in Calls
                 /\ x.pc # "cas"
    <3>1. thread' = [thread EXCEPT ![p] = Idle]
          \/ thread' = [thread EXCEPT ![p] = [pc |-> "again", seen |-> Unset, next |-> Unset]]
      BY <1>3 DEF CompareExchange
    <3> QED BY <3>1 DEF Idle, Calls, States
  <2>4. thread' \in [Workers \X Threads -> Calls]
    BY <2>1, <2>3 DEF TypeOK
  <2>5. SwapRaises' BY <2>1, <2>3 DEF SwapRaises, TypeOK, Calls
  <2>6. CASE Swaps(w, thread[p].seen)
    <3>1. /\ state' = [state EXCEPT ![w] = next]
          /\ issued' = issued \cup {IdOf(w, next)}
          /\ count' = count + 1
      BY <1>3, <2>6 DEF CompareExchange, IdOf
    <3>2. thread[p].pc = "cas" BY <1>3 DEF CompareExchange
    <3>3. next \in Nat /\ next > state[w] /\ IdOf(w, next) \notin issued
      BY <2>6, <3>2, SwapIsFresh
    <3>4. next \in States BY <2>1 DEF TypeOK, Calls
    <3>5. IdOf(w, next) \in Nat BY <3>3, BitsAssumption, IdWorker
    <3>6. TypeOK'
      <4>1. state' \in [Workers -> States] BY <3>1, <3>4 DEF TypeOK
      <4>2. issued' \subseteq Nat BY <3>1, <3>5, Zenon DEF TypeOK
      <4>3. count' \in Nat BY <3>1 DEF TypeOK
      <4> QED BY <2>2, <2>4, <4>1, <4>2, <4>3 DEF TypeOK
    <3>7. \A v \in Workers : state[v] <= state'[v]
      BY <3>1, <3>3, BitsAssumption DEF TypeOK, States, Unset
    <3>8. Covered'
      <4>1. ASSUME NEW id \in issued'
            PROVE  \E v \in Workers, s \in Nat : s <= state'[v] /\ id = IdOf(v, s)
        <5>1. CASE id = IdOf(w, next)
          <6>1. state'[w] = next BY <3>1 DEF TypeOK
          <6> QED BY <3>3, <5>1, <6>1
        <5>2. CASE id \in issued
          <6>1. PICK v \in Workers, s \in Nat : s <= state[v] /\ id = IdOf(v, s)
            BY <5>2 DEF Covered
          <6>2. state[v] \in Int /\ state'[v] \in Int
            BY <3>6, BitsAssumption DEF TypeOK, States, Unset
          <6>3. s <= state'[v] BY <3>7, <6>1, <6>2
          <6> QED BY <6>1, <6>3
        <5> QED BY <3>1, <5>1, <5>2
      <4> QED BY <4>1 DEF Covered
    <3>9. IsFiniteSet(issued') /\ Cardinality(issued') = count'
      BY <3>1, <3>3, FS_AddElement
    <3> QED BY <2>5, <3>6, <3>8, <3>9
  <2>7. CASE ~Swaps(w, thread[p].seen)
    <3>1. UNCHANGED <<state, issued, count>> BY <1>3, <2>7 DEF CompareExchange
    <3>2. TypeOK' BY <2>2, <2>4, <3>1 DEF TypeOK
    <3>3. Covered' BY <3>1 DEF Covered
    <3> QED BY <2>5, <3>1, <3>2, <3>3
  <2> QED BY <2>6, <2>7
<1>4. ASSUME NEW w \in Workers, Tick(w) \/ Rollback(w) PROVE IInv'
  <2>1. UNCHANGED <<state, thread, issued, count, rejected>>
    BY <1>4 DEF Tick, Rollback
  <2>2. clock' \in [Workers -> -1..MaxClock] /\ rollbacks' \in 0..MaxRollbacks
    BY <1>4, BitsAssumption DEF Tick, Rollback, TypeOK
  <2>3. TypeOK' BY <2>1, <2>2 DEF TypeOK
  <2>4. SwapRaises' BY <2>1 DEF SwapRaises
  <2>5. Covered' BY <2>1 DEF Covered
  <2> QED BY <2>1, <2>3, <2>4, <2>5
<1>5. ASSUME UNCHANGED vars PROVE IInv'
  BY <1>5 DEF vars, TypeOK, SwapRaises, Covered
<1> QED BY <1>1, <1>2, <1>3, <1>4, <1>5 DEF Next

-----------------------------------------------------------------------------
(* The theorems.                                                           *)

\* The invariant holds in every reachable state.
THEOREM Invariance == Spec => []IInv
BY InitIInv, NextIInv, PTL DEF Spec

\* Type correctness of next_id: the packed state never leaves its bits.
THEOREM TypeCorrect == Spec => []TypeOK
<1>1. IInv => TypeOK BY DEF IInv
<1> QED BY Invariance, <1>1, PTL

\* No id is returned twice, however threads race and clocks go back, as long
\* as no generator is restarted.
THEOREM UniqueHolds == Spec => []Unique
<1>1. IInv => Unique BY DEF IInv, Unique
<1> QED BY Invariance, <1>1, PTL

\* The ids of a worker increase in the order in which they are published.
THEOREM IncreasingHolds == Spec => Increasing
<1>1. ASSUME IInv, [Next]_vars
      PROVE  [\A id \in issued' \ issued, old \in issued :
                WorkerOf(id) = WorkerOf(old) => id > old]_vars
  <2> SUFFICES ASSUME NEW id \in issued' \ issued, NEW old \in issued,
                      WorkerOf(id) = WorkerOf(old)
               PROVE  id > old
    OBVIOUS
  <2>1. PICK w \in Workers, t \in Threads : CompareExchange(w, t)
    BY <1>1 DEF Next, vars, Load, ReadClock, Tick, Rollback
  <2>2. thread[<<w, t>>].pc = "cas" BY <2>1 DEF CompareExchange
  <2>3. Swaps(w, thread[<<w, t>>].seen) BY <2>1 DEF CompareExchange
  <2>4. id = IdOf(w, thread[<<w, t>>].next) BY <2>1, <2>3 DEF CompareExchange, IdOf
  <2> QED BY <1>1, <2>2, <2>3, <2>4, SwapIsFresh
<1> QED BY Invariance, <1>1, PTL DEF Spec, Increasing

-----------------------------------------------------------------------------
(* A call never takes another thread's progress for a rollback.            *)

\* The millisecond of what next_id stores is the time it has read.
LEMMA NextMs ==
  ASSUME NEW now \in 0..MaxTimestamp, NEW seen \in States, ~Exhausted(now, seen)
  PROVE  Ms(NextState(now, seen)) = now
<1>1. now \in Nat BY BitsAssumption
<1>2. CASE seen # Unset /\ now = Ms(seen)
  <2>1. seen \in Nat BY <1>2, BitsAssumption DEF States
  <2>2. Sequence(seen) \in 0..MaxSequence BY <2>1, Split
  <2>3. Sequence(seen) + 1 \in 0..MaxSequence
    BY <1>2, <2>2, BitsAssumption DEF Exhausted, MaxSequence
  <2> QED BY <1>1, <1>2, <2>3, PackParts DEF NextState
<1>3. CASE ~(seen # Unset /\ now = Ms(seen))
  <2>1. 0 \in 0..MaxSequence BY BitsAssumption DEF MaxSequence
  <2> QED BY <1>1, <1>3, <2>1, PackParts DEF NextState
<1> QED BY <1>2, <1>3

\* A state that is not from the future of clock c.
Past(s, c) == s # Unset => Ms(s) <= c

\* As long as no clock has gone back, neither the state of a worker nor what
\* its threads have loaded or will store is ahead of its clock.
NotAhead ==
  rollbacks = 0 =>
    /\ ~rejected
    /\ \A w \in Workers : Past(state[w], clock[w])
    /\ \A w \in Workers, t \in Threads :
         /\ thread[<<w, t>>].pc \in {"clock", "cas"} => Past(thread[<<w, t>>].seen, clock[w])
         /\ thread[<<w, t>>].pc = "cas" => Past(thread[<<w, t>>].next, clock[w])

\* Milliseconds of states are integers.
LEMMA MsInt == ASSUME NEW s \in States PROVE s # Unset => Ms(s) \in Int
<1>1. s # Unset => s \in Nat BY BitsAssumption DEF States
<1> QED BY <1>1, Split

LEMMA InitNotAhead == Init => NotAhead
BY DEF Init, NotAhead, Past, Idle

LEMMA NextNotAhead == IInv /\ NotAhead /\ [Next]_vars => NotAhead'
<1> SUFFICES ASSUME IInv, NotAhead, [Next]_vars, rollbacks' = 0 PROVE NotAhead' BY DEF NotAhead
<1>0. TypeOK BY DEF IInv
<1>1. ASSUME NEW w \in Workers, NEW t \in Threads, Load(w, t) PROVE NotAhead'
  <2>1. UNCHANGED <<state, clock, rejected, rollbacks>> BY <1>1 DEF Load
  <2>2. thread' = [thread EXCEPT ![<<w, t>>] =
                     [pc |-> "clock", seen |-> state[w], next |-> Unset]]
    BY <1>1 DEF Load
  <2>3. thread \in [Workers \X Threads -> Calls] BY <1>0 DEF TypeOK
  <2> QED BY <2>1, <2>2, <2>3 DEF NotAhead, Past
<1>2. ASSUME NEW w \in Workers, NEW t \in Threads, ReadClock(w, t) PROVE NotAhead'
  <2> DEFINE now == clock[w]
             seen == thread[<<w, t>>].seen
  <2>1. UNCHANGED <<state, clock, rollbacks>> BY <1>2 DEF ReadClock
  <2>2. thread \in [Workers \X Threads -> Calls] BY <1>0 DEF TypeOK
  <2>3. seen \in States /\ now \in Int BY <1>0, <2>2 DEF TypeOK, Calls
  <2>4. Past(seen, now) BY <1>2, <2>1 DEF NotAhead, ReadClock
  <2>5. ~RolledBack(now, seen)
    BY <2>3, <2>4, MsInt DEF RolledBack, Past
  <2>6. ~rejected'
    BY <1>2, <2>1, <2>5, Zenon DEF ReadClock, NotAhead
  <2>7. PICK x : /\ thread' = [thread EXCEPT ![<<w, t>>] = x]
                 /\ x.pc = "cas" => Past(x.seen, now) /\ Past(x.next, now)
                 /\ x.pc # "clock"
    <3>1. CASE ~InRange(now)
      <4>1. thread' = [thread EXCEPT ![<<w, t>>] = Idle] BY <1>2, <2>5, <3>1 DEF ReadClock
      <4>2. Idle.pc # "cas" /\ Idle.pc # "clock" BY DEF Idle
      <4> HIDE DEF seen, now
      <4> QED BY <4>1, <4>2
    <3>2. CASE InRange(now) /\ Exhausted(now, seen)
      <4>1. thread' = [thread EXCEPT ![<<w, t>>] =
                         [pc |-> "again", seen |-> Unset, next |-> Unset]]
        BY <1>2, <2>5, <3>2 DEF ReadClock
      <4>2. \A x : x = [pc |-> "again", seen |-> Unset, next |-> Unset]
                     => x.pc # "cas" /\ x.pc # "clock"
        OBVIOUS
      <4> HIDE DEF seen, now
      <4> QED BY <4>1, <4>2
    <3>3. CASE InRange(now) /\ ~Exhausted(now, seen)
      <4>1. Ms(NextState(now, seen)) = now BY <2>3, <3>3, NextMs DEF InRange
      <4>2. Past(NextState(now, seen), now) BY <2>3, <4>1 DEF Past
      <4>3. thread' = [thread EXCEPT ![<<w, t>>] =
                         [pc |-> "cas", seen |-> seen, next |-> NextState(now, seen)]]
        BY <1>2, <2>5, <3>3 DEF ReadClock
      <4>4. \A x : x = [pc |-> "cas", seen |-> seen, next |-> NextState(now, seen)]
                     => Past(x.seen, now) /\ Past(x.next, now) /\ x.pc # "clock"
        BY <2>4, <4>2
      <4> HIDE DEF seen, now
      <4> QED BY <4>3, <4>4
    <3> QED BY <3>1, <3>2, <3>3
  <2> HIDE DEF seen
  <2> QED BY <2>1, <2>2, <2>6, <2>7 DEF NotAhead
<1>3. ASSUME NEW w \in Workers, NEW t \in Threads, CompareExchange(w, t) PROVE NotAhead'
  <2>1. UNCHANGED <<clock, rejected, rollbacks>> BY <1>3 DEF CompareExchange
  <2>2. thread \in [Workers \X Threads -> Calls] /\ state \in [Workers -> States]
    BY <1>0 DEF TypeOK
  <2>3. PICK x : thread' = [thread EXCEPT ![<<w, t>>] = x] /\ x.pc \notin {"clock", "cas"}
    BY <1>3 DEF CompareExchange, Idle
  <2>4. state' = state \/ state' = [state EXCEPT ![w] = thread[<<w, t>>].next]
    BY <1>3 DEF CompareExchange
  <2>5. Past(thread[<<w, t>>].next, clock[w]) BY <1>3, <2>1 DEF CompareExchange, NotAhead
  <2> QED BY <2>1, <2>2, <2>3, <2>4, <2>5 DEF NotAhead
<1>4. ASSUME NEW w \in Workers, Tick(w) PROVE NotAhead'
  <2>1. UNCHANGED <<state, thread, rejected, rollbacks>> BY <1>4 DEF Tick
  <2>2. clock \in [Workers -> -1..MaxClock] /\ clock' = [clock EXCEPT ![w] = @ + 1]
    BY <1>0, <1>4 DEF TypeOK, Tick
  <2>3. \A v \in Workers : clock[v] \in Int /\ clock'[v] \in Int /\ clock[v] <= clock'[v]
    BY <2>2, BitsAssumption
  <2>4. ASSUME NEW s \in States, NEW v \in Workers, Past(s, clock[v]) PROVE Past(s, clock'[v])
    BY <2>3, <2>4, MsInt DEF Past
  <2>5. \A v \in Workers : state[v] \in States BY <1>0 DEF TypeOK
  <2>6. \A v \in Workers, u \in Threads :
          thread[<<v, u>>].seen \in States /\ thread[<<v, u>>].next \in States
    BY <1>0 DEF TypeOK, Calls
  <2> QED BY <2>1, <2>4, <2>5, <2>6 DEF NotAhead
<1>5. ASSUME NEW w \in Workers, Rollback(w) PROVE NotAhead'
  BY <1>0, <1>5 DEF Rollback, TypeOK
<1>6. CASE UNCHANGED vars BY <1>6 DEF vars, NotAhead
<1> QED BY <1>1, <1>2, <1>3, <1>4, <1>5, <1>6 DEF Next

\* next_id reports a rollback only after a clock has gone back: what other
\* threads stored while a call was under way is never ahead of the clock it
\* reads after the state (id.rs:61-70).
THEOREM NoFalseRollbackHolds == Spec => []NoFalseRollback
<1>1. Spec => []NotAhead BY InitNotAhead, NextNotAhead, Invariance, PTL DEF Spec
<1>2. NotAhead => NoFalseRollback BY DEF NotAhead, NoFalseRollback
<1> QED BY <1>1, <1>2, PTL
=============================================================================
