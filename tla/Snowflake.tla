----------------------------- MODULE Snowflake -----------------------------
(***************************************************************************)
(* The id generator of ecat-data-sharding (id.rs): next_id called by       *)
(* several threads on one Snowflake per worker, lock-free: load the state, *)
(* read the clock, compare-and-swap, or start over.  The three are         *)
(* separate steps of a thread; the clock of a worker may go back.          *)
(*                                                                         *)
(* PerMs and WorkerIds stand for 2^SEQUENCE_BITS and 2^WORKER_BITS.        *)
(***************************************************************************)
EXTENDS Integers, FiniteSets

CONSTANTS Workers,       \* worker ids with a generator
          WorkerIds,     \* number of worker ids, 2^WORKER_BITS
          Threads,       \* threads of each worker
          PerMs,         \* ids in a millisecond, 2^SEQUENCE_BITS
          MaxTimestamp,  \* MAX_TIMESTAMP
          MaxClock,      \* bound: the clock, in milliseconds from the epoch
          MaxRollbacks   \* bound: times a clock goes back

ASSUME BitsAssumption ==
  /\ WorkerIds \in Nat \ {0} /\ Workers \subseteq 0..(WorkerIds - 1)
  /\ PerMs \in Nat \ {0}
  /\ MaxTimestamp \in Nat /\ MaxClock \in Nat
  /\ MaxRollbacks \in Nat

VARIABLES
  state,      \* the atomic of each worker
  clock,      \* the clock of each worker, from the epoch
  thread,     \* each thread: position, the state it loaded, what it will store
  issued,     \* the ids returned so far
  count,      \* how many were returned
  rejected,   \* some call was answered with ClockRollback
  rollbacks   \* times a clock went back

vars == <<state, clock, thread, issued, count, rejected, rollbacks>>

Unset == -1
MaxSequence == PerMs - 1

\* (ms << SEQUENCE_BITS) | sequence, and its two halves.
Pack(ms, sequence) == ms * PerMs + sequence
Ms(s) == s \div PerMs
Sequence(s) == s % PerMs

compose_id(ms, w, sequence) ==
  (ms * WorkerIds + w) * PerMs + sequence

Idle == [pc |-> "idle", seen |-> Unset, next |-> Unset]

Init ==
  /\ state = [w \in Workers |-> Unset]
  /\ clock = [w \in Workers |-> -1]
  /\ thread = [p \in Workers \X Threads |-> Idle]
  /\ issued = {} /\ count = 0 /\ rejected = FALSE
  /\ rollbacks = 0

-----------------------------------------------------------------------------
(* next_id                                                                 *)

\* The state is loaded, when the call starts and when it starts over.
Load(w, t) ==
  /\ thread[<<w, t>>].pc \in {"idle", "again"}
  /\ thread' = [thread EXCEPT ![<<w, t>>] =
                  [pc |-> "clock", seen |-> state[w], next |-> Unset]]
  /\ UNCHANGED <<state, clock, issued, count, rejected, rollbacks>>

\* Mutants: the same millisecond counts as a rollback; nothing does.
RolledBackOrSame(now, seen) == seen # Unset /\ now <= Ms(seen)
RolledBackNever(now, seen) == FALSE
RolledBack(now, seen) == seen # Unset /\ now < Ms(seen)

InRange(now) == now \in 0..MaxTimestamp

\* Mutant: the sequence runs over into the next millisecond's bits.
ExhaustedNever(now, seen) == FALSE
Exhausted(now, seen) ==
  seen # Unset /\ now = Ms(seen) /\ Sequence(seen) = MaxSequence

NextState(now, seen) ==
  IF seen # Unset /\ now = Ms(seen)
  THEN Pack(now, Sequence(seen) + 1)
  ELSE Pack(now, 0)

\* The clock is read; the call fails, spins, or goes on to the swap.
ReadClock(w, t) ==
  LET now  == clock[w]
      seen == thread[<<w, t>>].seen IN
  /\ thread[<<w, t>>].pc = "clock"
  /\ rejected' = (rejected \/ RolledBack(now, seen))
  /\ thread' = [thread EXCEPT ![<<w, t>>] =
       IF RolledBack(now, seen) \/ ~InRange(now) THEN Idle
       ELSE IF Exhausted(now, seen)
            THEN [pc |-> "again", seen |-> Unset, next |-> Unset]
            ELSE [pc |-> "cas", seen |-> seen, next |-> NextState(now, seen)]]
  /\ UNCHANGED <<state, clock, issued, count, rollbacks>>

\* Mutant: store without comparing.
SwapsAlways(w, seen) == TRUE
Swaps(w, seen) == state[w] = seen

CompareExchange(w, t) ==
  LET seen == thread[<<w, t>>].seen
      next == thread[<<w, t>>].next IN
  /\ thread[<<w, t>>].pc = "cas"
  /\ IF Swaps(w, seen)
     THEN /\ state' = [state EXCEPT ![w] = next]
          /\ issued' = issued \cup {compose_id(Ms(next), w, Sequence(next))}
          /\ count' = count + 1
          /\ thread' = [thread EXCEPT ![<<w, t>>] = Idle]
     ELSE /\ thread' = [thread EXCEPT ![<<w, t>>] =
                          [pc |-> "again", seen |-> Unset, next |-> Unset]]
          /\ UNCHANGED <<state, issued, count>>
  /\ UNCHANGED <<clock, rejected, rollbacks>>

-----------------------------------------------------------------------------

Tick(w) ==
  /\ clock[w] < MaxClock
  /\ clock' = [clock EXCEPT ![w] = @ + 1]
  /\ UNCHANGED <<state, thread, issued, count, rejected, rollbacks>>

Rollback(w) ==
  /\ clock[w] > -1 /\ rollbacks < MaxRollbacks
  /\ rollbacks' = rollbacks + 1
  /\ clock' = [clock EXCEPT ![w] = @ - 1]
  /\ UNCHANGED <<state, thread, issued, count, rejected>>

Next == \E w \in Workers :
  \/ \E t \in Threads : Load(w, t) \/ ReadClock(w, t) \/ CompareExchange(w, t)
  \/ Tick(w) \/ Rollback(w)

Spec == Init /\ [][Next]_vars

-----------------------------------------------------------------------------
(* Properties.                                                             *)

States == {Unset} \cup 0..(MaxTimestamp * PerMs + MaxSequence)
Calls == [pc : {"idle", "clock", "cas", "again"}, seen : States, next : States]

TypeOK ==
  /\ state \in [Workers -> States]
  /\ clock \in [Workers -> -1..MaxClock]
  /\ thread \in [Workers \X Threads -> Calls]
  /\ issued \subseteq Nat /\ count \in Nat /\ rejected \in BOOLEAN
  /\ rollbacks \in 0..MaxRollbacks

\* No id is returned twice, by one worker's threads or by two workers, while
\* clocks go back and threads race for the state ("全局唯一 id", id.rs:57).
Unique == Cardinality(issued) = count

\* An id is larger than every id its worker has returned before, so that a
\* clock that goes back can never produce an earlier one.
WorkerOf(id) == (id \div PerMs) % WorkerIds
Increasing ==
  [][\A id \in issued' \ issued, old \in issued :
       WorkerOf(id) = WorkerOf(old) => id > old]_vars

\* Reading the state before the clock, a call never takes another thread's
\* progress for a rollback ("不会把并发推进误判成回拨", id.rs:61).
NoFalseRollback == rollbacks = 0 => ~rejected
=============================================================================
