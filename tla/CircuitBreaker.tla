--------------------------- MODULE CircuitBreaker ---------------------------
(***************************************************************************)
(* Breaker::call of ecat-circuit-breaker (breaker.rs, window.rs), shared   *)
(* by concurrent callers.                                                  *)
(*                                                                         *)
(* A call locks the breaker to be admitted, runs the protected future      *)
(* unlocked, and locks again to record the result, which acts on whatever  *)
(* state the breaker is in by then.  A call may be cancelled while its     *)
(* future runs: an armed ProbePermit then gives its place back.            *)
(*                                                                         *)
(* Elapsed times are ages that stop growing at the duration they are       *)
(* compared with, and the time one lock is held is no time: record and     *)
(* total see the same window.  Rejected calls, state() and the metric      *)
(* opened_total change nothing that decides a later call and are left out. *)
(***************************************************************************)
EXTENDS Integers, FiniteSets

CONSTANTS Callers,
          Probes,        \* half_open_probes
          OpenDuration,  \* open_duration, in ticks
          Window,        \* window, in ticks
          Num, Den,      \* failure_ratio = Num / Den
          MaxPerWindow,  \* bound: results recorded in one window
          MaxCancels     \* bound: cancelled calls

ASSUME CallersAssumption == IsFiniteSet(Callers)
ASSUME ConfigAssumption ==
  /\ Probes \in Nat \ {0}
  /\ OpenDuration \in Nat
  /\ Window \in Nat
  /\ Num \in Nat /\ Den \in Nat \ {0}
  /\ MaxPerWindow \in Nat /\ MaxCancels \in Nat

VARIABLES
  state,            \* Closed, Open, HalfOpen
  half_open_count,
  openAge,          \* time since opened_at, while Open
  successes, failures, winAge,  \* the SlidingWindow
  call,             \* what each caller has in flight
  current,          \* the calls admitted in the present half-open period
  since,            \* results recorded since the breaker last closed (up to 5)
  healthy,          \* whether the next answer of the backend is a good one
  cancels

window == <<successes, failures, winAge>>
vars == <<state, half_open_count, openAge, window, call, current, since,
          healthy, cancels>>

MinCalls == 5

\* A call in flight without a permit, or with one.
Calls == {"idle", "plain", "probe"}
\* Ok, Ok that classify takes for a failure, Err.
Results == {"ok", "classified", "err"}

Init ==
  /\ state = "Closed" /\ half_open_count = 0 /\ openAge = 0
  /\ successes = 0 /\ failures = 0 /\ winAge = 0
  /\ call = [c \in Callers |-> "idle"]
  /\ current = {} /\ since = 0
  /\ healthy = TRUE /\ cancels = 0

-----------------------------------------------------------------------------
(* Admission.                                                              *)

AdmitClosed(c) ==
  /\ call[c] = "idle" /\ state = "Closed"
  /\ call' = [call EXCEPT ![c] = "plain"]
  /\ UNCHANGED <<state, half_open_count, openAge, window, current, since,
                 healthy, cancels>>

\* After the cooling-off period the first caller moves the breaker to
\* HalfOpen, without taking a permit.
AdmitAfterCooling(c) ==
  /\ call[c] = "idle" /\ state = "Open" /\ openAge >= OpenDuration
  /\ state' = "HalfOpen" /\ half_open_count' = 0
  /\ call' = [call EXCEPT ![c] = "plain"]
  /\ current' = {c}
  /\ UNCHANGED <<openAge, window, since, healthy, cancels>>

AdmitProbe(c) ==
  /\ call[c] = "idle" /\ state = "HalfOpen" /\ half_open_count < Probes
  /\ half_open_count' = half_open_count + 1
  /\ call' = [call EXCEPT ![c] = "probe"]
  /\ current' = current \cup {c}
  /\ UNCHANGED <<state, openAge, window, since, healthy, cancels>>

-----------------------------------------------------------------------------
(* Completion.                                                             *)

\* SlidingWindow::record: rotate, then count.
Rotated(n) == IF winAge >= Window THEN 0 ELSE n
Failed(res) == res # "ok"
RecordedSuccesses(res) == Rotated(successes) + IF Failed(res) THEN 0 ELSE 1
RecordedFailures(res)  == Rotated(failures)  + IF Failed(res) THEN 1 ELSE 0

Record(res) ==
  /\ successes' = RecordedSuccesses(res)
  /\ failures'  = RecordedFailures(res)
  /\ winAge' = IF winAge >= Window THEN 0 ELSE winAge

\* total() >= 5 and failure_ratio() at the threshold.
Trips(s, f) == s + f >= MinCalls /\ f * Den >= Num * (s + f)

Evidence == IF since < MinCalls THEN since + 1 ELSE since

Over(c) == call' = [call EXCEPT ![c] = "idle"]

CompleteClosed(c, res) ==
  /\ state = "Closed"
  /\ Record(res)
  /\ since' = Evidence
  /\ IF Trips(RecordedSuccesses(res), RecordedFailures(res))
     THEN state' = "Open" /\ openAge' = 0
     ELSE UNCHANGED <<state, openAge>>
  /\ UNCHANGED <<half_open_count, current>>

\* Mutant: the old failures stay in the window.
ClearNot == UNCHANGED window
Clear == successes' = 0 /\ failures' = 0 /\ winAge' = 0

\* Half-open: Ok, classified as a failure or not, closes the breaker.
CompleteHalfOpenOk(c, res) ==
  /\ state = "HalfOpen" /\ res # "err"
  /\ state' = "Closed" /\ openAge' = 0
  /\ Clear
  /\ since' = 0
  /\ current' = {}
  /\ UNCHANGED half_open_count

CompleteHalfOpenErr(c, res) ==
  /\ state = "HalfOpen" /\ res = "err"
  /\ state' = "Open" /\ openAge' = 0
  /\ Record(res)
  /\ current' = {}
  /\ UNCHANGED <<half_open_count, since>>

CompleteOpen(c, res) ==
  /\ state = "Open"
  /\ Record(res)
  /\ UNCHANGED <<state, openAge, half_open_count, current, since>>

Complete(c) ==
  /\ call[c] # "idle"
  /\ Rotated(successes) + Rotated(failures) < MaxPerWindow
  /\ \E res \in Results :
       /\ healthy <=> ~Failed(res)
       /\ \/ CompleteClosed(c, res) \/ CompleteOpen(c, res)
          \/ CompleteHalfOpenOk(c, res) \/ CompleteHalfOpenErr(c, res)
  /\ Over(c)
  /\ UNCHANGED <<healthy, cancels>>

-----------------------------------------------------------------------------

\* Drop of an armed permit; the count may be zero already, when the permit
\* is of an earlier half-open period.
\* Mutants: nothing is given back; the count wraps below zero.
GiveBackNot(n)   == n
GiveBackWraps(n) == n - 1
GiveBack(n)      == IF n > 0 THEN n - 1 ELSE 0

Cancel(c) ==
  /\ call[c] # "idle" /\ cancels < MaxCancels
  /\ cancels' = cancels + 1
  /\ half_open_count' =
       IF call[c] = "probe" THEN GiveBack(half_open_count) ELSE half_open_count
  /\ Over(c)
  /\ current' = current \ {c}
  /\ UNCHANGED <<state, openAge, window, since, healthy>>

Older(age, limit) == IF age < limit THEN age + 1 ELSE age

Tick ==
  /\ openAge' = IF state = "Open" THEN Older(openAge, OpenDuration) ELSE openAge
  /\ winAge' = Older(winAge, Window)
  /\ UNCHANGED <<state, half_open_count, successes, failures, call, current,
                 since, healthy, cancels>>

\* The backend breaks or recovers.
Flip ==
  /\ healthy' = ~healthy
  /\ UNCHANGED <<state, half_open_count, openAge, window, call, current, since,
                 cancels>>

Admit(c) == AdmitClosed(c) \/ AdmitAfterCooling(c) \/ AdmitProbe(c)

Next ==
  \/ \E c \in Callers : Admit(c) \/ Complete(c) \/ Cancel(c)
  \/ Tick \/ Flip

Spec == Init /\ [][Next]_vars

\* Time passes; callers keep calling, and a call that is not cancelled ends
\* (its backend answers or its own timeout does).
FairSpec ==
  /\ Spec
  /\ WF_vars(Tick)
  /\ \A c \in Callers : WF_vars(Admit(c)) /\ WF_vars(Complete(c))

-----------------------------------------------------------------------------
(* Properties.                                                             *)

TypeOK ==
  /\ state \in {"Closed", "Open", "HalfOpen"}
  /\ half_open_count \in 0..Probes
  /\ openAge \in 0..OpenDuration
  /\ successes \in Nat /\ failures \in Nat /\ winAge \in 0..Window
  /\ call \in [Callers -> Calls]
  /\ current \in SUBSET Callers
  /\ since \in 0..MinCalls
  /\ healthy \in BOOLEAN
  /\ cancels \in 0..MaxCancels

\* Permits do not leak: in HalfOpen every counted place is held by a probe
\* of this half-open period that is still in flight, so that ProbesExhausted
\* never outlives the probes that caused it ("名额归还", breaker.rs:269).
Holders == {c \in current : call[c] = "probe"}
NoPermitLeak == state = "HalfOpen" => half_open_count <= Cardinality(Holders)

\* A closed breaker opens on fresh evidence only: at least five results
\* recorded since it last closed, stale failures of the period before being
\* cleared ("清空窗口，否则旧的高失败率会立即再次触发 open", breaker.rs:213).
OpensOnFreshEvidence ==
  [][state = "Closed" /\ state' = "Open" => since' >= MinCalls]_vars

\* Once the backend stays healthy the breaker closes and stays closed,
\* whatever was in flight or cancelled before ("恢复后重新放行").
Recovers == <>[]healthy => <>[](state = "Closed")
=============================================================================
