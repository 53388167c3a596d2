------------------------ MODULE CircuitBreakerProofs ------------------------
(***************************************************************************)
(* Proofs about CircuitBreaker, for any number of callers, probes and      *)
(* cancellations and any configuration: permits do not leak (NoPermitLeak) *)
(* and a closed breaker opens on fresh evidence only                       *)
(* (OpensOnFreshEvidence).  The strengthening is Evident: while Closed,    *)
(* the window holds no result from before the breaker closed.              *)
(***************************************************************************)
EXTENDS CircuitBreaker, FiniteSetTheorems, TLAPS

\* The window of a closed breaker holds at most the results since it closed.
Evident ==
  state = "Closed" => since >= MinCalls \/ successes + failures <= since

IInv == TypeOK /\ NoPermitLeak /\ Evident

LEMMA HoldersFinite == ASSUME TypeOK
                       PROVE  IsFiniteSet(Holders) /\ Cardinality(Holders) \in Nat
<1>1. Holders \subseteq Callers BY DEF Holders, TypeOK
<1> QED BY <1>1, CallersAssumption, FS_Subset, FS_CardinalityType

LEMMA InitIInv == Init => IInv
<1> SUFFICES ASSUME Init PROVE IInv OBVIOUS
<1>1. TypeOK
  <2>1. healthy \in BOOLEAN BY DEF Init
  <2>2. call \in [Callers -> Calls] BY DEF Init, Calls
  <2> QED BY <2>1, <2>2, ConfigAssumption DEF Init, TypeOK, MinCalls
<1> QED BY <1>1 DEF Init, IInv, NoPermitLeak, Evident, MinCalls

-----------------------------------------------------------------------------
(* Admission and cancellation: the permits.                                *)

LEMMA AdmitProbeIInv ==
  ASSUME IInv, NEW c \in Callers, AdmitProbe(c) PROVE IInv'
<1> USE DEF IInv, AdmitProbe
<1>1. TypeOK' BY ConfigAssumption DEF TypeOK, Calls, window
<1>2. Holders' = Holders \cup {c} BY DEF Holders, TypeOK
<1>3. c \notin Holders BY DEF Holders
<1>4. Cardinality(Holders') = Cardinality(Holders) + 1
  BY <1>2, <1>3, HoldersFinite, FS_AddElement
<1>5. NoPermitLeak' BY <1>4, HoldersFinite DEF NoPermitLeak, TypeOK
<1>6. Evident' BY DEF Evident
<1> QED BY <1>1, <1>5, <1>6

LEMMA CancelIInv ==
  ASSUME IInv, NEW c \in Callers, Cancel(c) PROVE IInv'
<1> USE DEF IInv, Cancel, Over
<1>1. TypeOK'
  <2>1. half_open_count' \in 0..Probes BY ConfigAssumption DEF TypeOK, GiveBack
  <2>2. cancels' \in 0..MaxCancels BY ConfigAssumption DEF TypeOK
  <2>3. call' \in [Callers -> Calls] /\ current' \in SUBSET Callers BY DEF TypeOK, Calls
  <2> QED BY <2>1, <2>2, <2>3 DEF TypeOK, window
<1>2. Holders' = Holders \ {c} BY DEF Holders, TypeOK
<1>3. Cardinality(Holders') = IF c \in Holders THEN Cardinality(Holders) - 1
                                               ELSE Cardinality(Holders)
  BY <1>2, HoldersFinite, FS_RemoveElement
<1>4. NoPermitLeak'
  <2> SUFFICES ASSUME state = "HalfOpen"
               PROVE  half_open_count' <= Cardinality(Holders')
    BY DEF NoPermitLeak
  <2>1. half_open_count <= Cardinality(Holders) BY DEF NoPermitLeak
  <2>2. CASE c \in Holders
    <3>1. call[c] = "probe" BY <2>2 DEF Holders
    <3>2. Cardinality(Holders) # 0 BY <2>2, HoldersFinite, FS_EmptySet
    <3> QED BY <1>3, <2>1, <2>2, <3>1, <3>2, HoldersFinite DEF GiveBack, TypeOK
  <2>3. CASE c \notin Holders
    BY <1>3, <2>1, <2>3, HoldersFinite, ConfigAssumption DEF GiveBack, TypeOK
  <2> QED BY <2>2, <2>3
<1>5. Evident' BY DEF Evident, window
<1> QED BY <1>1, <1>4, <1>5

LEMMA AdmitOtherIInv ==
  ASSUME IInv, NEW c \in Callers, AdmitClosed(c) \/ AdmitAfterCooling(c) PROVE IInv'
<1> USE DEF IInv
<1>1. TypeOK' BY ConfigAssumption DEF TypeOK, Calls, AdmitClosed, AdmitAfterCooling, window
<1>2. NoPermitLeak'
  <2>1. CASE AdmitClosed(c) BY <2>1 DEF AdmitClosed, NoPermitLeak
  <2>2. CASE AdmitAfterCooling(c)
    <3>1. half_open_count' = 0 BY <2>2 DEF AdmitAfterCooling
    <3>2. Holders' \subseteq Callers BY <1>1 DEF Holders, TypeOK
    <3>3. Cardinality(Holders') \in Nat
      BY <3>2, CallersAssumption, FS_Subset, FS_CardinalityType
    <3> QED BY <3>1, <3>3 DEF NoPermitLeak
  <2> QED BY <2>1, <2>2
<1>3. Evident' BY DEF Evident, AdmitClosed, AdmitAfterCooling, window
<1> QED BY <1>1, <1>2, <1>3

-----------------------------------------------------------------------------
(* Completion: the window.                                                 *)

\* SlidingWindow::record adds one result to what rotation has left.
LEMMA RecordTyped ==
  ASSUME TypeOK, NEW res \in Results, Record(res)
  PROVE  /\ successes' \in Nat /\ failures' \in Nat /\ winAge' \in 0..Window
         /\ successes' + failures' <= successes + failures + 1
<1>1. winAge' \in 0..Window BY ConfigAssumption DEF TypeOK, Record
<1>2. /\ Rotated(successes) \in Nat /\ Rotated(successes) <= successes
      /\ Rotated(failures) \in Nat /\ Rotated(failures) <= failures
  BY DEF TypeOK, Rotated
<1>3. CASE Failed(res)
  <2>1. successes' = Rotated(successes) + 0 /\ failures' = Rotated(failures) + 1
    BY <1>3 DEF Record, RecordedSuccesses, RecordedFailures
  <2> QED BY <1>1, <1>2, <2>1 DEF TypeOK
<1>4. CASE ~Failed(res)
  <2>1. successes' = Rotated(successes) + 1 /\ failures' = Rotated(failures) + 0
    BY <1>4 DEF Record, RecordedSuccesses, RecordedFailures
  <2> QED BY <1>1, <1>2, <2>1 DEF TypeOK
<1> QED BY <1>3, <1>4

\* Sums of naturals.
LEMMA SumBelow ==
  ASSUME NEW a \in Nat, NEW b \in Nat, NEW m \in Nat, NEW n \in Nat,
         a + b <= m + 1, m <= n
  PROVE  a + b <= n + 1
OBVIOUS

LEMMA SumAbove ==
  ASSUME NEW a \in Nat, NEW b \in Nat, NEW n \in Nat, a + b <= n, a + b >= 5
  PROVE  n >= 5
OBVIOUS

\* A result recorded while Closed: it opens the breaker only when five
\* results have been recorded since it closed.
LEMMA ClosedStep ==
  ASSUME IInv, NEW c \in Callers, NEW res \in Results, CompleteClosed(c, res)
  PROVE  /\ since' \in 0..MinCalls /\ openAge' \in 0..OpenDuration
         /\ state' \in {"Closed", "Open"}
         /\ since' >= MinCalls \/ successes' + failures' <= since'
         /\ state' = "Open" => since' >= MinCalls
<1>1. /\ successes' \in Nat /\ failures' \in Nat
      /\ successes' + failures' <= successes + failures + 1
  BY RecordTyped DEF IInv, CompleteClosed
<1>2. since' = Evidence /\ state = "Closed" BY DEF CompleteClosed
<1>3. since' \in 0..MinCalls BY <1>2 DEF IInv, TypeOK, Evidence, MinCalls
<1>4. since >= MinCalls \/ successes + failures <= since BY <1>2 DEF IInv, Evident
<1>5. since' >= MinCalls \/ successes' + failures' <= since'
  <2>1. since \in 0..5 /\ successes \in Nat /\ failures \in Nat
    BY DEF IInv, TypeOK, MinCalls
  <2>2. CASE since < 5
    <3>1. since' = since + 1 BY <1>2, <2>2 DEF Evidence, MinCalls
    <3>2. successes + failures <= since BY <1>4, <2>1, <2>2 DEF MinCalls
    <3>3. since \in Nat /\ successes + failures \in Nat BY <2>1
    <3>4. successes' + failures' <= since + 1 BY <1>1, <3>2, <3>3, SumBelow
    <3> QED BY <3>1, <3>4
  <2>3. CASE since >= 5
    <3>1. since' = since BY <1>2, <2>1, <2>3 DEF Evidence, MinCalls
    <3> QED BY <2>1, <2>3, <3>1 DEF MinCalls
  <2> QED BY <2>1, <2>2, <2>3
<1>6. state' \in {"Closed", "Open"} /\ openAge' \in 0..OpenDuration
  BY ConfigAssumption DEF CompleteClosed, IInv, TypeOK
<1>7. ASSUME state' = "Open" PROVE successes' + failures' >= MinCalls
  <2>1. Trips(RecordedSuccesses(res), RecordedFailures(res))
    BY <1>7 DEF CompleteClosed
  <2>2. successes' = RecordedSuccesses(res) /\ failures' = RecordedFailures(res)
    BY DEF CompleteClosed, Record
  <2> QED BY <2>1, <2>2 DEF Trips
<1>8. state' = "Open" => since' >= MinCalls
  <2> SUFFICES ASSUME state' = "Open" PROVE since' >= MinCalls OBVIOUS
  <2>1. successes' + failures' >= MinCalls BY <1>7
  <2>2. since' \in Nat BY <1>3 DEF MinCalls
  <2>3. CASE successes' + failures' <= since'
    BY <1>1, <2>1, <2>2, <2>3, SumAbove DEF MinCalls
  <2> QED BY <1>5, <2>3
<1> QED BY <1>3, <1>5, <1>6, <1>8

LEMMA CompleteIInv ==
  ASSUME IInv, NEW c \in Callers, Complete(c) PROVE IInv'
<1>1. PICK res \in Results :
        \/ CompleteClosed(c, res) \/ CompleteOpen(c, res)
        \/ CompleteHalfOpenOk(c, res) \/ CompleteHalfOpenErr(c, res)
  BY DEF Complete
<1>2. /\ call' \in [Callers -> Calls] /\ UNCHANGED <<healthy, cancels>>
  BY DEF Complete, Over, IInv, TypeOK, Calls
<1>3. /\ state' \in {"Closed", "Open"} /\ openAge' \in 0..OpenDuration
      /\ half_open_count' = half_open_count
      /\ successes' \in Nat /\ failures' \in Nat /\ winAge' \in 0..Window
      /\ current' \in SUBSET Callers /\ since' \in 0..MinCalls
      /\ Evident'
  <2>1. CASE CompleteClosed(c, res)
    <3>1. Record(res) /\ UNCHANGED <<half_open_count, current>>
      BY <2>1 DEF CompleteClosed
    <3>2. successes' \in Nat /\ failures' \in Nat /\ winAge' \in 0..Window
      BY <3>1, RecordTyped DEF IInv
    <3> QED BY <2>1, <3>1, <3>2, ClosedStep DEF IInv, TypeOK, Evident
  <2>2. CASE CompleteOpen(c, res)
    <3>1. successes' \in Nat /\ failures' \in Nat /\ winAge' \in 0..Window
      BY <2>2, RecordTyped DEF IInv, CompleteOpen
    <3> QED BY <2>2, <3>1 DEF IInv, TypeOK, CompleteOpen, Evident
  <2>3. CASE CompleteHalfOpenOk(c, res)
    BY <2>3, ConfigAssumption
    DEF IInv, TypeOK, CompleteHalfOpenOk, Clear, Evident, MinCalls
  <2>4. CASE CompleteHalfOpenErr(c, res)
    <3>1. successes' \in Nat /\ failures' \in Nat /\ winAge' \in 0..Window
      BY <2>4, RecordTyped DEF IInv, CompleteHalfOpenErr
    <3> QED BY <2>4, <3>1, ConfigAssumption
            DEF IInv, TypeOK, CompleteHalfOpenErr, Evident
  <2> QED BY <1>1, <2>1, <2>2, <2>3, <2>4
<1>4. TypeOK' BY <1>2, <1>3 DEF IInv, TypeOK
<1>5. NoPermitLeak' BY <1>3 DEF NoPermitLeak
<1> QED BY <1>3, <1>4, <1>5 DEF IInv

LEMMA TimeIInv == ASSUME IInv, Tick \/ Flip PROVE IInv'
<1>1. openAge' \in 0..OpenDuration /\ winAge' \in 0..Window
  BY ConfigAssumption DEF Tick, Flip, Older, IInv, TypeOK, window
<1>2. healthy' \in BOOLEAN BY DEF Tick, Flip, IInv, TypeOK
<1>3. UNCHANGED <<state, half_open_count, successes, failures, call, current, since, cancels>>
  BY DEF Tick, Flip, window
<1> QED BY <1>1, <1>2, <1>3 DEF IInv, TypeOK, NoPermitLeak, Holders, Evident

LEMMA NextIInv == IInv /\ [Next]_vars => IInv'
<1> SUFFICES ASSUME IInv, [Next]_vars PROVE IInv' OBVIOUS
<1>1. ASSUME NEW c \in Callers, Admit(c) PROVE IInv'
  BY <1>1, AdmitProbeIInv, AdmitOtherIInv DEF Admit
<1>2. ASSUME NEW c \in Callers, Complete(c) PROVE IInv' BY <1>2, CompleteIInv
<1>3. ASSUME NEW c \in Callers, Cancel(c) PROVE IInv' BY <1>3, CancelIInv
<1>4. CASE Tick \/ Flip BY <1>4, TimeIInv
<1>5. CASE UNCHANGED vars
  BY <1>5 DEF IInv, vars, window, TypeOK, NoPermitLeak, Holders, Evident
<1> QED BY <1>1, <1>2, <1>3, <1>4, <1>5 DEF Next

-----------------------------------------------------------------------------
(* The theorems.                                                           *)

\* The invariant holds in every reachable state.
THEOREM Invariance == Spec => []IInv
BY InitIInv, NextIInv, PTL DEF Spec

\* Type correctness: half_open_count stays within the number of probes.
THEOREM TypeCorrect == Spec => []TypeOK
<1>1. IInv => TypeOK BY DEF IInv
<1> QED BY Invariance, <1>1, PTL

\* A half-open breaker never counts a place that no probe of this period
\* holds: cancelled probes cannot leave it rejecting for ever.
THEOREM NoPermitLeakHolds == Spec => []NoPermitLeak
<1>1. IInv => NoPermitLeak BY DEF IInv
<1> QED BY Invariance, <1>1, PTL

\* A closed breaker opens only on five results recorded since it closed.
THEOREM OpensOnFreshEvidenceHolds == Spec => OpensOnFreshEvidence
<1>1. ASSUME IInv, [Next]_vars
      PROVE  [state = "Closed" /\ state' = "Open" => since' >= MinCalls]_vars
  <2> SUFFICES ASSUME state = "Closed", state' = "Open" PROVE since' >= MinCalls
    OBVIOUS
  <2>1. PICK c \in Callers : Complete(c)
    BY <1>1 DEF Next, vars, Admit, AdmitClosed, AdmitAfterCooling, AdmitProbe,
                Cancel, Tick, Flip
  <2>2. PICK res \in Results : CompleteClosed(c, res)
    BY <2>1 DEF Complete, CompleteOpen, CompleteHalfOpenOk, CompleteHalfOpenErr
  <2> QED BY <1>1, <2>2, ClosedStep
<1> QED BY Invariance, <1>1, PTL DEF Spec, OpensOnFreshEvidence
=============================================================================
