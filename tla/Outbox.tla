------------------------------- MODULE Outbox -------------------------------
(***************************************************************************)
(* The transactional outbox of ecat-data-sharding: OutboxStore (outbox.rs) *)
(* and the relays that deliver from it (outbox/relay.rs).                  *)
(*                                                                         *)
(* claim is one database transaction and one step; mark_done, mark_failed  *)
(* and append are one statement each. The handler runs outside any lock,   *)
(* for any time: a lease may run out under it, which counts as a fault.    *)
(* Ages and delays are counted in ticks and stop where the code's          *)
(* comparisons no longer tell them apart; attempts stops where the backoff *)
(* does. The rows a claim may select are kept in `queue`, in the order of  *)
(* its ORDER BY.                                                           *)
(***************************************************************************)
EXTENDS Integers, Sequences, SequencesExt

CONSTANTS NumIds,        \* records
          Poison,        \* the ids whose handler never succeeds
          Relays,
          Batch,         \* the limit of a claim
          Lease,         \* lease, in ticks
          StaleBackoff,  \* STALE_BACKOFF, in ticks
          MaxBackoff,    \* MAX_BACKOFF, in ticks of BASE_BACKOFF
          MaxAttempts,   \* bound: attempts at which the backoff is MaxBackoff
          MaxFaults      \* bound: handler errors on ids not in Poison, relay
                         \* crashes and database errors, leases that run out
                         \* under a working relay

\* The record ids: of them only the order matters.
Ids == 1..NumIds

\* 1 << n
Factor[n \in 0..MaxAttempts] == IF n = 0 THEN 1 ELSE 2 * Factor[n - 1]

ASSUME IdsAssumption == NumIds \in Nat /\ Poison \subseteq Ids
ASSUME ConfigAssumption ==
  /\ Batch \in Nat \ {0} /\ Lease \in Nat \ {0}
  /\ StaleBackoff \in Nat \ {0} /\ MaxBackoff \in Nat \ {0}
  /\ MaxAttempts \in Nat /\ Factor[MaxAttempts] >= MaxBackoff
  /\ MaxFaults \in Nat

VARIABLES
  row,        \* the table: status, attempts, and the two timestamps as
              \* wait, the ticks to next_attempt_at, and age, since claimed_at
  queue,      \* ids that are pending or failed, by next_attempt_at
  relay,      \* the relays: position, records not marked yet, age of the claim
  owner,      \* the relay that claimed a row, while it is processing
  delivered,  \* ids for which a handler has returned Ok
  late,       \* a lease has run out under a working relay
  faults

vars == <<row, queue, relay, owner, delivered, late, faults>>

Statuses == {"absent", "pending", "processing", "done", "failed"}
Rows == [status : Statuses, attempts : 0..MaxAttempts,
         wait : 0..(IF StaleBackoff > MaxBackoff THEN StaleBackoff ELSE MaxBackoff),
         age : 0..(Lease + 1)]

NoRelay == "none"
Off == [pc |-> "off", batch |-> <<>>, held |-> 0]

Init ==
  /\ row = [i \in Ids |-> [status |-> "absent", attempts |-> 0, wait |-> 0, age |-> 0]]
  /\ queue = <<>>
  /\ relay = [r \in Relays |-> Off]
  /\ owner = [i \in Ids |-> NoRelay]
  /\ delivered = {}
  /\ late = FALSE /\ faults = 0

Fault == faults < MaxFaults /\ faults' = faults + 1

\* attempts + 1, up to where it makes a difference.
More(n) == IF n < MaxAttempts THEN n + 1 ELSE n

\* The elements of q that are in S, in their order.
Keep(q, S) ==
  LET keep[k \in 0..Len(q)] ==
        IF k = 0 THEN <<>>
        ELSE IF q[k] \in S THEN Append(keep[k - 1], q[k]) ELSE keep[k - 1]
  IN  keep[Len(q)]

\* q with the ids of S rescheduled w ticks from now.
Later(q, S, w) ==
  Keep(q, {i \in Ids \ S : row[i].wait <= w})
    \o Keep([i \in Ids |-> i], S)
    \o Keep(q, {i \in Ids \ S : row[i].wait > w})

-----------------------------------------------------------------------------
(* OutboxStore                                                             *)

\* append: a new id, Pending (other statuses are refused), due now or later
\* as the caller says.
Append_(i, w) ==
  /\ row[i].status = "absent"
  /\ row' = [row EXCEPT ![i] = [status |-> "pending", attempts |-> 0,
                                wait |-> w, age |-> 0]]
  /\ queue' = Later(queue, {i}, w)
  /\ UNCHANGED <<relay, owner, delivered, late, faults>>

\* The rows whose lease is over: claimed_at < now - lease.
\* Mutants: a lease is never taken back; it is taken back at once.
StaleNever(x) == FALSE
StaleAtOnce(x) == x.status = "processing"
Stale(x) == x.status = "processing" /\ x.age > Lease

Reclaimed(x) == [status |-> "pending", attempts |-> More(x.attempts),
                 wait |-> StaleBackoff, age |-> 0]

\* WHERE next_attempt_at <= now ORDER BY next_attempt_at, id LIMIT limit.
\* Mutant: no LIMIT.
FirstDueUnlimited(q, table) == Keep(q, {i \in Ids : table[i].wait = 0})
FirstDue(q, table) ==
  LET due == Keep(q, {i \in Ids : table[i].wait = 0})
  IN  SubSeq(due, 1, IF Len(due) < Batch THEN Len(due) ELSE Batch)

\* claim, the start of run_once: reclaim, select, take.
Claim(r) ==
  LET stale == {i \in Ids : Stale(row[i])}
      table == [i \in Ids |-> IF i \in stale THEN Reclaimed(row[i]) ELSE row[i]]
  IN
  \E q \in {IF stale = {} THEN queue ELSE Later(queue, stale, StaleBackoff)} :
  \E ids \in {FirstDue(q, table)} :
    LET took == ToSet(ids) IN
    /\ relay[r].pc = "off"
    /\ stale # {} \/ ids # <<>>
    /\ row' = [i \in Ids |-> IF i \in took
                             THEN [status |-> "processing", attempts |-> table[i].attempts,
                                   wait |-> 0, age |-> 0]
                             ELSE table[i]]
    /\ queue' = Keep(q, Ids \ took)
    /\ relay' = [relay EXCEPT ![r] =
                   [pc |-> IF ids = <<>> THEN "off" ELSE "handle", held |-> 0,
                    batch |-> [k \in 1..Len(ids) |->
                                 [id |-> ids[k], attempts |-> table[ids[k]].attempts]]]]
    /\ owner' = [i \in Ids |-> IF i \in took THEN r
                               ELSE IF i \in stale THEN NoRelay ELSE owner[i]]
    /\ UNCHANGED <<delivered, late, faults>>

\* The rows a mark may change, whoever claimed them.
\* Mutant: any row.
MarkableAny(x) == TRUE
Markable(x) == x.status = "processing"

-----------------------------------------------------------------------------
(* OutboxRelay::run_once                                                   *)

Current(r) == Head(relay[r].batch)

\* The handler returns.
Handle(r) ==
  /\ relay[r].pc = "handle"
  /\ LET i == Current(r).id IN
     \/ /\ i \notin Poison
        /\ delivered' = delivered \cup {i}
        /\ relay' = [relay EXCEPT ![r].pc = "mark_done"]
        /\ UNCHANGED faults
     \/ /\ IF i \in Poison THEN UNCHANGED faults ELSE Fault
        /\ relay' = [relay EXCEPT ![r].pc = "mark_failed"]
        /\ UNCHANGED delivered
  /\ UNCHANGED <<row, queue, owner, late>>

\* On to the next record, or the round is over.
NextRecord(r) ==
  LET rest == Tail(relay[r].batch) IN
  relay' = [relay EXCEPT ![r] =
              IF rest = <<>> THEN Off
              ELSE [pc |-> "handle", batch |-> rest, held |-> relay[r].held]]

\* The handler has returned Ok.
AfterHandle(r) == relay[r].pc = "mark_done"

MarkDone(r) ==
  /\ AfterHandle(r)
  /\ LET i == Current(r).id IN
     /\ row' = [row EXCEPT ![i] = IF Markable(@)
                                  THEN [status |-> "done", attempts |-> @.attempts,
                                        wait |-> 0, age |-> 0]
                                  ELSE @]
     /\ queue' = IF Markable(row[i]) THEN Keep(queue, Ids \ {i}) ELSE queue
     /\ owner' = [owner EXCEPT ![i] = IF Markable(row[i]) THEN NoRelay ELSE @]
  /\ NextRecord(r)
  /\ UNCHANGED <<delivered, late, faults>>

\* backoff: doubles with every attempt the claim has seen, up to MAX_BACKOFF.
Backoff(n) == IF Factor[n] < MaxBackoff THEN Factor[n] ELSE MaxBackoff

MarkFailed(r) ==
  /\ relay[r].pc = "mark_failed"
  /\ LET i == Current(r).id
         w == Backoff(Current(r).attempts) IN
     IF Markable(row[i])
     THEN /\ row' = [row EXCEPT ![i] = [status |-> "failed", wait |-> w, age |-> 0,
                                        attempts |-> More(@.attempts)]]
          /\ queue' = Later(queue, {i}, w)
          /\ owner' = [owner EXCEPT ![i] = NoRelay]
     ELSE UNCHANGED <<row, queue, owner>>
  /\ NextRecord(r)
  /\ UNCHANGED <<delivered, late, faults>>

\* A crash, or a database error, which `?` turns into the end of the round:
\* the rest of the batch is left to its lease.
Stop(r) ==
  /\ relay[r].pc # "off" /\ Fault
  /\ relay' = [relay EXCEPT ![r] = Off]
  /\ UNCHANGED <<row, queue, owner, delivered, late>>

-----------------------------------------------------------------------------

Less(n) == IF n > 0 THEN n - 1 ELSE 0
Older(n) == IF n <= Lease THEN n + 1 ELSE n

\* The lease of a working relay is about to run out.
Expiring(r) == relay[r].pc # "off" /\ relay[r].held = Lease

Tick ==
  /\ IF \E r \in Relays : Expiring(r)
     THEN Fault /\ late' = TRUE
     ELSE UNCHANGED <<late, faults>>
  /\ row' = [i \in Ids |->
               [status |-> row[i].status, attempts |-> row[i].attempts,
                wait |-> Less(row[i].wait),
                age |-> IF row[i].status = "processing" THEN Older(row[i].age) ELSE 0]]
  /\ relay' = [r \in Relays |->
                 [pc |-> relay[r].pc, batch |-> relay[r].batch,
                  held |-> IF relay[r].pc = "off" THEN 0 ELSE Older(relay[r].held)]]
  /\ UNCHANGED <<queue, owner, delivered>>

Round(r) == Claim(r) \/ Handle(r) \/ MarkDone(r) \/ MarkFailed(r)

Next ==
  \/ \E i \in Ids, w \in 0..1 : Append_(i, w)
  \/ \E r \in Relays : Round(r) \/ Stop(r)
  \/ Tick

Spec == Init /\ [][Next]_vars

\* Time passes, and every relay keeps polling and finishes its batches (a
\* stopped one is started again).
FairSpec == Spec /\ WF_vars(Tick) /\ \A r \in Relays : WF_vars(Round(r))

-----------------------------------------------------------------------------
(* Properties.                                                             *)

Holds(r) == {relay[r].batch[k].id : k \in DOMAIN relay[r].batch}

TypeOK ==
  /\ row \in [Ids -> Rows]
  /\ ToSet(queue) = {i \in Ids : row[i].status \in {"pending", "failed"}}
  /\ \A j, k \in 1..Len(queue) :
       j < k => queue[j] # queue[k] /\ row[queue[j]].wait <= row[queue[k]].wait
  /\ \A r \in Relays :
       /\ relay[r].pc \in {"off", "handle", "mark_done", "mark_failed"}
       /\ relay[r].pc = "off" <=> relay[r].batch = <<>>
       /\ Holds(r) \subseteq Ids /\ Len(relay[r].batch) <= Batch
       /\ relay[r].held \in 0..(Lease + 1)
  /\ owner \in [Ids -> Relays \cup {NoRelay}]
  /\ delivered \subseteq Ids
  /\ late \in BOOLEAN /\ faults \in 0..MaxFaults

\* Nothing is lost, and Done is final: a row becomes Done only when a handler
\* has returned Ok for it, and no late mark_failed or expired lease puts it back
\* ("不能把 Done 翻回 Failed 重新入队", outbox.rs:291).
DoneIsFinal ==
  [][\A i \in Ids :
       /\ row[i].status = "done" => row'[i].status = "done"
       /\ row'[i].status = "done" => i \in delivered]_vars

\* As long as relays keep to their lease no two of them deliver a record at
\* the same time ("并发 claim 不会双领", outbox.rs:183, and the lease rule of
\* relay.rs:66-70).
LeaseExclusive ==
  ~late => \A r, q \in Relays : r # q => Holds(r) \cap Holds(q) = {}

\* Every record whose handler can succeed is Done in the end: after errors,
\* crashes and beside records that always fail.
EventuallyDone ==
  \A i \in Ids \ Poison : row[i].status # "absent" ~> row[i].status = "done"

\* Which relay marks row i in this step.
Marks(r, i) == relay[r].pc # "off" /\ relay'[r] # relay[r] /\ Current(r).id = i

\* "迟到的 mark_done（租约已过期、行已被回收重投）是 no-op" (outbox.rs:275), and the same
\* of mark_failed (outbox.rs:290): only the relay that holds its claim marks
\* a row.
LateMarkIsNoOp ==
  [][\A i \in Ids :
       row[i].status = "processing" /\ row'[i].status \in {"done", "failed"} =>
         \E r \in Relays : owner[i] = r /\ Marks(r, i)]_vars
=============================================================================
