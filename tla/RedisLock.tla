------------------------------ MODULE RedisLock ------------------------------
(***************************************************************************)
(* The distributed lock of ecat-lock as ecat-data-redis implements it: one *)
(* Redis key that holds the token of its owner and lives for a TTL.        *)
(*                                                                         *)
(* A token is a fresh UUID per acquire, so a holder's name stands for the  *)
(* token of its present run, and Orphan for a token nobody has any more:   *)
(* its owner died, or the answer to its command was lost (with_timeout     *)
(* gives up on a command that Redis may still execute). A Lua script or a  *)
(* SET NX PX is one step of Redis. The fence number of acquire_fenced goes *)
(* up on every attempt and is checked by nobody in this repository         *)
(* (validate_fence has no caller), so only the key itself is state here.   *)
(***************************************************************************)
CONSTANT Holders  \* the processes that compete for the key

VARIABLE lock     \* the token stored under the key

Free   == "free"
Orphan == "orphan"

ASSUME HoldersAssumption == Free \notin Holders /\ Orphan \notin Holders

LockTypeOK == lock \in Holders \cup {Free, Orphan}

\* acquire and acquire_fenced: SET key token NX PX ttl.
Acquire(h) == lock = Free /\ lock' = h

\* The key is set, the answer does not arrive.
AcquireLost == lock = Free /\ lock' = Orphan

\* release: compare-and-delete; also for a token that is gone, without error.
\* Mutant: the key is deleted whoever holds it.
ReleaseAny(h) == lock' = Free
Release(h) == lock' = IF lock = h THEN Free ELSE lock

\* renew: compare-and-pexpire, an error for who is not the holder.
\* Mutant: the script extends the key for any caller.
RenewsAny(h) == TRUE
Renews(h) == lock = h

\* The holder is gone, or its release did not get through: the token stays.
Forget(h) == lock' = IF lock = h THEN Orphan ELSE lock

\* The TTL runs out.
Expire == lock # Free /\ lock' = Free
=============================================================================
