---------------------------- MODULE AdvisoryLocks ----------------------------
(***************************************************************************)
(* Advisory locks of one kernel with the LocalLocks backend: clients       *)
(* acquire, extend and release leases on paths (sys_lock, sys_unlock), an  *)
(* administrator may force a release, the wall clock advances.             *)
(*                                                                         *)
(* Besides the table the model keeps what each client has been told: a     *)
(* lease is the pair path and lock id with the moment until which its      *)
(* owner may believe it holds the lock.  Clients act late, never or twice: *)
(* any call with any id may come at any moment.                            *)
(*                                                                         *)
(* A call reads the clock first and takes the table's mutex afterwards;    *)
(* what it does under the mutex is one step, with a time now that may be   *)
(* any earlier moment, because the thread can be delayed in between.  The  *)
(* clock does not run backwards (the host's clock is not stepped).         *)
(***************************************************************************)
EXTENDS LockState

CONSTANTS
    LockPaths,  \* the paths clients lock
    LockIds,    \* the lock ids clients use
    Capacities, \* the max_holders they ask for
    TTLs,       \* the ttl_secs they ask for
    MaxTime     \* bound on the clock

ASSUME AdvisoryAssumption ==
    /\ LockPaths \subseteq Seq(STRING)
    /\ Capacities \subseteq Nat
    /\ TTLs \subseteq Nat
    /\ MaxTime \in Nat

VARIABLES
    locks,  \* LockState.locks
    clock,  \* lock_now_secs()
    leases  \* what the clients have been told and may still rely on

vars == <<locks, clock, leases>>

Lease == [path : LockPaths, lock_id : LockIds, until : Nat]

\* Every row of the table is a lock somebody holds or held until it expired:
\* no transition leaves a row without holders behind.
TypeOK ==
    /\ locks \in [LockPaths -> Entries(LockIds, Nat)]
    /\ clock \in 0 .. MaxTime
    /\ leases \subseteq Lease

Init ==
    /\ locks = EmptyTable(LockPaths)
    /\ clock = 0
    /\ leases = {}

\* The leases other than the one of this client on this path.
OtherLeases(path, id) == {l \in leases : l.path # path \/ l.lock_id # id}

\* sys_lock with a new id, or a repeated acquire by the same id.
Acquire(path, id, max, ttl, now) ==
    /\ locks' = AfterAcquire(locks, path, id, max, ttl, now)
    /\ leases' = IF Acquires(locks, path, id, max, now)
                 THEN OtherLeases(path, id)
                        \cup {[path |-> path, lock_id |-> id, until |-> now + ttl]}
                 ELSE leases
    /\ UNCHANGED clock

\* sys_lock with an existing id.  A client whose extend fails knows that its
\* lease is gone.
Extend(path, id, ttl, now) ==
    /\ locks' = AfterExtend(locks, path, id, ttl, now)
    /\ leases' = IF Extends(locks, path, id, now)
                 THEN OtherLeases(path, id)
                        \cup {[path |-> path, lock_id |-> id, until |-> now + ttl]}
                 ELSE OtherLeases(path, id)
    /\ UNCHANGED clock

\* sys_unlock
Release(path, id) ==
    /\ locks' = AfterRelease(locks, path, id)
    /\ leases' = OtherLeases(path, id)
    /\ UNCHANGED clock

\* sys_unlock with force: an override that takes the leases away.
ForceRelease(path) ==
    /\ locks' = AfterForceRelease(locks, path)
    /\ leases' = {l \in leases : l.path # path}
    /\ UNCHANGED clock

\* Time passes; a lease that ran out is no longer relied on.
Tick ==
    /\ clock < MaxTime
    /\ clock' = clock + 1
    /\ leases' = {l \in leases : l.until > clock'}
    /\ UNCHANGED locks

Next ==
    \/ \E path \in LockPaths, id \in LockIds, ttl \in TTLs, now \in 0 .. clock :
          \/ \E max \in Capacities : Acquire(path, id, max, ttl, now)
          \/ Extend(path, id, ttl, now)
    \/ \E path \in LockPaths, id \in LockIds : Release(path, id)
    \/ \E path \in LockPaths : ForceRelease(path)
    \/ Tick

Spec == Init /\ [][Next]_vars

-----------------------------------------------------------------------------
\* Properties.

\* An entry never has more holders than it allows, and no id holds a path
\* twice: the checks of apply_acquire run after the pruning and before the
\* insertion on every route into the table.
CapacityRespected ==
    \A p \in LockPaths :
        /\ Cardinality(locks[p].holders) <= locks[p].max_holders
        /\ \A g, h \in locks[p].holders : g.lock_id = h.lock_id => g = h

\* A holder of a path and a holder of a path above it never coexist: a lock
\* stands for the whole subtree.
SubtreeExclusive ==
    \A p, q \in LockPaths :
        p \in Ancestors(q) => locks[p].holders = {} \/ locks[q].holders = {}

\* A client that was told it holds a lock still has its holder in the table,
\* with the expiry it was told, until that moment, a release or an override:
\* nobody else's call evicts it.
LeasesBacked ==
    \A l \in leases :
        l.until > clock =>
            \E h \in locks[l.path].holders :
                h.lock_id = l.lock_id /\ h.expires_at = l.until

\* A lock request is refused only because of somebody who still holds a
\* lease: locks whose TTL ran out are released.
RefusedOnlyByLiveHolders ==
    \A p \in LockPaths, id \in LockIds, max \in Capacities :
        LET alive(q) == Unexpired(locks[q].holders, clock)
        IN  (/\ \A q \in LockPaths :
                   p \in Ancestors(q) \/ q \in Ancestors(p) => alive(q) = {}
             /\ alive(p) = {})
                => Acquires(locks, p, id, max, clock)
=============================================================================
