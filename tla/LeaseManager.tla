--------------------------- MODULE LeaseManager ---------------------------
(* LocalLeaseManager (nexus/lib/lease.py): shared-read and exclusive-write    *)
(* leases with a time to live, fencing tokens and revocation callbacks.        *)
(*                                                                             *)
(* Every operation changes the tables in one critical section of an            *)
(* asyncio.Lock that awaits nothing, so a critical section is one step.  An    *)
(* acquire that meets conflicts is several: it revokes, runs the callbacks     *)
(* outside the lock, sleeps and tries again.  The mounts that share a manager  *)
(* run it on an event loop of their own each, so a clock reading taken before  *)
(* the lock may be old when it is used: by at most MaxLag here.                *)
(*                                                                             *)
(* Left out: the zone prefix of the resource key, the statistics, the backoff  *)
(* times, close() (it ends the sweep, and nothing here relies on the sweep).    *)
EXTENDS Naturals, FiniteSets

CONSTANTS
    Holders,
    Resources,
    Calls,      \* the calls of acquire(), with their arguments, each made once
    Ttls,       \* the times to live callers ask for
    MaxLag,     \* how old a clock reading taken before the lock can be
    MaxTime,    \* bound on the clock
    NoLease

LeaseStates == {"shared", "exclusive"}

Lease == [resource : Resources, holder : Holders, state : LeaseStates,
          generation : Nat, expires_at : Nat]

\* A timeout of 0 asks for an answer without blocking.
ASSUME LeaseAssumption ==
    /\ NoLease \notin Lease
    /\ Calls \subseteq [id : Nat, resource : Resources, holder : Holders,
                        state : LeaseStates, ttl : Ttls, timeout : Nat]
    /\ Ttls \subseteq Nat \ {0}
    /\ MaxLag \in Nat
    /\ MaxTime \in Nat

VARIABLES
    by_resource,  \* [resource][holder]: the lease stored, or NoLease
    by_holder,    \* [holder]: the resources it is indexed under
    generation,   \* [resource]: the last fencing token
    callbacks,    \* the holders whose revocation callback is registered
    notices,      \* callbacks an acquire waits for: [call, lease, reason]
    acq,          \* [call]: where an acquire is, and its deadline
    now           \* the monotonic clock

tables == <<by_resource, by_holder, generation>>
vars == <<by_resource, by_holder, generation, callbacks, notices, acq, now>>

----------------------------------------------------------------------------
(* The tables *)

IsExpired(l, t) == t >= l.expires_at

IsCompatible(existing, requested) == existing = "shared" /\ requested = "shared"

HeldBy(r, h) == by_resource[r][h] # NoLease

Expired(r, t) == {h \in Holders : HeldBy(r, h) /\ IsExpired(by_resource[r][h], t)}

LeasesOf(r, H) == {by_resource[r][h] : h \in {k \in H : HeldBy(r, k)}}

\* Who is in the way of holder h asking for state s, the expired apart.
Conflicts(r, h, s, t) ==
    {k \in Holders \ {h} :
        /\ HeldBy(r, k)
        /\ ~IsExpired(by_resource[r][k], t)
        /\ ~IsCompatible(by_resource[r][k].state, s)}

\* Mutant: the holder index is left alone.
MutRemoveFromOneIndex(r, H) ==
    /\ by_resource' = [by_resource EXCEPT
           ![r] = [h \in Holders |-> IF h \in H THEN NoLease ELSE by_resource[r][h]]]
    /\ by_holder' = by_holder

\* Both indexes without the leases of the holders H on r.
RemoveLeases(r, H) ==
    /\ by_resource' = [by_resource EXCEPT
           ![r] = [h \in Holders |-> IF h \in H THEN NoLease ELSE by_resource[r][h]]]
    /\ by_holder' = [h \in Holders |->
           IF h \in H THEN by_holder[h] \ {r} ELSE by_holder[h]]

\* Mutant: the new lease also lands in the slots of the evicted ones.
MutReplaceFillsSlots(r, H, l) ==
    /\ by_resource' = [by_resource EXCEPT
           ![r] = [h \in Holders |-> IF h = l.holder \/ h \in H THEN l ELSE by_resource[r][h]]]
    /\ by_holder' = [h \in Holders |->
           IF h = l.holder THEN by_holder[h] \cup {r}
           ELSE IF h \in H THEN by_holder[h] \ {r} ELSE by_holder[h]]

\* The same, and then lease l is stored.
ReplaceLeases(r, H, l) ==
    /\ by_resource' = [by_resource EXCEPT
           ![r] = [h \in Holders |->
                      IF h = l.holder THEN l
                      ELSE IF h \in H THEN NoLease ELSE by_resource[r][h]]]
    /\ by_holder' = [h \in Holders |->
           IF h = l.holder THEN by_holder[h] \cup {r}
           ELSE IF h \in H THEN by_holder[h] \ {r} ELSE by_holder[h]]

\* One invocation per removed lease whose holder listens (the callbacks of the
\* others return at once).
Invoke(c, leases, reason) ==
    {[call |-> c, lease |-> l, reason |-> reason] : l \in {k \in leases : k.holder \in callbacks}}

----------------------------------------------------------------------------
Init ==
    /\ by_resource = [r \in Resources |-> [h \in Holders |-> NoLease]]
    /\ by_holder = [h \in Holders |-> {}]
    /\ generation = [r \in Resources |-> 0]
    /\ callbacks = {}
    /\ notices = {}
    /\ acq = [c \in Calls |-> [pc |-> "new", deadline |-> 0]]
    /\ now = 0

----------------------------------------------------------------------------
(* acquire *)

AcquireStart(c) ==
    /\ acq[c].pc = "new"
    /\ acq' = [acq EXCEPT ![c] = [pc |-> "loop", deadline |-> now + c.timeout]]
    /\ UNCHANGED <<tables, callbacks, notices, now>>

Return(c) == acq' = [acq EXCEPT ![c] = [pc |-> "done", deadline |-> 0]]

AcquireTimesOut(c) ==
    /\ acq[c].pc = "loop"
    /\ c.timeout > 0 /\ now >= acq[c].deadline
    /\ Return(c)
    /\ UNCHANGED <<tables, callbacks, notices, now>>

AcquireEnter(c) ==
    /\ acq[c].pc = "loop"
    /\ c.timeout = 0 \/ now < acq[c].deadline
    /\ acq' = [acq EXCEPT ![c].pc = "lock"]
    /\ UNCHANGED <<tables, callbacks, notices, now>>

Renews(c) ==
    /\ HeldBy(c.resource, c.holder)
    /\ ~IsExpired(by_resource[c.resource][c.holder], now)
    /\ by_resource[c.resource][c.holder].state = c.state

InTheWay(c) == Conflicts(c.resource, c.holder, c.state, now)

\* The same holder asks again for what it has: the lease keeps its token.  The
\* leases found expired on the way are evicted and, as the call returns from
\* inside the lock, their callbacks are not run.
RenewLease(c) ==
    /\ Renews(c)
    /\ ReplaceLeases(c.resource, Expired(c.resource, now),
                     [by_resource[c.resource][c.holder] EXCEPT !.expires_at = now + c.ttl])
    /\ UNCHANGED generation

\* Mutant: expired leases are skipped as conflicts but not evicted.
MutGrantKeepsExpired(c) ==
    LET gen == generation[c.resource] + 1 IN
    /\ ~Renews(c)
    /\ InTheWay(c) = {}
    /\ ReplaceLeases(c.resource, {},
                     [resource |-> c.resource, holder |-> c.holder, state |-> c.state,
                      generation |-> gen, expires_at |-> now + c.ttl])
    /\ generation' = [generation EXCEPT ![c.resource] = gen]

\* Mutant: the token is counted from the leases in the table.
MutGrantCountsHeld(c) ==
    LET gen == Cardinality(LeasesOf(c.resource, Holders)) + 1 IN
    /\ ~Renews(c)
    /\ InTheWay(c) = {}
    /\ ReplaceLeases(c.resource, Expired(c.resource, now),
                     [resource |-> c.resource, holder |-> c.holder, state |-> c.state,
                      generation |-> gen, expires_at |-> now + c.ttl])
    /\ generation' = [generation EXCEPT ![c.resource] = gen]

\* No conflict: the holder's own lease of the other state, if any, is replaced.
GrantLease(c) ==
    LET gen == generation[c.resource] + 1 IN
    /\ ~Renews(c)
    /\ InTheWay(c) = {}
    /\ ReplaceLeases(c.resource, Expired(c.resource, now),
                     [resource |-> c.resource, holder |-> c.holder, state |-> c.state,
                      generation |-> gen, expires_at |-> now + c.ttl])
    /\ generation' = [generation EXCEPT ![c.resource] = gen]

AcquireRenew(c) ==
    /\ acq[c].pc = "lock"
    /\ RenewLease(c)
    /\ Return(c)
    /\ UNCHANGED <<callbacks, notices, now>>

AcquireGrant(c) ==
    /\ acq[c].pc = "lock"
    /\ GrantLease(c)
    /\ Return(c)
    /\ UNCHANGED <<callbacks, notices, now>>

\* A conflict and a timeout of 0: nobody else's lease is revoked, but the
\* holder's own lease of the other state is already gone.
AcquireRefuse(c) ==
    /\ acq[c].pc = "lock"
    /\ ~Renews(c)
    /\ InTheWay(c) # {}
    /\ c.timeout = 0
    /\ RemoveLeases(c.resource, Expired(c.resource, now) \cup {c.holder})
    /\ Return(c)
    /\ UNCHANGED <<generation, callbacks, notices, now>>

\* A conflict: the holders in the way lose their leases; the callbacks of the
\* expired leases run first, then those of the revoked ones.
AcquireRevoke(c) ==
    LET expired == Expired(c.resource, now) IN
    /\ acq[c].pc = "lock"
    /\ ~Renews(c)
    /\ InTheWay(c) # {}
    /\ c.timeout > 0
    /\ RemoveLeases(c.resource, expired \cup {c.holder} \cup InTheWay(c))
    /\ notices' = notices \cup Invoke(c, LeasesOf(c.resource, expired), "expired")
                          \cup Invoke(c, LeasesOf(c.resource, InTheWay(c)), "conflict")
    /\ acq' = [acq EXCEPT ![c].pc = "notify"]
    /\ UNCHANGED <<generation, callbacks, now>>

\* All callbacks have answered or timed out; after a short sleep it tries again.
AcquireRetry(c) ==
    /\ acq[c].pc = "notify"
    /\ \A n \in notices : n.call # c
    /\ acq' = [acq EXCEPT ![c].pc = "loop"]
    /\ UNCHANGED <<tables, callbacks, notices, now>>

----------------------------------------------------------------------------
(* The other operations.  t is the clock reading taken before the lock.  They  *)
(* run callbacks too, after their change; only their own caller waits for      *)
(* those, so they are not followed here.                                       *)

Readings == {t \in 0..now : t + MaxLag >= now}

\* validate and leases_for_resource: what they change is that they evict.
EvictExpired(r, t) ==
    /\ RemoveLeases(r, Expired(r, t))
    /\ UNCHANGED <<generation, callbacks, notices, acq, now>>

\* revoke and, without the callbacks, force_revoke.
Revoke(r, H) ==
    /\ RemoveLeases(r, H)
    /\ UNCHANGED <<generation, callbacks, notices, acq, now>>

\* The leases are found through the holder index.
RevokeHolder(h) ==
    /\ by_resource' = [r \in Resources |->
           IF r \in by_holder[h] THEN [by_resource[r] EXCEPT ![h] = NoLease] ELSE by_resource[r]]
    /\ by_holder' = [by_holder EXCEPT ![h] = {}]
    /\ UNCHANGED <<generation, callbacks, notices, acq, now>>

\* A lease found expired is removed without a callback.
Extend(r, h, ttl, t) ==
    /\ HeldBy(r, h)
    /\ \/ /\ IsExpired(by_resource[r][h], t)
          /\ RemoveLeases(r, {h})
       \/ /\ ~IsExpired(by_resource[r][h], t)
          /\ ReplaceLeases(r, {}, [by_resource[r][h] EXCEPT !.expires_at = t + ttl])
    /\ UNCHANGED <<generation, callbacks, notices, acq, now>>

SweepExpired(t) ==
    /\ by_resource' = [r \in Resources |-> [h \in Holders |->
           IF h \in Expired(r, t) THEN NoLease ELSE by_resource[r][h]]]
    /\ by_holder' = [h \in Holders |-> {r \in by_holder[h] : h \notin Expired(r, t)}]
    /\ UNCHANGED <<generation, callbacks, notices, acq, now>>

RegisterCallback(h) ==
    /\ h \notin callbacks
    /\ callbacks' = callbacks \cup {h}
    /\ UNCHANGED <<tables, notices, acq, now>>

UnregisterCallback(h) ==
    /\ h \in callbacks
    /\ callbacks' = callbacks \ {h}
    /\ UNCHANGED <<tables, notices, acq, now>>

----------------------------------------------------------------------------
(* Callbacks: each ends, at the latest at its timeout.  Those of one acquire   *)
(* run in two batches, the expired leases first.                               *)

\* Mutant: a callback that is unregistered while it is awaited never ends.
MutCallbackForgotten(n) ==
    /\ n.lease.holder \in callbacks
    /\ notices' = notices \ {n}
    /\ UNCHANGED <<tables, callbacks, acq, now>>

CallbackEnds(n) ==
    /\ n.reason = "conflict" => \A m \in notices : m.call = n.call => m.reason # "expired"
    /\ notices' = notices \ {n}
    /\ UNCHANGED <<tables, callbacks, acq, now>>

Tick ==
    /\ now < MaxTime
    /\ now' = now + 1
    /\ UNCHANGED <<tables, callbacks, notices, acq>>

----------------------------------------------------------------------------
AcquireStep(c) ==
    \/ AcquireTimesOut(c)
    \/ AcquireEnter(c)
    \/ AcquireRenew(c)
    \/ AcquireGrant(c)
    \/ AcquireRefuse(c)
    \/ AcquireRevoke(c)
    \/ AcquireRetry(c)

Next ==
    \/ \E c \in Calls : AcquireStart(c)
    \/ \E c \in Calls : AcquireStep(c)
    \/ \E r \in Resources, t \in Readings : EvictExpired(r, t)
    \/ \E r \in Resources, h \in Holders : Revoke(r, {h})
    \/ \E r \in Resources : Revoke(r, Holders)
    \/ \E h \in Holders : RevokeHolder(h)
    \/ \E r \in Resources, h \in Holders, ttl \in Ttls, t \in Readings : Extend(r, h, ttl, t)
    \/ \E t \in Readings : SweepExpired(t)
    \/ \E h \in Holders : RegisterCallback(h) \/ UnregisterCallback(h)
    \/ \E n \in notices : CallbackEnds(n)
    \/ Tick

Spec == Init /\ [][Next]_vars

\* The event loop runs every acquire that can go on, and a callback is cut off
\* by asyncio.wait_for at the latest.
FairSpec ==
    /\ Spec
    /\ \A c \in Calls : WF_vars(AcquireStep(c))
    /\ \A c \in Calls : WF_vars(\E n \in notices : n.call = c /\ CallbackEnds(n))

----------------------------------------------------------------------------
(* Properties *)

AcquireCall == [pc : {"new", "loop", "lock", "notify", "done"}, deadline : Nat]

\* The tables, the calls and the clock have their types, and a stored lease is
\* filed under its own resource and holder.
TypeOK ==
    /\ by_resource \in [Resources -> [Holders -> Lease \cup {NoLease}]]
    /\ \A r \in Resources, h \in Holders : HeldBy(r, h) =>
          by_resource[r][h].resource = r /\ by_resource[r][h].holder = h
    /\ by_holder \in [Holders -> SUBSET Resources]
    /\ generation \in [Resources -> Nat]
    /\ callbacks \subseteq Holders
    /\ notices \subseteq [call : Calls, lease : Lease, reason : {"expired", "conflict"}]
    /\ acq \in [Calls -> AcquireCall]
    /\ now \in Nat

\* Two holders have leases on a resource only if both are shared, even with the
\* expired ones still in the table and with leases extended on an old clock
\* reading (acquire evicts before it looks for conflicts).
Exclusion ==
    \A r \in Resources, h, k \in Holders :
        h # k /\ HeldBy(r, h) /\ HeldBy(r, k) =>
            IsCompatible(by_resource[r][h].state, by_resource[r][k].state)

\* The two indexes name the same leases, so that revoke_holder, which looks
\* only at the holder index, misses none.
IndexesAgree ==
    \A r \in Resources, h \in Holders : HeldBy(r, h) <=> r \in by_holder[h]

\* The leases in the table.
Held == UNION {LeasesOf(r, Holders) : r \in Resources}

\* The manager implements the abstract lease service: grants are compatible
\* with what is held and carry fresh fencing tokens.
Service == INSTANCE LeaseService WITH held <- Held, token <- generation

ImplementsLeaseService == Service!SSpec

\* Every acquire returns, with a lease or without, whatever the callbacks do
\* and however often others take the resource in between.
AcquireReturns ==
    \A c \in Calls : acq[c].pc = "loop" ~> acq[c].pc = "done"
=============================================================================
