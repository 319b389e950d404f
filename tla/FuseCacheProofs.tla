-------------------------- MODULE FuseCacheProofs --------------------------
(* FuseCache: raw reads are fresh and cache entries sound, for every set of   *)
(* mounts, files, reads and writes; and the mounts, who share one lease        *)
(* manager, keep the promise of the abstract lease service.                    *)
EXTENDS FuseCache, LeaseManagerProofs

ReadPCs == {"stat", "parsed", "parsed_valid", "hot", "l1_hot", "l1_leased", "l1_direct",
            "validate", "acquire", "set_validated", "set_acquired", "flight", "wait", "capture",
            "fetch", "check_disk", "put_disk", "put_l1", "resolve", "done"}

ReadType == [pc : ReadPCs, view : {"raw", "parsed"}, fp : ContentIds \cup {None}, seen : Nat,
             content : Nat \cup {None, Error}, lease : BOOLEAN, expires : Nat,
             gen : Nat, owner : Reads \cup {None}]

RawEntry == [version : Nat, fp : ContentIds]
DiskEntry == [fp : ContentIds, view : {"raw", "parsed"}, version : Nat]

\* A fingerprint is the content id of the version the read saw, which is the
\* current one or an earlier one.
SeenAt(p, id, v) == v \in 1..Version(p) /\ backend[p][v] = id

FingerprintsPast ==
    \A c \in Reads : rd[c].pc # "stat" => SeenAt(c.resource, rd[c].fp, rd[c].seen)

\* What a read has fetched is no older than its fingerprint.
Fetching == {"check_disk", "put_disk", "put_l1", "resolve"}

FetchedFresh ==
    \A c \in Reads : rd[c].pc \in Fetching =>
        rd[c].content \in Nat /\ NotOlder(c.resource, rd[c].fp, rd[c].content)

\* So is a raw answer.
AnswersFresh ==
    \A c \in Reads : rd[c].pc = "done" /\ rd[c].content # Error /\ rd[c].view = "raw" =>
        rd[c].content \in Nat /\ NotOlder(c.resource, rd[c].fp, rd[c].content)

\* A read that owns a future has its fingerprint for good, and the result is as
\* fresh as that.
FuturesFresh ==
    \A c \in Reads :
        /\ rd[c].pc = "stat" => future[c] = None
        /\ future[c] \in Nat => NotOlder(c.resource, rd[c].fp, future[c])

\* Whoever joins a fetch has the path and the fingerprint of its owner.
JoinedAlike ==
    /\ \A m \in Mounts, p \in Paths : \A f \in inflight[m][p] :
          /\ f.owner.resource = p
          /\ rd[f.owner].pc # "stat" /\ f.fp = rd[f.owner].fp /\ future[f.owner] # None
    /\ \A c \in Reads : rd[c].pc = "wait" =>
          /\ rd[c].owner \in Reads /\ rd[c].owner.resource = c.resource
          /\ rd[rd[c].owner].pc # "stat" /\ rd[rd[c].owner].fp = rd[c].fp
          /\ future[rd[c].owner] # None

\* Only a read of a parsed view asks the parsed cache, which nothing keeps fresh.
OnlyParsedViews == \A c \in Reads : rd[c].pc \in {"parsed", "parsed_valid"} => rd[c].view = "parsed"

\* Every file has a first version.
Written == \A p \in Paths : Version(p) >= 1

\* The reads and their futures.
ReadsInv ==
    /\ backend \in [Paths -> Seq(ContentIds)]
    /\ inflight \in [Mounts -> [Paths -> SUBSET [fp : ContentIds, owner : Reads]]]
    /\ future \in [Reads -> Nat \cup {None, Pending, Error}]
    /\ rd \in [Reads -> ReadType]
    /\ FingerprintsPast /\ OnlyParsedViews /\ FetchedFresh /\ FuturesFresh /\ JoinedAlike
    /\ AnswersFresh /\ Written

\* The caches.
EntriesInv ==
    /\ raw \in [Mounts -> [Paths -> RawEntry \cup {None}]]
    /\ parsed \in [Mounts -> [Paths -> Nat \cup {None}]]
    /\ disk \in [Paths -> SUBSET DiskEntry]
    /\ admission \in [Mounts -> [Paths -> Nat]]
    /\ EntriesSound

\* The leases: the invariant of the manager, and none is exclusive.
AllShared == \A r \in Resources, h \in Holders : HeldBy(r, h) => by_resource[r][h].state = "shared"

LeasesInv == Inv /\ AllShared

FInv == LeasesInv /\ ReadsInv /\ EntriesInv

\* A read never meets a conflict: acquire() grants or renews at the first
\* attempt and revokes nobody, so the mounts need no more than one step for it.
NoConflict == \A c \in Reads : InTheWay(c) = {}

----------------------------------------------------------------------------
(* The leases *)

\* What acquire() stores for a mount is a shared lease; the others only go.
LEMMA AcquireStores ==
    ASSUME LeasesInv, NEW c \in Reads, RenewLease(c) \/ GrantLease(c)
    PROVE  /\ by_resource'[c.resource][c.holder] \in Lease
           /\ by_resource'[c.resource][c.holder].state = "shared"
           /\ \A r \in Resources, h \in Holders : ~(r = c.resource /\ h = c.holder) =>
                 by_resource'[r][h] \in {by_resource[r][h], NoLease}
<1>0. c.resource \in Resources /\ c.holder \in Holders /\ c.ttl \in Nat
  BY CallArguments DEF Reads
<1>1. TablesInv /\ now \in Nat /\ generation[c.resource] \in Nat
  BY <1>0, InvTables DEF LeasesInv, Inv, TypeOK
<1>s. c.state = "shared"
  BY FuseAssumption DEF Reads
<1>a. ASSUME NEW l \in Lease, NEW H \in SUBSET Holders, ReplaceLeases(c.resource, H, l),
             l.resource = c.resource, l.holder = c.holder, l.state = "shared"
      PROVE  /\ by_resource'[c.resource][c.holder] \in Lease
             /\ by_resource'[c.resource][c.holder].state = "shared"
             /\ \A r \in Resources, h \in Holders : ~(r = c.resource /\ h = c.holder) =>
                   by_resource'[r][h] \in {by_resource[r][h], NoLease}
  <2>1. Stores(l)
    BY <1>a, <1>1, ReplaceStores
  <2> QED BY <2>1, <1>a DEF Stores
<1>x. Expired(c.resource, now) \in SUBSET Holders
  BY DEF Expired
<1>2. CASE RenewLease(c)
  <2> DEFINE l == [by_resource[c.resource][c.holder] EXCEPT !.expires_at = now + c.ttl]
  <2>1. HeldBy(c.resource, c.holder) /\ by_resource[c.resource][c.holder].state = "shared"
    BY <1>2, <1>s DEF RenewLease, Renews
  <2>2. now + c.ttl \in Nat
    BY <1>0, <1>1
  <2>3. l \in Lease /\ l.resource = c.resource /\ l.holder = c.holder /\ l.state = "shared"
    BY <1>0, <1>1, <2>1, <2>2, RenewedLease
  <2>4. ReplaceLeases(c.resource, Expired(c.resource, now), l)
    BY <1>2 DEF RenewLease
  <2> QED BY <1>a, <1>x, <2>3, <2>4
<1>3. CASE GrantLease(c)
  <2> DEFINE l == [resource |-> c.resource, holder |-> c.holder, state |-> c.state,
                   generation |-> generation[c.resource] + 1, expires_at |-> now + c.ttl]
  <2>1. l \in Lease /\ l.resource = c.resource /\ l.holder = c.holder /\ l.state = "shared"
    BY <1>0, <1>1, <1>s DEF Lease, LeaseStates
  <2>2. ReplaceLeases(c.resource, Expired(c.resource, now), l)
    BY <1>3 DEF GrantLease
  <2> QED BY <1>a, <1>x, <2>1, <2>2
<1> QED BY <1>2, <1>3

\* An operation of a mount removes leases, renews one or grants one, and the
\* leases that stay or come are shared.
LEMMA FStepEffect ==
    ASSUME LeasesInv, [FNext]_allvars
    PROVE  /\ \/ Removes
              \/ \E l \in Lease : Renewal(l)
              \/ \E l \in Lease : NewGrant(l)
           /\ AllShared'
           /\ UNCHANGED <<callbacks, notices, acq>> /\ now' \in Nat
<1>0. TablesInv /\ TypeOK
  BY InvTables DEF LeasesInv, Inv
<1>1. ASSUME UNCHANGED tables PROVE Removes
  BY <1>0, <1>1, SameTables
<1>2. ASSUME Removes PROVE AllShared'
  BY <1>2 DEF LeasesInv, AllShared, Removes, Shrinks, HeldBy
<1>3. ASSUME NEW r \in Resources, NEW H \in SUBSET Holders, Revoke(r, H)
      PROVE  Removes /\ UNCHANGED <<callbacks, notices, acq>> /\ now' \in Nat
  BY <1>0, <1>3, RemoveShrinks DEF Revoke, Removes, TypeOK
<1>4. ASSUME NEW c \in Reads, ValidateLease(c)
      PROVE  Removes /\ UNCHANGED <<callbacks, notices, acq>> /\ now' \in Nat
  <2>1. Expired(c.resource, now) \in SUBSET Holders /\ c.resource \in Resources
    BY CallArguments DEF Expired, Reads
  <2> QED BY <1>0, <1>4, <2>1, RemoveShrinks DEF ValidateLease, EvictExpired, Removes, TypeOK
<1>5. ASSUME NEW c \in Reads, Acquire(c)
      PROVE  /\ (\E l \in Lease : Renewal(l)) \/ (\E l \in Lease : NewGrant(l))
             /\ AllShared'
             /\ UNCHANGED <<callbacks, notices, acq>> /\ now' \in Nat
  <2>1. RenewLease(c) \/ GrantLease(c)
    BY <1>5 DEF Acquire
  <2>2. (\E l \in Lease : Renewal(l)) \/ (\E l \in Lease : NewGrant(l))
    BY <1>0, <2>1, RenewLeaseRenews, GrantLeaseGrants DEF Reads
  <2>3. AllShared'
    BY <2>1, AcquireStores DEF AllShared, LeasesInv, HeldBy
  <2> QED BY <1>0, <1>5, <2>2, <2>3 DEF Acquire, TypeOK
<1>6. ASSUME NEW w \in Writes, RevocationRuns(w)
      PROVE  Removes /\ UNCHANGED <<callbacks, notices, acq>> /\ now' \in Nat
  <2>1. w.path \in Resources
    BY FuseAssumption
  <2> QED BY <1>3, <1>6, <2>1 DEF RevocationRuns
<1>7. CASE Clock
  BY <1>0, <1>1, <1>2, <1>7 DEF Clock, Tick, TypeOK
<1>8. CASE UNCHANGED vars
  BY <1>0, <1>1, <1>2, <1>8 DEF vars, tables, TypeOK
<1>9. ASSUME NEW c \in Reads, ReadStep(c)
      PROVE  UNCHANGED vars \/ ValidateLease(c) \/ Acquire(c)
  BY <1>9 DEF ReadStep, Stat, GetParsed, ServeParsed, CheckValidity, ReadL1, SetValidity,
              JoinFetch, OwnFetch, CaptureGeneration, Fetch, CheckDisk, PutDisk, PutL1, Resolve, AwaitFetch
<1>10. [FNext]_allvars =>
          \/ UNCHANGED vars \/ Clock
          \/ \E c \in Reads : ValidateLease(c) \/ Acquire(c)
          \/ \E w \in Writes : RevocationRuns(w)
  BY <1>9 DEF FNext, allvars, LeaseFails, FetchFails, WriteBackend, WriteInvalidates,
              RevocationLost, CallbackStep
<1> QED BY <1>2, <1>4, <1>5, <1>6, <1>7, <1>8, <1>10

\* The manager of the mounts keeps its invariant.
LEMMA FKeepsLeases ==
    ASSUME LeasesInv, [FNext]_allvars
    PROVE  LeasesInv'
<1>0. TablesInv /\ generation \in [Resources -> Nat]
  BY InvTables DEF LeasesInv, Inv, TypeOK
<1>1. TablesInv' /\ generation' \in [Resources -> Nat]
  BY <1>0, FStepEffect, EffectKeepsTables
<1>2. AllShared' /\ now' \in Nat /\ UNCHANGED <<callbacks, notices, acq>>
  BY FStepEffect
<1>3. CallsInv'
  BY <1>2 DEF LeasesInv, Inv, TypeOK, CallsInv
<1> QED BY <1>1, <1>2, <1>3 DEF LeasesInv, Inv, TypeOK, TablesInv, TablesOK, CallsInv

----------------------------------------------------------------------------
(* The reads *)

FutureType == Nat \cup {None, Pending, Error}
FlightType == [fp : ContentIds, owner : Reads]

\* A step of one read, which takes its fingerprint once.
Moves(c) ==
    /\ rd' \in [Reads -> ReadType]
    /\ \A d \in Reads : d # c => rd'[d] = rd[d]
    /\ rd'[c].view = rd[c].view /\ rd'[c].pc # "stat"
    /\ \/ rd[c].pc # "stat" /\ rd'[c].fp = rd[c].fp /\ rd'[c].seen = rd[c].seen
       \/ rd[c].pc = "stat" /\ SeenAt(c.resource, rd'[c].fp, rd'[c].seen)

\* What such a step may do to the futures and to the registry of fetches.
Resolves(c) ==
    /\ future' \in [Reads -> FutureType]
    /\ \A d \in Reads : d # c => future'[d] = future[d]
    /\ \/ future'[c] = future[c]
       \/ /\ rd[c].pc # "stat" /\ future'[c] # None
          /\ future'[c] \in Nat => NotOlder(c.resource, rd[c].fp, future'[c])

Registers(c) ==
    /\ inflight' \in [Mounts -> [Paths -> SUBSET FlightType]]
    /\ \A m \in Mounts, p \in Paths : \A f \in inflight'[m][p] :
          \/ f \in inflight[m][p]
          \/ f.owner = c /\ p = c.resource /\ f.fp = rd[c].fp /\ rd[c].pc # "stat" /\ future'[c] # None

\* What the read arrives at.
ArrivesFresh(c) ==
    /\ rd'[c].pc \in {"parsed", "parsed_valid"} => rd'[c].view = "parsed"
    /\ rd'[c].pc \in Fetching =>
          rd'[c].content \in Nat /\ NotOlder(c.resource, rd'[c].fp, rd'[c].content)
    /\ rd'[c].pc = "done" /\ rd'[c].content # Error /\ rd'[c].view = "raw" =>
          rd'[c].content \in Nat /\ NotOlder(c.resource, rd'[c].fp, rd'[c].content)
    /\ rd'[c].pc = "wait" =>
          /\ rd'[c].owner \in Reads /\ rd'[c].owner.resource = c.resource
          /\ rd[rd'[c].owner].pc # "stat" /\ rd[rd'[c].owner].fp = rd[c].fp
          /\ future[rd'[c].owner] # None /\ rd[c].pc # "stat"

\* A step of one read with these effects keeps the invariant of all reads: the
\* fingerprint of an owner or of a waiter does not change under the other.
LEMMA ReadMoves ==
    ASSUME ReadsInv, NEW c \in Reads, Moves(c), Resolves(c), Registers(c), ArrivesFresh(c),
           backend' = backend
    PROVE  ReadsInv'
<1>n. ASSUME NEW p, NEW id, NEW x
      PROVE  (SeenAt(p, id, x) <=> (x \in 1..Len(backend'[p]) /\ backend'[p][x] = id))
             /\ (NotOlder(p, id, x) <=> \E v \in 1..Len(backend'[p]) : backend'[p][v] = id /\ v <= x)
  BY DEF SeenAt, NotOlder, Version
<1>1. FingerprintsPast'
  <2> SUFFICES ASSUME NEW d \in Reads, rd'[d].pc # "stat"
               PROVE  SeenAt(d.resource, rd'[d].fp, rd'[d].seen)
    BY <1>n DEF FingerprintsPast, SeenAt, Version
  <2>1. CASE d = c
    BY <2>1 DEF ReadsInv, FingerprintsPast, Moves
  <2>2. CASE d # c
    BY <2>2 DEF ReadsInv, FingerprintsPast, Moves
  <2> QED BY <2>1, <2>2
<1>2. FetchedFresh'
  <2> SUFFICES ASSUME NEW d \in Reads, rd'[d].pc \in Fetching
               PROVE  rd'[d].content \in Nat /\ NotOlder(d.resource, rd'[d].fp, rd'[d].content)
    BY <1>n DEF FetchedFresh, NotOlder, Version
  <2> QED BY DEF ReadsInv, FetchedFresh, Moves, ArrivesFresh
<1>3. AnswersFresh'
  <2> SUFFICES ASSUME NEW d \in Reads, rd'[d].pc = "done", rd'[d].content # Error,
                      rd'[d].view = "raw"
               PROVE  rd'[d].content \in Nat /\ NotOlder(d.resource, rd'[d].fp, rd'[d].content)
    BY <1>n DEF AnswersFresh, NotOlder, Version
  <2> QED BY DEF ReadsInv, AnswersFresh, Moves, ArrivesFresh
<1>4. FuturesFresh'
  <2> SUFFICES ASSUME NEW d \in Reads
               PROVE  /\ rd'[d].pc = "stat" => future'[d] = None
                      /\ future'[d] \in Nat => NotOlder(d.resource, rd'[d].fp, future'[d])
    BY <1>n DEF FuturesFresh, NotOlder, Version
  <2>1. CASE d = c
    <3>1. CASE rd[c].pc = "stat"
      <4>1. future'[c] = None
        BY <3>1 DEF ReadsInv, FuturesFresh, Resolves
      <4> QED BY <2>1, <4>1, FuseAssumption DEF Moves
    <3>2. CASE rd[c].pc # "stat"
      BY <2>1, <3>2 DEF ReadsInv, FuturesFresh, Resolves, Moves
    <3> QED BY <3>1, <3>2
  <2>2. CASE d # c
    BY <2>2 DEF ReadsInv, FuturesFresh, Moves, Resolves
  <2> QED BY <2>1, <2>2
<1>5. ASSUME NEW d \in Reads, rd[d].pc # "stat", future[d] # None
      PROVE  rd'[d].pc # "stat" /\ rd'[d].fp = rd[d].fp /\ future'[d] # None
  BY <1>5 DEF Moves, Resolves
<1>6. JoinedAlike'
  <2>1. ASSUME NEW m \in Mounts, NEW p \in Paths, NEW f \in inflight'[m][p]
        PROVE  /\ f.owner.resource = p
               /\ rd'[f.owner].pc # "stat" /\ f.fp = rd'[f.owner].fp /\ future'[f.owner] # None
    <3>1. CASE f \in inflight[m][p]
      <4>1. f.owner \in Reads
        BY <3>1 DEF ReadsInv
      <4> QED BY <3>1, <4>1, <1>5 DEF ReadsInv, JoinedAlike
    <3>2. CASE f.owner = c /\ p = c.resource /\ f.fp = rd[c].fp /\ rd[c].pc # "stat" /\ future'[c] # None
      BY <3>2 DEF Moves
    <3> QED BY <3>1, <3>2, <2>1 DEF Registers
  <2>2. ASSUME NEW d \in Reads, rd'[d].pc = "wait"
        PROVE  /\ rd'[d].owner \in Reads /\ rd'[d].owner.resource = d.resource
               /\ rd'[rd'[d].owner].pc # "stat" /\ rd'[rd'[d].owner].fp = rd'[d].fp
               /\ future'[rd'[d].owner] # None
    <3>1. CASE d = c
      <4>1. /\ rd'[c].owner \in Reads /\ rd'[c].owner.resource = c.resource
            /\ rd[rd'[c].owner].pc # "stat" /\ rd[rd'[c].owner].fp = rd[c].fp
            /\ future[rd'[c].owner] # None /\ rd'[c].fp = rd[c].fp
        BY <2>2, <3>1 DEF ArrivesFresh, Moves
      <4> QED BY <3>1, <4>1, <1>5
    <3>2. CASE d # c
      <4>1. rd'[d] = rd[d]
        BY <3>2 DEF Moves
      <4>2. /\ rd[d].owner \in Reads /\ rd[d].owner.resource = d.resource
            /\ rd[rd[d].owner].pc # "stat" /\ rd[rd[d].owner].fp = rd[d].fp
            /\ future[rd[d].owner] # None
        BY <2>2, <4>1 DEF ReadsInv, JoinedAlike
      <4> QED BY <4>1, <4>2, <1>5
    <3> QED BY <3>1, <3>2
  <2> QED BY <2>1, <2>2 DEF JoinedAlike
<1>7. OnlyParsedViews'
  BY DEF ReadsInv, OnlyParsedViews, Moves, ArrivesFresh
<1>8. Written'
  BY DEF ReadsInv, Written, Version
<1> QED BY <1>1, <1>2, <1>3, <1>4, <1>6, <1>7, <1>8
        DEF ReadsInv, Moves, Resolves, Registers, FutureType, FlightType

\* A read that leaves the futures and the registry alone.
LEMMA QuietFlight ==
    ASSUME ReadsInv, NEW c \in Reads, UNCHANGED <<future, inflight>>
    PROVE  Resolves(c) /\ Registers(c)
BY DEF ReadsInv, Resolves, Registers, FutureType, FlightType

\* A read whose record is replaced.
LEMMA MovesTo ==
    ASSUME ReadsInv, NEW c \in Reads, NEW r \in ReadType, rd' = [rd EXCEPT ![c] = r],
           r.view = rd[c].view, r.pc # "stat",
           \/ rd[c].pc # "stat" /\ r.fp = rd[c].fp /\ r.seen = rd[c].seen
           \/ rd[c].pc = "stat" /\ SeenAt(c.resource, r.fp, r.seen)
    PROVE  Moves(c) /\ rd'[c] = r
BY DEF ReadsInv, Moves

\* A read that ends, with an error or with fresh content.
LEMMA FinishMoves ==
    ASSUME ReadsInv, NEW c \in Reads, NEW x \in Nat \cup {None, Error}, Finish(c, x),
           rd[c].pc # "stat",
           rd[c].view = "raw" /\ x # Error => x \in Nat /\ NotOlder(c.resource, rd[c].fp, x)
    PROVE  Moves(c) /\ ArrivesFresh(c)
<1> DEFINE r == [NewRead(rd[c].view) EXCEPT !.pc = "done", !.fp = rd[c].fp, !.seen = rd[c].seen,
                                           !.content = x]
<1>0. rd[c] \in ReadType
  BY DEF ReadsInv
<1>1. r \in ReadType /\ r.view = rd[c].view /\ r.pc = "done" /\ r.fp = rd[c].fp
      /\ r.seen = rd[c].seen /\ r.content = x
  BY <1>0 DEF NewRead, ReadType, ReadPCs
<1>2. rd' = [rd EXCEPT ![c] = r]
  BY DEF Finish
<1> HIDE DEF r
<1>3. Moves(c) /\ rd'[c] = r
  BY <1>1, <1>2, MovesTo
<1> QED BY <1>1, <1>3 DEF ArrivesFresh, Fetching

\* A read that goes on, with what it fetched or before it fetched anything.
LEMMA GotoMoves ==
    ASSUME ReadsInv, NEW c \in Reads, NEW pc \in ReadPCs, Goto(c, pc), rd[c].pc # "stat",
           \/ pc \in {"hot", "validate", "acquire", "flight", "capture"}
           \/ pc \in Fetching /\ rd[c].pc \in Fetching
    PROVE  Moves(c) /\ ArrivesFresh(c)
<1> DEFINE r == [rd[c] EXCEPT !.pc = pc]
<1>0. rd[c] \in ReadType
  BY DEF ReadsInv
<1>1. r \in ReadType /\ r.view = rd[c].view /\ r.pc = pc /\ r.fp = rd[c].fp
      /\ r.seen = rd[c].seen /\ r.content = rd[c].content
  BY <1>0 DEF ReadType
<1>2. rd' = [rd EXCEPT ![c] = r]
  BY DEF Goto
<1> HIDE DEF r
<1>3. Moves(c) /\ rd'[c] = r
  BY <1>1, <1>2, MovesTo DEF Fetching
<1>4. pc \in Fetching => rd[c].content \in Nat /\ NotOlder(c.resource, rd[c].fp, rd[c].content)
  BY DEF ReadsInv, FetchedFresh, Fetching
<1> QED BY <1>1, <1>3, <1>4 DEF ArrivesFresh, Fetching

\* Every step of a read keeps the invariant of the reads.
LEMMA ReadKeepsReads ==
    ASSUME FInv, NEW c \in Reads, ReadStep(c) \/ LeaseFails(c) \/ FetchFails(c)
    PROVE  ReadsInv'
<1>0. ReadsInv /\ EntriesInv /\ LeasesInv
  BY DEF FInv
<1>c. c.resource \in Paths /\ c.holder \in Mounts
  BY CallArguments DEF Reads, Paths, Mounts
<1>r. rd[c] \in ReadType
  BY <1>0 DEF ReadsInv
<1>t. rd[c].pc # "stat" => rd[c].fp \in ContentIds
  <2>1. backend[c.resource] \in Seq(ContentIds)
    BY <1>0, <1>c DEF ReadsInv
  <2> QED BY <1>0, <2>1 DEF ReadsInv, FingerprintsPast, SeenAt, Version
<1>q. ASSUME Moves(c), ArrivesFresh(c), UNCHANGED <<backend, future, inflight>>
      PROVE  ReadsInv'
  BY <1>0, <1>q, QuietFlight, ReadMoves
<1>1. CASE Stat(c)
  <2> DEFINE v == Version(c.resource)
             id == backend[c.resource][v]
             r == [rd[c] EXCEPT !.pc = IF rd[c].view = "parsed" THEN "parsed" ELSE "hot",
                                !.fp = id, !.seen = v]
  <2>0. v \in Nat /\ id \in ContentIds /\ SeenAt(c.resource, id, v)
    <3>1. backend[c.resource] \in Seq(ContentIds) /\ Len(backend[c.resource]) >= 1
      BY <1>0, <1>c DEF ReadsInv, Written, Version
    <3> QED BY <3>1 DEF SeenAt, Version
  <2> HIDE DEF id, v
  <2>1. /\ r \in ReadType /\ r.view = rd[c].view /\ r.fp = id /\ r.seen = v
        /\ r.pc \in {"parsed", "hot"} /\ (r.pc = "parsed" => r.view = "parsed")
    BY <1>r, <2>0 DEF ReadType, ReadPCs
  <2>2. rd' = [rd EXCEPT ![c] = r] /\ rd[c].pc = "stat"
    BY <1>1, <1>0 DEF Stat, At, ReadsInv, id, v
  <2> HIDE DEF r
  <2>3. Moves(c) /\ rd'[c] = r
    BY <1>0, <2>0, <2>1, <2>2, MovesTo
  <2>4. ArrivesFresh(c)
    BY <2>1, <2>3 DEF ArrivesFresh, Fetching
  <2> QED BY <1>1, <1>q, <2>3, <2>4 DEF Stat
<1>2. CASE GetParsed(c)
  <2> DEFINE hit == parsed[c.holder][c.resource]
             r == [rd[c] EXCEPT !.pc = IF hit = None THEN "hot" ELSE "parsed_valid", !.content = hit]
  <2>0. hit \in Nat \cup {None} /\ rd[c].view = "parsed" /\ rd[c].pc = "parsed"
    BY <1>0, <1>c, <1>2 DEF EntriesInv, GetParsed, At, ReadsInv, OnlyParsedViews
  <2>1. /\ r \in ReadType /\ r.view = rd[c].view /\ r.fp = rd[c].fp /\ r.seen = rd[c].seen
        /\ r.pc \in {"parsed_valid", "hot"}
    BY <1>r, <2>0 DEF ReadType, ReadPCs
  <2>2. rd' = [rd EXCEPT ![c] = r]
    BY <1>2, <1>0 DEF GetParsed, ReadsInv
  <2> HIDE DEF r
  <2>3. Moves(c) /\ rd'[c] = r
    BY <1>0, <2>0, <2>1, <2>2, MovesTo
  <2>4. ArrivesFresh(c)
    BY <2>0, <2>1, <2>3 DEF ArrivesFresh, Fetching
  <2> QED BY <1>2, <1>q, <2>3, <2>4 DEF GetParsed
<1>3. CASE ServeParsed(c)
  <2>0. rd[c].pc = "parsed_valid" /\ rd[c].view = "parsed" /\ UNCHANGED <<backend, future, inflight>>
    BY <1>0, <1>3 DEF ServeParsed, At, ReadsInv, OnlyParsedViews
  <2>1. CASE Finish(c, rd[c].content)
    <3>1. rd[c].content \in Nat \cup {None, Error}
      BY <1>r DEF ReadType
    <3> QED BY <1>0, <1>q, <2>0, <2>1, <3>1, FinishMoves
  <2>2. CASE rd' = [rd EXCEPT ![c].pc = "hot", ![c].content = None]
    <3> DEFINE r == [rd[c] EXCEPT !.pc = "hot", !.content = None]
    <3>1. r \in ReadType /\ r.view = rd[c].view /\ r.fp = rd[c].fp /\ r.seen = rd[c].seen /\ r.pc = "hot"
      BY <1>r DEF ReadType, ReadPCs
    <3>2. rd' = [rd EXCEPT ![c] = r]
      BY <2>2, <1>0 DEF ReadsInv
    <3> HIDE DEF r
    <3>3. Moves(c) /\ rd'[c] = r
      BY <1>0, <2>0, <3>1, <3>2, MovesTo
    <3>4. ArrivesFresh(c)
      BY <3>1, <3>3 DEF ArrivesFresh, Fetching
    <3> QED BY <1>q, <2>0, <3>3, <3>4
  <2> QED BY <1>3, <2>1, <2>2 DEF ServeParsed
<1>4. CASE CheckValidity(c)
  <2> DEFINE pc == IF c.holder \notin leased THEN "l1_direct"
                   ELSE IF Valid(c) THEN "l1_hot" ELSE "validate"
             free == c.holder \notin leased
             r == [rd[c] EXCEPT !.pc = pc, !.lease = free]
  <2>0. pc \in {"l1_direct", "l1_hot", "validate"} /\ free \in BOOLEAN
    OBVIOUS
  <2>2. rd' = [rd EXCEPT ![c] = r] /\ rd[c].pc = "hot"
    BY <1>4, <1>0 DEF CheckValidity, ReadsInv, At
  <2> HIDE DEF pc, free
  <2>1. /\ r \in ReadType /\ r.view = rd[c].view /\ r.fp = rd[c].fp /\ r.seen = rd[c].seen
        /\ r.pc = pc
    BY <1>r, <2>0 DEF ReadType, ReadPCs
  <2> HIDE DEF r
  <2>3. Moves(c) /\ rd'[c] = r
    BY <1>0, <2>0, <2>1, <2>2, MovesTo
  <2>4. ArrivesFresh(c)
    BY <2>0, <2>1, <2>3 DEF ArrivesFresh, Fetching
  <2> QED BY <1>4, <1>q, <2>3, <2>4 DEF CheckValidity
<1>5. ASSUME NEW pc \in {"l1_hot", "l1_leased", "l1_direct"}, NEW onMiss \in {"validate", "flight"},
             ReadL1(c, pc, onMiss)
      PROVE  ReadsInv'
  <2> DEFINE entry == raw[c.holder][c.resource]
  <2>0. rd[c].pc # "stat" /\ UNCHANGED <<backend, future, inflight>>
    BY <1>5 DEF ReadL1, At
  <2>1. CASE GetContent(c, entry) /\ Finish(c, entry.version)
    <3>1. /\ entry \in RawEntry /\ entry.fp = rd[c].fp
          /\ NotOlder(c.resource, entry.fp, entry.version)
      BY <2>1, <1>0, <1>c DEF EntriesInv, EntriesSound, GetContent
    <3>2. entry.version \in Nat
      BY <3>1 DEF RawEntry
    <3> QED BY <1>0, <1>q, <2>0, <2>1, <3>1, <3>2, FinishMoves
  <2>2. CASE Goto(c, onMiss)
    BY <1>0, <1>q, <2>0, <2>2, GotoMoves DEF ReadPCs
  <2> QED BY <1>5, <2>1, <2>2 DEF ReadL1, Deliver
<1>6. CASE ValidateLease(c)
  <2> DEFINE p == c.resource
             m == c.holder
             held == HeldBy(p, m) /\ ~IsExpired(by_resource[p][m], now)
             x == IF held THEN by_resource[p][m].expires_at ELSE 0
             r == [rd[c] EXCEPT !.pc = IF held THEN "set_validated" ELSE "acquire", !.expires = x]
  <2>0. x \in Nat
    BY <1>0, <1>c DEF LeasesInv, Inv, TypeOK, HeldBy, Lease, Paths, Mounts
  <2> HIDE DEF x
  <2>1. /\ r \in ReadType /\ r.view = rd[c].view /\ r.fp = rd[c].fp /\ r.seen = rd[c].seen
        /\ r.pc \in {"set_validated", "acquire"}
    BY <1>r, <2>0 DEF ReadType, ReadPCs
  <2>2. rd' = [rd EXCEPT ![c] = r] /\ rd[c].pc = "validate"
    BY <1>6, <1>0 DEF ValidateLease, ReadsInv, At, x
  <2> HIDE DEF r
  <2>3. Moves(c) /\ rd'[c] = r
    BY <1>0, <2>1, <2>2, MovesTo
  <2>4. ArrivesFresh(c)
    BY <2>1, <2>3 DEF ArrivesFresh, Fetching
  <2> QED BY <1>6, <1>q, <2>3, <2>4 DEF ValidateLease
<1>7. CASE Acquire(c)
  <2> DEFINE x == by_resource'[c.resource][c.holder].expires_at
             r == [rd[c] EXCEPT !.pc = "set_acquired", !.expires = x]
  <2>0. x \in Nat
    BY <1>0, <1>7, AcquireStores DEF Acquire, Lease
  <2> HIDE DEF x
  <2>1. /\ r \in ReadType /\ r.view = rd[c].view /\ r.fp = rd[c].fp /\ r.seen = rd[c].seen /\ r.pc = "set_acquired"
    BY <1>r, <2>0 DEF ReadType, ReadPCs
  <2>2. rd' = [rd EXCEPT ![c] = r] /\ rd[c].pc = "acquire"
    BY <1>7, <1>0 DEF Acquire, ReadsInv, At, x
  <2> HIDE DEF r
  <2>3. Moves(c) /\ rd'[c] = r
    BY <1>0, <2>1, <2>2, MovesTo
  <2>4. ArrivesFresh(c)
    BY <2>1, <2>3 DEF ArrivesFresh, Fetching
  <2> QED BY <1>7, <1>q, <2>3, <2>4 DEF Acquire
<1>8. CASE LeaseFails(c)
  <2>1. \E pc \in {"acquire", "flight"} : Goto(c, pc)
    BY <1>8 DEF LeaseFails
  <2>2. rd[c].pc # "stat" /\ UNCHANGED <<backend, future, inflight>>
    BY <1>8 DEF LeaseFails
  <2> QED BY <1>0, <1>q, <2>1, <2>2, GotoMoves DEF ReadPCs
<1>9. CASE SetValidity(c)
  <2> DEFINE r == [rd[c] EXCEPT !.pc = IF At(c, "set_validated") THEN "l1_leased" ELSE "flight",
                                !.lease = TRUE, !.expires = 0]
  <2>1. r \in ReadType /\ r.view = rd[c].view /\ r.fp = rd[c].fp /\ r.seen = rd[c].seen /\ r.pc \in {"l1_leased", "flight"}
    BY <1>r DEF ReadType, ReadPCs
  <2>2. rd' = [rd EXCEPT ![c] = r] /\ rd[c].pc # "stat"
    BY <1>9, <1>0 DEF SetValidity, ReadsInv
  <2> HIDE DEF r
  <2>3. Moves(c) /\ rd'[c] = r
    BY <1>0, <2>1, <2>2, MovesTo
  <2>4. ArrivesFresh(c)
    BY <2>1, <2>3 DEF ArrivesFresh, Fetching
  <2> QED BY <1>9, <1>q, <2>3, <2>4 DEF SetValidity
<1>10. ASSUME NEW f \in inflight[c.holder][c.resource], JoinFetch(c, f) PROVE ReadsInv'
  <2> DEFINE r == [rd[c] EXCEPT !.pc = "wait", !.owner = f.owner]
  <2>0. /\ f.owner \in Reads /\ f.fp = rd[c].fp /\ f.owner.resource = c.resource
        /\ rd[f.owner].pc # "stat" /\ f.fp = rd[f.owner].fp /\ future[f.owner] # None
    BY <1>0, <1>c, <1>10 DEF ReadsInv, JoinedAlike, JoinFetch
  <2>1. /\ r \in ReadType /\ r.view = rd[c].view /\ r.fp = rd[c].fp /\ r.seen = rd[c].seen /\ r.pc = "wait"
        /\ r.owner = f.owner
    BY <1>r, <2>0 DEF ReadType, ReadPCs
  <2>2. rd' = [rd EXCEPT ![c] = r] /\ rd[c].pc = "flight"
    BY <1>10, <1>0 DEF JoinFetch, ReadsInv, At
  <2> HIDE DEF r
  <2>3. Moves(c) /\ rd'[c] = r
    BY <1>0, <2>1, <2>2, MovesTo
  <2>4. ArrivesFresh(c)
    BY <2>0, <2>1, <2>2, <2>3 DEF ArrivesFresh, Fetching
  <2> QED BY <1>10, <1>q, <2>3, <2>4 DEF JoinFetch
<1>11. CASE OwnFetch(c)
  <2> DEFINE new == [fp |-> rd[c].fp, owner |-> c]
             fs == (inflight[c.holder][c.resource] \ Registered(c)) \cup {new}
  <2>0. rd[c].pc = "flight" /\ backend' = backend /\ Goto(c, "capture")
    BY <1>11 DEF OwnFetch, At
  <2>1. Moves(c) /\ ArrivesFresh(c)
    BY <1>0, <2>0, GotoMoves DEF ReadPCs
  <2>2. future' = [future EXCEPT ![c] = Pending]
    BY <1>11 DEF OwnFetch
  <2>3. Resolves(c) /\ future'[c] # None
    BY <1>0, <2>0, <2>2, FuseAssumption DEF Resolves, ReadsInv, FutureType
  <2>4. new \in FlightType /\ new.owner = c /\ new.fp = rd[c].fp
    BY <1>t, <2>0 DEF FlightType
  <2>5. inflight' = [inflight EXCEPT ![c.holder][c.resource] = fs]
    BY <1>11 DEF OwnFetch
  <2>6. /\ inflight \in [Mounts -> [Paths -> SUBSET FlightType]]
        /\ \A f \in fs : f \in inflight[c.holder][c.resource] \/ f = new
    BY <1>0 DEF ReadsInv, FlightType
  <2>7. fs \in SUBSET FlightType
    BY <2>4, <2>6, <1>c
  <2> HIDE DEF fs, new
  <2>8. Registers(c)
    BY <1>c, <2>0, <2>3, <2>4, <2>5, <2>6, <2>7 DEF Registers
  <2> QED BY <1>0, <2>0, <2>1, <2>3, <2>8, ReadMoves
<1>12. CASE CaptureGeneration(c)
  <2> DEFINE r == [rd[c] EXCEPT !.pc = "fetch", !.gen = admission[c.holder][c.resource]]
  <2>0. admission[c.holder][c.resource] \in Nat
    BY <1>0, <1>c DEF EntriesInv
  <2>1. r \in ReadType /\ r.view = rd[c].view /\ r.fp = rd[c].fp /\ r.seen = rd[c].seen /\ r.pc = "fetch"
    BY <1>r, <2>0 DEF ReadType, ReadPCs
  <2>2. rd' = [rd EXCEPT ![c] = r] /\ rd[c].pc # "stat"
    BY <1>12, <1>0 DEF CaptureGeneration, ReadsInv, At
  <2> HIDE DEF r
  <2>3. Moves(c) /\ rd'[c] = r
    BY <1>0, <2>1, <2>2, MovesTo
  <2>4. ArrivesFresh(c)
    BY <2>1, <2>3 DEF ArrivesFresh, Fetching
  <2> QED BY <1>12, <1>q, <2>3, <2>4 DEF CaptureGeneration
<1>13. CASE Fetch(c)
  <2> DEFINE hits == {e \in disk[c.resource] : SameKey(c, e)}
  <2>1. PICK v \in IF hits = {} THEN {Version(c.resource)} ELSE {e.version : e \in hits} :
           rd' = [rd EXCEPT ![c].pc = "check_disk", ![c].content = v]
    BY <1>13 DEF Fetch
  <2>2. v \in Nat /\ NotOlder(c.resource, rd[c].fp, v)
    <3>1. CASE hits = {}
      <4>1. backend[c.resource] \in Seq(ContentIds) /\ v = Len(backend[c.resource])
        BY <2>1, <3>1, <1>0, <1>c DEF ReadsInv, Version
      <4>2. SeenAt(c.resource, rd[c].fp, rd[c].seen)
        BY <1>0, <1>13 DEF Fetch, At, ReadsInv, FingerprintsPast
      <4> QED BY <4>1, <4>2 DEF SeenAt, NotOlder, Version
    <3>2. CASE hits # {}
      <4>1. PICK e \in hits : v = e.version
        BY <2>1, <3>2
      <4>2. e \in DiskEntry /\ e.fp = rd[c].fp /\ NotOlder(c.resource, e.fp, e.version)
        BY <1>0, <1>c DEF EntriesInv, EntriesSound, SameKey
      <4> QED BY <4>1, <4>2 DEF DiskEntry
    <3> QED BY <3>1, <3>2
  <2> DEFINE r == [rd[c] EXCEPT !.pc = "check_disk", !.content = v]
  <2>3. /\ r \in ReadType /\ r.view = rd[c].view /\ r.fp = rd[c].fp /\ r.seen = rd[c].seen /\ r.pc = "check_disk"
        /\ r.content = v
    BY <1>r, <2>2 DEF ReadType, ReadPCs
  <2>4. rd' = [rd EXCEPT ![c] = r] /\ rd[c].pc # "stat"
    BY <1>13, <2>1, <1>0 DEF Fetch, ReadsInv, At
  <2> HIDE DEF r
  <2>5. Moves(c) /\ rd'[c] = r
    BY <1>0, <2>3, <2>4, MovesTo
  <2>6. ArrivesFresh(c)
    BY <2>2, <2>3, <2>5 DEF ArrivesFresh, Fetching
  <2> QED BY <1>13, <1>q, <2>5, <2>6 DEF Fetch
<1>14a. CASE CheckDisk(c)
  <2>1. \E pc \in {"put_disk", "put_l1"} : Goto(c, pc)
    BY <1>14a DEF CheckDisk
  <2>2. rd[c].pc = "check_disk" /\ UNCHANGED <<backend, future, inflight>>
    BY <1>14a DEF CheckDisk, At
  <2> QED BY <1>0, <1>q, <2>1, <2>2, GotoMoves DEF ReadPCs, Fetching
<1>14. CASE PutDisk(c)
  <2>1. Goto(c, "put_l1") /\ rd[c].pc = "put_disk" /\ UNCHANGED <<backend, future, inflight>>
    BY <1>14 DEF PutDisk, At
  <2> QED BY <1>0, <1>q, <2>1, GotoMoves DEF ReadPCs, Fetching
<1>15. CASE PutL1(c)
  <2>1. Goto(c, "resolve") /\ rd[c].pc = "put_l1" /\ UNCHANGED <<backend, future, inflight>>
    BY <1>15 DEF PutL1, At
  <2> QED BY <1>0, <1>q, <2>1, GotoMoves DEF ReadPCs, Fetching
<1>u. ASSUME Unregister(c) PROVE Registers(c)
  BY <1>0, <1>c, <1>u DEF Unregister, Registers, ReadsInv, FlightType
<1>16. CASE Resolve(c)
  <2>1. /\ rd[c].pc = "resolve" /\ rd[c].content \in Nat
        /\ NotOlder(c.resource, rd[c].fp, rd[c].content)
        /\ Finish(c, rd[c].content) /\ Unregister(c) /\ backend' = backend
        /\ future' = [future EXCEPT ![c] = rd[c].content]
    BY <1>0, <1>16 DEF Resolve, At, Deliver, ReadsInv, FetchedFresh, Fetching
  <2>2. Moves(c) /\ ArrivesFresh(c)
    BY <1>0, <2>1, FinishMoves
  <2>3. Resolves(c)
    BY <1>0, <2>1, FuseAssumption DEF Resolves, ReadsInv, FutureType
  <2> QED BY <1>0, <1>u, <2>1, <2>2, <2>3, ReadMoves
<1>17. CASE FetchFails(c)
  <2>1. /\ rd[c].pc = "fetch" /\ Finish(c, Error) /\ Unregister(c) /\ backend' = backend
        /\ future' = [future EXCEPT ![c] = Error]
    BY <1>0, <1>17 DEF FetchFails, At
  <2>2. Moves(c) /\ ArrivesFresh(c)
    BY <1>0, <2>1, FinishMoves
  <2>3. Resolves(c)
    BY <1>0, <2>1, FuseAssumption DEF Resolves, ReadsInv, FutureType
  <2> QED BY <1>0, <1>u, <2>1, <2>2, <2>3, ReadMoves
<1>18. CASE AwaitFetch(c)
  <2> DEFINE answer == future[rd[c].owner]
  <2>1. /\ rd[c].pc = "wait" /\ answer # Pending /\ Finish(c, answer)
        /\ UNCHANGED <<backend, future, inflight>>
    BY <1>18 DEF AwaitFetch, At, Deliver
  <2>2. /\ answer \in Nat \cup {Error}
        /\ answer # Error => NotOlder(c.resource, rd[c].fp, answer)
    BY <1>0, <2>1 DEF ReadsInv, JoinedAlike, FuturesFresh
  <2> QED BY <1>0, <1>q, <2>1, <2>2, FinishMoves
<1> QED BY <1>1, <1>2, <1>3, <1>4, <1>5, <1>6, <1>7, <1>8, <1>9, <1>10, <1>11, <1>12, <1>13,
           <1>14a, <1>14, <1>15, <1>16, <1>17, <1>18 DEF ReadStep

----------------------------------------------------------------------------
(* The caches *)

\* The answer of a read is parsed and kept.
LEMMA ParsedKept ==
    ASSUME EntriesInv, NEW c \in Reads, NEW v \in Nat, Deliver(c, v)
    PROVE  parsed' \in [Mounts -> [Paths -> Nat \cup {None}]]
<1>1. c.resource \in Paths /\ c.holder \in Mounts
  BY CallArguments DEF Reads, Paths, Mounts
<1> QED BY <1>1 DEF Deliver, EntriesInv

\* Every step of a read keeps the caches sound.
LEMMA ReadKeepsEntries ==
    ASSUME FInv, NEW c \in Reads, ReadStep(c) \/ LeaseFails(c) \/ FetchFails(c)
    PROVE  EntriesInv'
<1>0. ReadsInv /\ EntriesInv
  BY DEF FInv
<1>c. c.resource \in Paths /\ c.holder \in Mounts
  BY CallArguments DEF Reads, Paths, Mounts
<1>r. rd[c] \in ReadType
  BY <1>0 DEF ReadsInv
<1>u. ASSUME UNCHANGED <<backend, raw, parsed, disk, admission>> PROVE EntriesInv'
  BY <1>0, <1>u DEF EntriesInv, EntriesSound, NotOlder, Version
<1>p. ASSUME UNCHANGED <<backend, raw, disk, admission>>, NEW v \in Nat, Deliver(c, v)
      PROVE  EntriesInv'
  BY <1>0, <1>p, ParsedKept DEF EntriesInv, EntriesSound, NotOlder, Version
<1>1. ASSUME \/ Stat(c) \/ GetParsed(c) \/ ServeParsed(c) \/ CheckValidity(c)
             \/ ValidateLease(c) \/ Acquire(c) \/ LeaseFails(c) \/ SetValidity(c)
             \/ (\E f \in inflight[c.holder][c.resource] : JoinFetch(c, f))
             \/ OwnFetch(c) \/ CaptureGeneration(c) \/ Fetch(c) \/ CheckDisk(c) \/ FetchFails(c)
      PROVE  EntriesInv'
  BY <1>1, <1>u DEF Stat, GetParsed, ServeParsed, CheckValidity, ValidateLease, Acquire,
                    LeaseFails, SetValidity, JoinFetch, OwnFetch, CaptureGeneration, Fetch,
                    CheckDisk, FetchFails
<1>2. ASSUME NEW pc, NEW onMiss, ReadL1(c, pc, onMiss) PROVE EntriesInv'
  <2> DEFINE entry == raw[c.holder][c.resource]
  <2>1. CASE GetContent(c, entry) /\ Deliver(c, entry.version)
    <3>1. entry.version \in Nat
      BY <2>1, <1>0, <1>c DEF EntriesInv, RawEntry, GetContent
    <3> QED BY <1>2, <1>p, <2>1, <3>1 DEF ReadL1
  <2>2. CASE UNCHANGED parsed
    BY <1>2, <1>u, <2>2 DEF ReadL1
  <2> QED BY <1>2, <2>1, <2>2 DEF ReadL1
<1>f. rd[c].pc \in {"put_disk", "put_l1", "resolve"} =>
          /\ rd[c].content \in Nat /\ rd[c].fp \in ContentIds
          /\ NotOlder(c.resource, rd[c].fp, rd[c].content)
  <2>1. backend[c.resource] \in Seq(ContentIds)
    BY <1>0, <1>c DEF ReadsInv
  <2>2. rd[c].pc # "stat" => rd[c].fp \in ContentIds
    BY <1>0, <2>1 DEF ReadsInv, FingerprintsPast, SeenAt, Version
  <2> QED BY <1>0, <2>2 DEF ReadsInv, FetchedFresh, Fetching
<1>3. CASE PutDisk(c)
  <2> DEFINE new == [fp |-> rd[c].fp, view |-> rd[c].view, version |-> rd[c].content]
             kept == {e \in disk[c.resource] : ~SameKey(c, e)}
  <2>1. new \in DiskEntry /\ NotOlder(c.resource, new.fp, new.version)
    BY <1>3, <1>f, <1>r DEF PutDisk, At, DiskEntry, ReadType
  <2>2. disk' = [disk EXCEPT ![c.resource] = kept \cup {new}]
    BY <1>3 DEF PutDisk
  <2> HIDE DEF new
  <2>3. kept \cup {new} \in SUBSET DiskEntry /\ \A e \in kept \cup {new} : NotOlder(c.resource, e.fp, e.version)
    BY <1>0, <1>c, <2>1 DEF EntriesInv, EntriesSound
  <2> HIDE DEF kept
  <2>4. /\ disk' \in [Paths -> SUBSET DiskEntry]
        /\ \A p \in Paths : \A e \in disk'[p] : NotOlder(p, e.fp, e.version)
    BY <1>0, <1>c, <2>2, <2>3 DEF EntriesInv, EntriesSound
  <2> QED BY <1>0, <1>3, <2>4 DEF EntriesInv, EntriesSound, PutDisk, NotOlder, Version
<1>4. CASE PutL1(c)
  <2> DEFINE new == [version |-> rd[c].content, fp |-> rd[c].fp]
  <2>1. new \in RawEntry /\ NotOlder(c.resource, new.fp, new.version)
    BY <1>4, <1>f, <1>r DEF PutL1, At, RawEntry, ReadType
  <2>2. raw' = raw \/ raw' = [raw EXCEPT ![c.holder][c.resource] = new]
    BY <1>4 DEF PutL1
  <2> HIDE DEF new
  <2>3. raw \in [Mounts -> [Paths -> RawEntry \cup {None}]]
    BY <1>0 DEF EntriesInv
  <2>4. raw' \in [Mounts -> [Paths -> RawEntry \cup {None}]]
    BY <1>c, <2>1, <2>2, <2>3
  <2>5. \A m \in Mounts, p \in Paths :
           raw'[m][p] = raw[m][p] \/ (p = c.resource /\ raw'[m][p] = new)
    BY <1>c, <2>2, <2>3
  <2>6. \A m \in Mounts, p \in Paths :
           raw'[m][p] # None => NotOlder(p, raw'[m][p].fp, raw'[m][p].version)
    BY <1>0, <2>1, <2>5 DEF EntriesInv, EntriesSound
  <2> QED BY <1>0, <1>4, <2>4, <2>6 DEF EntriesInv, EntriesSound, PutL1, NotOlder, Version
<1>5. CASE Resolve(c)
  BY <1>5, <1>f, <1>p DEF Resolve, At
<1>6. CASE AwaitFetch(c)
  <2> DEFINE answer == future[rd[c].owner]
  <2>1. CASE UNCHANGED parsed
    BY <1>6, <1>u, <2>1 DEF AwaitFetch
  <2>2. CASE answer # Error /\ Deliver(c, answer)
    <3>1. answer \in Nat
      BY <1>0, <1>6, <2>2 DEF AwaitFetch, At, ReadsInv, JoinedAlike
    <3> QED BY <1>6, <1>p, <2>2, <3>1 DEF AwaitFetch
  <2> QED BY <1>6, <2>1, <2>2 DEF AwaitFetch
<1> QED BY <1>1, <1>2, <1>3, <1>4, <1>5, <1>6 DEF ReadStep

----------------------------------------------------------------------------
(* Invalidations and writes *)

\* An update of a slot outside a table of tables changes nothing.
LEMMA OutsideSlot ==
    ASSUME NEW A, NEW B, NEW T, NEW f \in [A -> [B -> T]], NEW a, NEW b, NEW x, NEW g,
           g = [f EXCEPT ![a][b] = x], ~(a \in A /\ b \in B)
    PROVE  g = f
<1>1. CASE a \notin A
  <2> DEFINE row == [f[a] EXCEPT ![b] = x]
  <2>1. g = [f EXCEPT ![a] = row]
    OBVIOUS
  <2> HIDE DEF row
  <2> QED BY <1>1, <2>1
<1>2. CASE a \in A /\ b \notin B
  <2> DEFINE row == [f[a] EXCEPT ![b] = x]
  <2>0. f[a] \in [B -> T]
    BY <1>2
  <2>1. row = f[a]
    BY <1>2, <2>0
  <2>2. g = [f EXCEPT ![a] = row]
    OBVIOUS
  <2> HIDE DEF row
  <2> QED BY <2>1, <2>2
<1> QED BY <1>1, <1>2

\* An invalidation takes entries and registrations away, on any mount and path
\* (a callback may be told of any).
LEMMA InvalidateKeeps ==
    ASSUME FInv, NEW m, NEW p, NEW step, Invalidate(m, p, step),
           UNCHANGED <<backend, disk, future, rd>>
    PROVE  ReadsInv' /\ EntriesInv'
<1>0. ReadsInv /\ EntriesInv
  BY DEF FInv
<1>1. /\ raw' \in [Mounts -> [Paths -> RawEntry \cup {None}]]
      /\ \A n \in Mounts, q \in Paths : raw'[n][q] = raw[n][q] \/ raw'[n][q] = None
  <2>1. raw' = raw \/ raw' = [raw EXCEPT ![m][p] = None]
    BY DEF Invalidate, DropL1, FenceFetches, ClearValidity
  <2>2. CASE m \in Mounts /\ p \in Paths
    <3>1. raw \in [Mounts -> [Paths -> RawEntry \cup {None}]]
      BY <1>0 DEF EntriesInv
    <3>2. raw' \in [Mounts -> [Paths -> RawEntry \cup {None}]]
      BY <2>1, <2>2, <3>1
    <3>3. \A n \in Mounts, q \in Paths : raw'[n][q] = raw[n][q] \/ raw'[n][q] = None
      BY <2>1, <2>2, <3>1
    <3> QED BY <3>2, <3>3
  <2>3. CASE raw' = raw
    BY <1>0, <2>3 DEF EntriesInv
  <2> QED BY <1>0, <2>1, <2>2, <2>3, OutsideSlot DEF EntriesInv
<1>2. parsed' \in [Mounts -> [Paths -> Nat \cup {None}]]
  <2>1. parsed' = parsed \/ parsed' = [parsed EXCEPT ![m][p] = None]
    BY DEF Invalidate, DropL1, FenceFetches, ClearValidity
  <2>2. CASE m \in Mounts /\ p \in Paths
    BY <1>0, <2>1, <2>2, SMTT(20) DEF EntriesInv
  <2>3. CASE parsed' = parsed
    BY <1>0, <2>3 DEF EntriesInv
  <2> QED BY <1>0, <2>1, <2>2, <2>3, OutsideSlot DEF EntriesInv
<1>3. admission' \in [Mounts -> [Paths -> Nat]]
  <2>1. admission' = admission \/ admission' = [admission EXCEPT ![m][p] = @ + 1]
    BY DEF Invalidate, DropL1, FenceFetches, ClearValidity
  <2>2. CASE m \in Mounts /\ p \in Paths
    BY <1>0, <2>1, <2>2, SMTT(20) DEF EntriesInv
  <2>3. CASE admission' = admission
    BY <1>0, <2>3 DEF EntriesInv
  <2> QED BY <1>0, <2>1, <2>2, <2>3, OutsideSlot DEF EntriesInv
<1>4. /\ inflight' \in [Mounts -> [Paths -> SUBSET [fp : ContentIds, owner : Reads]]]
      /\ \A n \in Mounts, q \in Paths : inflight'[n][q] \subseteq inflight[n][q]
  <2>1. inflight' = inflight \/ inflight' = [inflight EXCEPT ![m][p] = {}]
    BY DEF Invalidate, DropL1, FenceFetches, ClearValidity
  <2>2. inflight \in [Mounts -> [Paths -> SUBSET FlightType]]
    BY <1>0 DEF ReadsInv, FlightType
  <2>3. /\ inflight' \in [Mounts -> [Paths -> SUBSET FlightType]]
        /\ \A n \in Mounts, q \in Paths : inflight'[n][q] = inflight[n][q] \/ inflight'[n][q] = {}
    <3>1. CASE m \in Mounts /\ p \in Paths
      BY <2>1, <2>2, <3>1
    <3>2. CASE inflight' = inflight
      BY <2>2, <3>2
    <3> QED BY <2>1, <2>2, <3>1, <3>2, OutsideSlot
  <2> QED BY <2>3 DEF FlightType
<1>5. EntriesInv'
  BY <1>0, <1>1, <1>2, <1>3 DEF EntriesInv, EntriesSound, NotOlder, Version
<1>6. JoinedAlike'
  BY <1>0, <1>4 DEF ReadsInv, JoinedAlike
<1>7. /\ FingerprintsPast' /\ OnlyParsedViews' /\ FetchedFresh' /\ FuturesFresh'
      /\ AnswersFresh' /\ Written'
  BY <1>0 DEF ReadsInv, FingerprintsPast, OnlyParsedViews, FetchedFresh, FuturesFresh,
              AnswersFresh, Written, SeenAt, NotOlder, Version
<1> QED BY <1>0, <1>4, <1>5, <1>6, <1>7 DEF ReadsInv

\* A write adds a version: those that were stay, with their content ids.
LEMMA WriteKeeps ==
    ASSUME FInv, NEW w \in Writes, WriteBackend(w)
    PROVE  ReadsInv' /\ EntriesInv'
<1>0. ReadsInv /\ EntriesInv
  BY DEF FInv
<1>1. UNCHANGED <<raw, parsed, disk, admission, inflight, future, rd>>
  BY DEF WriteBackend
<1>2. /\ backend' \in [Paths -> Seq(ContentIds)]
      /\ \A p \in Paths : /\ Len(backend[p]) \in Nat /\ Len(backend'[p]) \in Nat
                          /\ Len(backend[p]) <= Len(backend'[p])
                          /\ \A v \in 1..Len(backend[p]) : backend'[p][v] = backend[p][v]
  <2>1. w.path \in Paths /\ backend \in [Paths -> Seq(ContentIds)]
    BY <1>0, FuseAssumption DEF ReadsInv, Paths
  <2>2. PICK id \in ContentIds : backend' = [backend EXCEPT ![w.path] = Append(@, id)]
    BY DEF WriteBackend
  <2> DEFINE s == backend[w.path]
             t == Append(s, id)
  <2>3. s \in Seq(ContentIds)
    BY <2>1
  <2>4. /\ t \in Seq(ContentIds) /\ Len(t) = Len(s) + 1 /\ Len(s) \in Nat
        /\ \A v \in 1..Len(s) : t[v] = s[v]
    BY <2>3
  <2>5. backend' = [backend EXCEPT ![w.path] = t]
    BY <2>2
  <2> HIDE DEF t
  <2>6. backend' \in [Paths -> Seq(ContentIds)]
    BY <2>1, <2>4, <2>5
  <2>7. \A p \in Paths : Len(backend[p]) \in Nat /\ Len(backend'[p]) \in Nat
    BY <2>1, <2>6
  <2>8. \A p \in Paths : backend'[p] = backend[p] \/ (p = w.path /\ backend'[p] = t)
    BY <2>1, <2>5
  <2> QED BY <2>4, <2>6, <2>7, <2>8
<1> DEFINE Later(p, id, x) == \E v \in 1..Len(backend'[p]) : backend'[p][v] = id /\ v <= x
<1>n. ASSUME NEW p \in Paths, NEW id, NEW x
      PROVE  /\ NotOlder(p, id, x) => Later(p, id, x)
             /\ SeenAt(p, id, x) => x \in 1..Len(backend'[p]) /\ backend'[p][x] = id
  <2>1. /\ Len(backend[p]) \in Nat /\ Len(backend'[p]) \in Nat
        /\ Len(backend[p]) <= Len(backend'[p])
        /\ \A v \in 1..Len(backend[p]) : backend'[p][v] = backend[p][v]
    BY <1>2
  <2> QED BY <2>1 DEF NotOlder, SeenAt, Version
<1>c. \A c \in Reads : c.resource \in Paths
  BY CallArguments DEF Reads, Paths
<1>3. FingerprintsPast'
  <2> SUFFICES ASSUME NEW c \in Reads, rd[c].pc # "stat"
               PROVE  rd[c].seen \in 1..Len(backend'[c.resource])
                      /\ backend'[c.resource][rd[c].seen] = rd[c].fp
    BY <1>1 DEF FingerprintsPast, SeenAt, Version
  <2>1. SeenAt(c.resource, rd[c].fp, rd[c].seen)
    BY <1>0 DEF ReadsInv, FingerprintsPast
  <2> QED BY <1>n, <1>c, <2>1
<1>4. EntriesSound'
  <2>1. ASSUME NEW m \in Mounts, NEW p \in Paths, raw[m][p] # None
        PROVE  Later(p, raw[m][p].fp, raw[m][p].version)
    <3>1. NotOlder(p, raw[m][p].fp, raw[m][p].version)
      BY <1>0, <2>1 DEF EntriesInv, EntriesSound
    <3> QED BY <1>n, <3>1
  <2>2. ASSUME NEW p \in Paths, NEW e \in disk[p] PROVE Later(p, e.fp, e.version)
    <3>1. NotOlder(p, e.fp, e.version)
      BY <1>0 DEF EntriesInv, EntriesSound
    <3> QED BY <1>n, <3>1
  <2> QED BY <1>1, <2>1, <2>2 DEF EntriesSound, NotOlder, Version
<1>5. FetchedFresh'
  <2> SUFFICES ASSUME NEW c \in Reads, rd[c].pc \in Fetching
               PROVE  rd[c].content \in Nat /\ Later(c.resource, rd[c].fp, rd[c].content)
    BY <1>1 DEF FetchedFresh, NotOlder, Version
  <2>1. rd[c].content \in Nat /\ NotOlder(c.resource, rd[c].fp, rd[c].content)
    BY <1>0 DEF ReadsInv, FetchedFresh
  <2> QED BY <1>n, <1>c, <2>1
<1>6. AnswersFresh'
  <2> SUFFICES ASSUME NEW c \in Reads, rd[c].pc = "done", rd[c].content # Error, rd[c].view = "raw"
               PROVE  rd[c].content \in Nat /\ Later(c.resource, rd[c].fp, rd[c].content)
    BY <1>1 DEF AnswersFresh, NotOlder, Version
  <2>1. rd[c].content \in Nat /\ NotOlder(c.resource, rd[c].fp, rd[c].content)
    BY <1>0 DEF ReadsInv, AnswersFresh
  <2> QED BY <1>n, <1>c, <2>1
<1>7. FuturesFresh'
  <2> SUFFICES ASSUME NEW c \in Reads
               PROVE  /\ rd[c].pc = "stat" => future[c] = None
                      /\ future[c] \in Nat => Later(c.resource, rd[c].fp, future[c])
    BY <1>1 DEF FuturesFresh, NotOlder, Version
  <2>1. /\ rd[c].pc = "stat" => future[c] = None
        /\ future[c] \in Nat => NotOlder(c.resource, rd[c].fp, future[c])
    BY <1>0 DEF ReadsInv, FuturesFresh
  <2> QED BY <1>n, <1>c, <2>1
<1>8. JoinedAlike' /\ OnlyParsedViews'
  BY <1>0, <1>1 DEF ReadsInv, JoinedAlike, OnlyParsedViews
<1>9. Written'
  BY <1>0, <1>2 DEF ReadsInv, Written, Version
<1> QED BY <1>0, <1>1, <1>2, <1>3, <1>4, <1>5, <1>6, <1>7, <1>8, <1>9 DEF ReadsInv, EntriesInv

\* The three parts together are inductive.
LEMMA FInvInductive ==
    /\ FInit => FInv
    /\ FInv /\ [FNext]_allvars => FInv'
<1>1. ASSUME FInit PROVE FInv
  <2>1. LeasesInv
    BY <1>1, InvInductive DEF FInit, LeasesInv, AllShared, Init, HeldBy
  <2>2. EntriesInv
    BY <1>1 DEF FInit, EntriesInv, EntriesSound
  <2>3. PICK s \in Setups : rd = [c \in Reads |-> NewRead(s.view[c])]
    BY <1>1 DEF FInit
  <2>4. /\ rd \in [Reads -> ReadType]
        /\ \A c \in Reads : rd[c].pc = "stat"
    <3>1. \A c \in Reads : s.view[c] \in {"raw", "parsed"}
      BY FuseAssumption DEF Reads
    <3>2. \A c \in Reads : NewRead(s.view[c]) \in ReadType /\ NewRead(s.view[c]).pc = "stat"
      BY <3>1 DEF NewRead, ReadType, ReadPCs
    <3> QED BY <2>3, <3>2
  <2>5. /\ inflight \in [Mounts -> [Paths -> SUBSET [fp : ContentIds, owner : Reads]]]
        /\ \A m \in Mounts, p \in Paths : inflight[m][p] = {}
        /\ future \in [Reads -> Nat \cup {None, Pending, Error}]
        /\ \A c \in Reads : future[c] = None
    BY <1>1 DEF FInit
  <2>6. backend \in [Paths -> Seq(ContentIds)] /\ Written
    <3>1. <<FirstId>> \in Seq(ContentIds) /\ Len(<<FirstId>>) = 1
      BY FuseAssumption
    <3> QED BY <1>1, <3>1 DEF FInit, Written, Version
  <2>7. FingerprintsPast /\ OnlyParsedViews /\ FetchedFresh /\ AnswersFresh
    BY <2>4 DEF FingerprintsPast, OnlyParsedViews, FetchedFresh, Fetching, AnswersFresh
  <2>8. FuturesFresh /\ JoinedAlike
    BY <2>4, <2>5, FuseAssumption DEF FuturesFresh, JoinedAlike
  <2> QED BY <2>1, <2>2, <2>4, <2>5, <2>6, <2>7, <2>8 DEF FInv, ReadsInv
<1>2. ASSUME FInv, [FNext]_allvars PROVE FInv'
  <2>0. LeasesInv'
    BY <1>2, FKeepsLeases DEF FInv
  <2>u. ASSUME UNCHANGED <<backend, raw, parsed, disk, admission, inflight, future, rd>>
        PROVE  ReadsInv' /\ EntriesInv'
    BY <1>2, <2>u DEF FInv, ReadsInv, EntriesInv, EntriesSound, FingerprintsPast, OnlyParsedViews,
                      FetchedFresh, FuturesFresh, JoinedAlike, AnswersFresh, Written, SeenAt,
                      NotOlder, Version
  <2>1. ASSUME NEW c \in Reads, ReadStep(c) \/ LeaseFails(c) \/ FetchFails(c)
        PROVE  ReadsInv' /\ EntriesInv'
    BY <1>2, <2>1, ReadKeepsReads, ReadKeepsEntries
  <2>2. ASSUME NEW w \in Writes, WriteBackend(w) PROVE ReadsInv' /\ EntriesInv'
    BY <1>2, <2>2, WriteKeeps
  <2>3. ASSUME NEW w \in Writes, WriteInvalidates(w) PROVE ReadsInv' /\ EntriesInv'
    BY <1>2, <2>3, InvalidateKeeps DEF WriteInvalidates
  <2>4. ASSUME NEW w \in Writes, RevocationRuns(w) \/ RevocationLost(w)
        PROVE  ReadsInv' /\ EntriesInv'
    BY <2>4, <2>u DEF RevocationRuns, RevocationLost
  <2>5. ASSUME NEW t \in tells, CallbackStep(t) PROVE ReadsInv' /\ EntriesInv'
    BY <1>2, <2>5, InvalidateKeeps DEF CallbackStep
  <2>6. ASSUME Clock PROVE ReadsInv' /\ EntriesInv'
    BY <2>6, <2>u DEF Clock, fvars
  <2>7. ASSUME UNCHANGED allvars PROVE ReadsInv' /\ EntriesInv'
    BY <2>7, <2>u DEF allvars, fvars
  <2>8. ReadsInv' /\ EntriesInv'
    BY <1>2, <2>1, <2>2, <2>3, <2>4, <2>5, <2>6, <2>7 DEF FNext
  <2> QED BY <2>0, <2>8 DEF FInv
<1> QED BY <1>1, <1>2

----------------------------------------------------------------------------
(* The theorems *)

\* The inductive invariant of the mounts holds in every reachable state.
THEOREM FuseInvariant == FSpec => []FInv
BY FInvInductive, PTL DEF FSpec

\* Of a file no two versions of which have had the same content id, a read
\* answered by raw content never returns a version older than the one it found
\* when it began, whatever writes, lost revocations, fenced fetches and failed
\* leases come between, with a lease manager and without one.
THEOREM FuseRawReadsFresh == FSpec => []RawReadsFresh
<1>1. FInv => RawReadsFresh
  <2> SUFFICES ASSUME FInv, NEW c \in Reads, rd[c].pc = "done", rd[c].content # Error,
                      rd[c].view = "raw", IsInjective(backend[c.resource])
               PROVE  rd[c].content >= rd[c].seen
    BY DEF RawReadsFresh
  <2> DEFINE s == backend[c.resource]
  <2>1. s \in Seq(ContentIds) /\ rd[c].seen \in 1..Len(s) /\ s[rd[c].seen] = rd[c].fp
    BY CallArguments DEF FInv, ReadsInv, FingerprintsPast, SeenAt, Version, Reads, Paths
  <2>2. PICK v \in 1..Len(s) : s[v] = rd[c].fp /\ v <= rd[c].content
    BY DEF FInv, ReadsInv, AnswersFresh, NotOlder, Version
  <2>3. DOMAIN s = 1..Len(s)
    BY <2>1
  <2>4. v = rd[c].seen
    BY <2>1, <2>2, <2>3 DEF IsInjective
  <2> QED BY <2>2, <2>4
<1> QED BY <1>1, FuseInvariant, PTL

\* No entry of the content caches is older than the first version that had the
\* content id it is filed under.
THEOREM FuseEntriesSound == FSpec => []EntriesSound
<1>1. FInv => EntriesSound
  BY DEF FInv, EntriesInv
<1> QED BY <1>1, FuseInvariant, PTL

\* The mounts never meet a lease conflict, so the one-step Acquire of this
\* specification loses no behaviour of acquire().
THEOREM FuseNoConflict == FSpec => []NoConflict
<1>1. FInv => NoConflict
  BY FuseAssumption, CallArguments
     DEF FInv, LeasesInv, AllShared, NoConflict, InTheWay, Conflicts, IsCompatible, Reads
<1> QED BY <1>1, FuseInvariant, PTL

\* The lease manager of the mounts, driven by reads, writes and the clock,
\* implements the abstract lease service.
THEOREM FuseLeaseRefinement == FSpec => ImplementsLeaseService
<1>1. FInit => Service!SInit
  <2> SUFFICES ASSUME FInit PROVE Service!SInit
    OBVIOUS
  <2>1. Held = {}
    BY HeldMembers DEF FInit, Init
  <2> QED BY <2>1 DEF FInit, Init, Service!SInit
<1>2. FInv /\ [FNext]_allvars => [Service!SNext]_(Service!svars)
  <2> SUFFICES ASSUME FInv, [FNext]_allvars PROVE Service!SNext
    OBVIOUS
  <2>0. TablesInv /\ generation \in [Resources -> Nat] /\ LeasesInv
    BY InvTables DEF FInv, LeasesInv, Inv, TypeOK
  <2> QED BY <2>0, FStepEffect, RemovesDrops, RenewalRenews, NewGrantGrants
<1> QED BY <1>1, <1>2, FuseInvariant, PTL DEF FSpec, ImplementsLeaseService, Service!SSpec
=============================================================================
