----------------------------- MODULE FuseCache -----------------------------
(* The read and write paths of the FUSE mounts (nexus/fuse): get_file_content *)
(* with its content cache (L1), parsed cache, disk cache (L2), shared fetches  *)
(* and admission generations, over the leases of LeaseManager.  Mounts are the *)
(* lease holders, and a read is a call of acquire with the state "shared".     *)
(*                                                                             *)
(* Content is its version, a number the code does not have.  What the caches   *)
(* compare is the fingerprint, the content id of the metadata, and nothing     *)
(* makes that change with the content: a path-addressed backend answers with   *)
(* its own path, the same for ever, and a content hash comes back when the     *)
(* content does.  So a write gives its version any content id, new or not.     *)
(*                                                                             *)
(* Every lock-protected access to a cache, every lease operation and every     *)
(* backend call is a step, so reads, writes and revocation callbacks           *)
(* interleave between any two of them.                                         *)
(*                                                                             *)
(* Left out: files without a fingerprint (their entries only live by a TTL),   *)
(* attribute and listing caches, evictions, contents over max_drain_bytes      *)
(* (which no cache keeps), readahead, events, closing of a mount.              *)
EXTENDS LeaseManager, Sequences, Functions

CONSTANTS
    Setups,   \* what may be run: [view of every read, mounts with a lease manager]
    Writes,   \* the write calls that can be made: [mount, path]
    ContentIds, \* what the backends may report as the content id of a version
    FirstId,  \* the content id of the first version of every file
    MaxVersion, \* bound on the versions of a file
    None,     \* an absent cache entry or answer
    Pending,  \* a future that is not done
    Error     \* the outcome of a fetch that raised

\* Mounts only ask for shared leases (_acquire_read_lease).
ASSUME FuseAssumption ==
    /\ \A c \in Calls : c.state = "shared"
    /\ Setups \subseteq [view : [Calls -> {"raw", "parsed"}], leased : SUBSET Holders]
    /\ Writes \subseteq [mount : Holders, path : Resources]
    /\ FirstId \in ContentIds
    /\ MaxVersion \in Nat
    /\ None \notin Nat /\ Pending \notin Nat /\ Error \notin Nat
    /\ None # Pending /\ None # Error /\ Pending # Error

VARIABLES
    leased,    \* the mounts that have a lease manager
    backend,   \* [path]: the content ids of the versions so far; the last is current
    raw,       \* [mount][path]: L1 content [version, fp], or None
    parsed,    \* [mount][path]: version of the parsed content, or None
    disk,      \* [path]: L2 entries, a set of [fp, view, version]
    admission, \* [mount][path]: generation bumped by every invalidation
    validity,  \* [mount][path]: the lease expiry the mount relies on; 0 is none
    inflight,  \* [mount][path]: fetches registered, a set of [fp, owner]
    future,    \* [read]: the future this read owns: None, Pending, Error or a version
    rd,        \* [read]: the state of a read
    wr,        \* [write]: the steps of the handler still to do
    tells      \* callbacks under way: [mount, path, todo]

fvars == <<leased, backend, raw, parsed, disk, admission, validity, inflight, future, rd, wr, tells>>
allvars == <<vars, fvars>>

Mounts == Holders
Paths == Resources
Reads == Calls

\* What the write handler does once the backend has the new version:
\* invalidate_file, and then invalidate_and_revoke (all that truncate does), which
\* invalidates the file, clears the validity and posts the revocation.
AfterWrite == <<"l1", "gen", "l1", "gen", "validity", "revoke">>

\* What a revocation callback does on the mount that lost its lease.
OnRevocation == <<"validity", "l1", "gen">>

\* A read: fp is the fingerprint it expects.  The version that was current at its
\* stat (seen) is for the properties, the code knows nothing of it.
NewRead(view) ==
    [pc |-> "stat", view |-> view, fp |-> None, seen |-> 0, content |-> None, lease |-> FALSE,
     expires |-> 0, gen |-> 0, owner |-> None]

----------------------------------------------------------------------------
FInit ==
    /\ Init
    /\ backend = [p \in Paths |-> <<FirstId>>]
    /\ raw = [m \in Mounts |-> [p \in Paths |-> None]]
    /\ parsed = [m \in Mounts |-> [p \in Paths |-> None]]
    /\ disk = [p \in Paths |-> {}]
    /\ admission = [m \in Mounts |-> [p \in Paths |-> 0]]
    /\ validity = [m \in Mounts |-> [p \in Paths |-> 0]]
    /\ inflight = [m \in Mounts |-> [p \in Paths |-> {}]]
    /\ future = [c \in Reads |-> None]
    /\ \E s \in Setups :
          /\ leased = s.leased
          /\ rd = [c \in Reads |-> NewRead(s.view[c])]
    /\ wr = [w \in Writes |-> <<"backend">> \o AfterWrite]
    /\ tells = {}

----------------------------------------------------------------------------
(* Reads *)

Version(p) == Len(backend[p])

At(c, pc) == rd[c].pc = pc

Goto(c, pc) == rd' = [rd EXCEPT ![c].pc = pc]

\* What was current at the stat stays, for the properties.
Finish(c, answer) ==
    rd' = [rd EXCEPT ![c] = [NewRead(rd[c].view) EXCEPT
               !.pc = "done", !.fp = rd[c].fp, !.seen = rd[c].seen,
               !.content = answer]]

\* Answer with content; a parsed view is parsed again and cached on the way,
\* without a look at the admission generation.
Deliver(c, version) ==
    /\ Finish(c, version)
    /\ parsed' = IF rd[c].view = "parsed"
                   THEN [parsed EXCEPT ![c.holder][c.resource] = version]
                   ELSE parsed

\* The metadata is read first; its content id is the fingerprint to expect.
Stat(c) ==
    /\ At(c, "stat")
    /\ rd' = [rd EXCEPT ![c].pc = IF rd[c].view = "parsed" THEN "parsed" ELSE "hot",
                        ![c].fp = backend[c.resource][Version(c.resource)],
                        ![c].seen = Version(c.resource)]
    /\ UNCHANGED <<vars, leased, backend, raw, parsed, disk, admission, validity, inflight, future, wr, tells>>

GetParsed(c) ==
    LET hit == parsed[c.holder][c.resource] IN
    /\ At(c, "parsed")
    /\ rd' = [rd EXCEPT ![c].pc = IF hit = None THEN "hot" ELSE "parsed_valid",
                        ![c].content = hit]
    /\ UNCHANGED <<vars, leased, backend, raw, parsed, disk, admission, validity, inflight, future, wr, tells>>

Valid(c) == now < validity[c.holder][c.resource]

ServeParsed(c) ==
    /\ At(c, "parsed_valid")
    /\ IF Valid(c) THEN Finish(c, rd[c].content)
                   ELSE rd' = [rd EXCEPT ![c].pc = "hot", ![c].content = None]
    /\ UNCHANGED <<vars, leased, backend, raw, parsed, disk, admission, validity, inflight, future, wr, tells>>

\* Without a lease manager nothing is ever valid; L1 is then asked directly, and
\* what is fetched may always be kept.
CheckValidity(c) ==
    /\ At(c, "hot")
    /\ rd' = [rd EXCEPT ![c].pc = IF c.holder \notin leased THEN "l1_direct"
                                 ELSE IF Valid(c) THEN "l1_hot" ELSE "validate",
                        ![c].lease = c.holder \notin leased]
    /\ UNCHANGED <<vars, leased, backend, raw, parsed, disk, admission, validity, inflight, future, wr, tells>>

\* L1 answers only for the fingerprint the reader expects.
GetContent(c, entry) == entry # None /\ entry.fp = rd[c].fp

ReadL1(c, pc, onMiss) ==
    LET entry == raw[c.holder][c.resource] IN
    /\ At(c, pc)
    /\ \/ GetContent(c, entry) /\ Deliver(c, entry.version)
       \/ ~GetContent(c, entry) /\ Goto(c, onMiss) /\ UNCHANGED parsed
    /\ UNCHANGED <<vars, leased, backend, raw, disk, admission, validity, inflight, future, wr, tells>>

\* The callbacks of the leases removed from r: only the losing mount acts.
Tell(r, H) == {[mount |-> h, path |-> r, todo |-> OnRevocation] : h \in {k \in H : HeldBy(r, k)}}

\* validate() evicts what has expired and tells the holders, then answers.
ValidateLease(c) ==
    LET p == c.resource
        m == c.holder
        held == HeldBy(p, m) /\ ~IsExpired(by_resource[p][m], now) IN
    /\ At(c, "validate")
    /\ EvictExpired(p, now)
    /\ tells' = tells \cup Tell(p, Expired(p, now))
    /\ rd' = [rd EXCEPT ![c].pc = IF held THEN "set_validated" ELSE "acquire",
                        ![c].expires = IF held THEN by_resource[p][m].expires_at ELSE 0]
    /\ UNCHANGED <<leased, backend, raw, parsed, disk, admission, validity, inflight, future, wr>>

\* All leases of the mounts are shared, so the first attempt meets no conflict:
\* the lease is renewed or granted.
Acquire(c) ==
    /\ At(c, "acquire")
    /\ RenewLease(c) \/ GrantLease(c)
    /\ rd' = [rd EXCEPT ![c].pc = "set_acquired",
                        ![c].expires = by_resource'[c.resource][c.holder].expires_at]
    /\ UNCHANGED <<callbacks, notices, acq, now>>
    /\ UNCHANGED <<leased, backend, raw, parsed, disk, admission, validity, inflight, future, wr, tells>>

\* Any error in validate or acquire counts as no lease: the read goes on, and
\* its result is not kept in L1.
LeaseFails(c) ==
    /\ rd[c].pc \in {"validate", "acquire"}
    /\ Goto(c, IF At(c, "validate") THEN "acquire" ELSE "flight")
    /\ UNCHANGED <<vars, leased, backend, raw, parsed, disk, admission, validity, inflight, future, wr, tells>>

\* The expiry of the grant is recorded by the reader's thread, after the lease
\* manager answered.  A lease that was validated is worth a look at L1; one that
\* was just acquired is not.
SetValidity(c) ==
    /\ rd[c].pc \in {"set_validated", "set_acquired"}
    /\ validity' = [validity EXCEPT ![c.holder][c.resource] = rd[c].expires]
    /\ rd' = [rd EXCEPT ![c].pc = IF At(c, "set_validated") THEN "l1_leased" ELSE "flight",
                        ![c].lease = TRUE, ![c].expires = 0]
    /\ UNCHANGED <<vars, leased, backend, raw, parsed, disk, admission, inflight, future, wr, tells>>

\* Mutant: the registry is keyed by the path alone.
MutJoinAnyFingerprint(c, f) ==
    /\ At(c, "flight")
    /\ f \in inflight[c.holder][c.resource]
    /\ future[f.owner] = Pending
    /\ rd' = [rd EXCEPT ![c].pc = "wait", ![c].owner = f.owner]
    /\ UNCHANGED <<vars, leased, backend, raw, parsed, disk, admission, validity, inflight, future, wr, tells>>

\* One fetch per path and fingerprint: join the one under way, or own a new one.
JoinFetch(c, f) ==
    /\ At(c, "flight")
    /\ f \in inflight[c.holder][c.resource]
    /\ f.fp = rd[c].fp
    /\ future[f.owner] = Pending
    /\ rd' = [rd EXCEPT ![c].pc = "wait", ![c].owner = f.owner]
    /\ UNCHANGED <<vars, leased, backend, raw, parsed, disk, admission, validity, inflight, future, wr, tells>>

Registered(c) == {f \in inflight[c.holder][c.resource] : f.fp = rd[c].fp}

OwnFetch(c) ==
    /\ At(c, "flight")
    /\ \A f \in Registered(c) : future[f.owner] # Pending
    /\ inflight' = [inflight EXCEPT ![c.holder][c.resource] =
           (@ \ Registered(c)) \cup {[fp |-> rd[c].fp, owner |-> c]}]
    /\ future' = [future EXCEPT ![c] = Pending]
    /\ Goto(c, "capture")
    /\ UNCHANGED <<vars, leased, backend, raw, parsed, disk, admission, validity, wr, tells>>

CaptureGeneration(c) ==
    /\ At(c, "capture")
    /\ rd' = [rd EXCEPT ![c].pc = "fetch", ![c].gen = admission[c.holder][c.resource]]
    /\ UNCHANGED <<vars, leased, backend, raw, parsed, disk, admission, validity, inflight, future, wr, tells>>

\* The key of an L2 entry names the fingerprint and the view.
SameKey(c, e) == e.fp = rd[c].fp /\ e.view = rd[c].view

\* L2 by that key, else the backend, which may have moved on since the stat.
Fetch(c) ==
    LET hits == {e \in disk[c.resource] : SameKey(c, e)} IN
    /\ At(c, "fetch")
    /\ \E v \in IF hits = {} THEN {Version(c.resource)} ELSE {e.version : e \in hits} :
           rd' = [rd EXCEPT ![c].pc = "check_disk", ![c].content = v]
    /\ UNCHANGED <<vars, leased, backend, raw, parsed, disk, admission, validity, inflight, future, wr, tells>>

Admissible(c) == admission[c.holder][c.resource] = rd[c].gen

\* The disk cache is asked for admission first and filled afterwards: an
\* invalidation may come in between.
CheckDisk(c) ==
    /\ At(c, "check_disk")
    /\ Goto(c, IF Admissible(c) THEN "put_disk" ELSE "put_l1")
    /\ UNCHANGED <<vars, leased, backend, raw, parsed, disk, admission, validity, inflight, future, wr, tells>>

PutDisk(c) ==
    /\ At(c, "put_disk")
    /\ disk' = [disk EXCEPT ![c.resource] = {e \in @ : ~SameKey(c, e)}
                    \cup {[fp |-> rd[c].fp, view |-> rd[c].view, version |-> rd[c].content]}]
    /\ Goto(c, "put_l1")
    /\ UNCHANGED <<vars, leased, backend, raw, parsed, admission, validity, inflight, future, wr, tells>>

\* Mutant: the entry is filed under the fingerprint of the moment.
MutPutCurrentFingerprint(c) ==
    /\ At(c, "put_l1")
    /\ raw' = IF rd[c].lease /\ Admissible(c)
                THEN [raw EXCEPT ![c.holder][c.resource] =
                          [version |-> rd[c].content, fp |-> backend[c.resource][Version(c.resource)]]]
                ELSE raw
    /\ Goto(c, "resolve")
    /\ UNCHANGED <<vars, leased, backend, parsed, disk, admission, validity, inflight, future, wr, tells>>

\* cache_content_if_valid: the check and the put under one lock.
PutL1(c) ==
    /\ At(c, "put_l1")
    /\ raw' = IF rd[c].lease /\ Admissible(c)
                THEN [raw EXCEPT ![c.holder][c.resource] =
                          [version |-> rd[c].content, fp |-> rd[c].fp]]
                ELSE raw
    /\ Goto(c, "resolve")
    /\ UNCHANGED <<vars, leased, backend, parsed, disk, admission, validity, inflight, future, wr, tells>>

\* The owner sets the result and takes back its own registration (one that is
\* done counts as absent, so the two are one step).
Unregister(c) ==
    inflight' = [inflight EXCEPT ![c.holder][c.resource] = {f \in @ : f.owner # c}]

\* Mutant: an owner that was fenced forgets those who joined it.
MutResolveOnlyIfAdmitted(c) ==
    /\ At(c, "resolve")
    /\ future' = IF Admissible(c) THEN [future EXCEPT ![c] = rd[c].content] ELSE future
    /\ Unregister(c)
    /\ Deliver(c, rd[c].content)
    /\ UNCHANGED <<vars, leased, backend, raw, disk, admission, validity, wr, tells>>

Resolve(c) ==
    /\ At(c, "resolve")
    /\ future' = [future EXCEPT ![c] = rd[c].content]
    /\ Unregister(c)
    /\ Deliver(c, rd[c].content)
    /\ UNCHANGED <<vars, leased, backend, raw, disk, admission, validity, wr, tells>>

\* The fetch raised: those who joined it get the error too.
FetchFails(c) ==
    /\ At(c, "fetch")
    /\ future' = [future EXCEPT ![c] = Error]
    /\ Unregister(c)
    /\ Finish(c, Error)
    /\ UNCHANGED <<vars, leased, backend, raw, parsed, disk, admission, validity, wr, tells>>

AwaitFetch(c) ==
    LET answer == future[rd[c].owner] IN
    /\ At(c, "wait")
    /\ answer # Pending
    /\ IF answer = Error
         THEN Finish(c, Error) /\ UNCHANGED parsed
         ELSE Deliver(c, answer)
    /\ UNCHANGED <<vars, leased, backend, raw, disk, admission, validity, inflight, future, wr, tells>>

----------------------------------------------------------------------------
(* Invalidation *)

DropL1(m, p) ==
    /\ raw' = [raw EXCEPT ![m][p] = None]
    /\ parsed' = [parsed EXCEPT ![m][p] = None]
    /\ UNCHANGED <<admission, inflight, validity>>

\* New readers start a fetch of their own; a fetch under way is not admitted.
FenceFetches(m, p) ==
    /\ admission' = [admission EXCEPT ![m][p] = @ + 1]
    /\ inflight' = [inflight EXCEPT ![m][p] = {}]
    /\ UNCHANGED <<raw, parsed, validity>>

ClearValidity(m, p) ==
    /\ validity' = [validity EXCEPT ![m][p] = 0]
    /\ UNCHANGED <<raw, parsed, admission, inflight>>

Invalidate(m, p, step) ==
    \/ step = "l1" /\ DropL1(m, p)
    \/ step = "gen" /\ FenceFetches(m, p)
    \/ step = "validity" /\ ClearValidity(m, p)

\* A new version; its content id may be one the file has had before.
WriteBackend(w) ==
    /\ wr[w] # <<>> /\ Head(wr[w]) = "backend"
    /\ Version(w.path) < MaxVersion
    /\ \E id \in ContentIds : backend' = [backend EXCEPT ![w.path] = Append(@, id)]
    /\ wr' = [wr EXCEPT ![w] = Tail(@)]
    /\ UNCHANGED <<vars, leased, raw, parsed, disk, admission, validity, inflight, future, rd, tells>>

WriteInvalidates(w) ==
    /\ wr[w] # <<>>
    /\ Invalidate(w.mount, w.path, Head(wr[w]))
    /\ wr' = [wr EXCEPT ![w] = Tail(@)]
    /\ UNCHANGED <<vars, leased, backend, disk, future, rd, tells>>

\* The posted revocation runs on the mount's event loop, some time later.
RevocationRuns(w) ==
    /\ wr[w] # <<>> /\ Head(wr[w]) = "revoke"
    /\ w.mount \in leased
    /\ Revoke(w.path, Holders)
    /\ tells' = tells \cup Tell(w.path, Holders)
    /\ wr' = [wr EXCEPT ![w] = Tail(@)]
    /\ UNCHANGED <<leased, backend, raw, parsed, disk, admission, validity, inflight, future, rd>>

\* Nobody looks at the future of a fire-and-forget call: an error in it is lost.
\* A mount without a lease manager revokes nothing.
RevocationLost(w) ==
    /\ wr[w] # <<>> /\ Head(wr[w]) = "revoke"
    /\ wr' = [wr EXCEPT ![w] = Tail(@)]
    /\ UNCHANGED <<vars, leased, backend, raw, parsed, disk, admission, validity, inflight, future, rd, tells>>

CallbackStep(t) ==
    /\ Invalidate(t.mount, t.path, Head(t.todo))
    /\ tells' = (tells \ {t}) \cup
           (IF Len(t.todo) = 1 THEN {} ELSE {[t EXCEPT !.todo = Tail(@)]})
    /\ UNCHANGED <<vars, leased, backend, disk, future, rd, wr>>

----------------------------------------------------------------------------
ReadStep(c) ==
    \/ Stat(c)
    \/ GetParsed(c)
    \/ ServeParsed(c)
    \/ CheckValidity(c)
    \/ ReadL1(c, "l1_hot", "validate")
    \/ ReadL1(c, "l1_leased", "flight")
    \/ ReadL1(c, "l1_direct", "flight")
    \/ ValidateLease(c)
    \/ Acquire(c)
    \/ SetValidity(c)
    \/ \E f \in inflight[c.holder][c.resource] : JoinFetch(c, f)
    \/ OwnFetch(c)
    \/ CaptureGeneration(c)
    \/ Fetch(c)
    \/ CheckDisk(c)
    \/ PutDisk(c)
    \/ PutL1(c)
    \/ Resolve(c)
    \/ AwaitFetch(c)

Clock == Tick /\ UNCHANGED fvars

FNext ==
    \/ \E c \in Reads : ReadStep(c)
    \/ \E c \in Reads : LeaseFails(c)
    \/ \E c \in Reads : FetchFails(c)
    \/ \E w \in Writes : WriteBackend(w)
    \/ \E w \in Writes : WriteInvalidates(w)
    \/ \E w \in Writes : RevocationRuns(w)
    \/ \E w \in Writes : RevocationLost(w)
    \/ \E t \in tells : CallbackStep(t)
    \/ Clock

FSpec == FInit /\ [][FNext]_allvars

\* The threads of the mounts run; nothing else is assumed.
FFairSpec == FSpec /\ \A c \in Reads : WF_allvars(ReadStep(c))

----------------------------------------------------------------------------
(* Properties *)

\* The version is no older than the first one of the file that had this content id.
NotOlder(p, id, version) ==
    \E v \in 1..Version(p) : backend[p][v] = id /\ v <= version

\* A read that was answered by raw content got a version at least as new as
\* the one current when the read began, through L1, L2, a fetch of its own or
\* one it joined, whatever invalidations and lost revocations came between:
\* provided no two versions of the file have had the same content id.  Of a file
\* whose content id stays or comes back, stale content is served, and no lease
\* and no admission generation prevents it: the disk cache keeps the old entry.
RawReadsFresh ==
    \A c \in Reads :
        /\ rd[c].pc = "done" /\ rd[c].content # Error /\ rd[c].view = "raw"
        /\ IsInjective(backend[c.resource])
        => rd[c].content >= rd[c].seen

\* An entry of L1 or L2 is never older than the first version that had the
\* content id it is filed under: a fetch that lost a race with a write may leave
\* newer content behind under an old id, but never older content under a new id,
\* which a reader expecting that id would accept.
EntriesSound ==
    /\ \A m \in Mounts, p \in Paths :
          raw[m][p] # None => NotOlder(p, raw[m][p].fp, raw[m][p].version)
    /\ \A p \in Paths : \A e \in disk[p] : NotOlder(p, e.fp, e.version)

\* Every read returns (and stays done), also one that joined a fetch which failed
\* or was fenced.
ReadsReturn == []<>(\A c \in Reads : rd[c].pc = "done")
=============================================================================
