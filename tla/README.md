# A TLA+ model of nexus: locks, raft zones, leases, approvals, event delivery

nexus is a distributed virtual file system for agents. A Rust kernel
(`rust/kernel`) offers file, lock, pipe and stream syscalls on paths; mounts
route a path to a storage backend and to a metadata store; a mount can belong
to a *zone*, a raft group (`rust/raft`) that replicates metadata and advisory
locks between nodes. Services and Python bricks sit on top of the syscalls.

This directory models the parts on which the correctness of everything else
rests: who may touch a path at the same time, what the nodes of a zone agree
on, and the services above them whose protocols run over several threads,
event loops or processes: leases and the caches they guard, the approval queue
and the outbox of events. Paths below are relative to the root of the
repository; the Python package is `src/nexus`.

## 1. Inventory

| component | state | operations | hard behaviour | what makes it correct |
|---|---|---|---|---|
| I/O lock (`rust/kernel/src/core/lock/mod.rs`) | table path -> readers/writer, handle map, condition variable | `blocking_acquire`, `do_release` | threads, wake-ups, timeouts, hierarchy of paths | exclusion over subtrees, table and handles agree, every call returns |
| file syscalls (`rust/kernel/src/kernel/io.rs`) | metadata rows, backend objects | read, write, unlink, rmdir, rename, copy, batches | several locks per call, timeouts half-way, partial failure of batches, reads from open descriptors | work only under all its locks (descriptor reads apart), no lock left behind, no deadlock |
| advisory locks (`rust/contracts/src/lock_state.rs`, `rust/kernel/src/core/lock/locks.rs`) | table path -> holders with expiry | acquire, extend, release, force release | expiry, clients that act late, stale clocks | capacity, subtree exclusion, granted leases are honoured |
| distributed locks (`rust/raft/src/federation/distributed_locks.rs`) | the table inside the replicated state machine | the same, through raft; merge and swap at the first mount | migration while local calls go on, clocks of several nodes | replicas answer alike, leases survive the swap |
| raft zone (`rust/raft/src/raft/node.rs`, `storage.rs`, `state_machine.rs`) | log, hard state, redb tables, lock table, pending callers | propose, forward, apply, read index, restart | crashes, elections, replay, answers to the wrong caller | replicas agree, exactly-once apply, committed stays, linearizable reads |
| membership, joins, snapshots (`zone_registry.rs`, `transport/server.rs`) | conf state, zone directories | create, join, remove a zone, conf changes | creation racing removal, joins during elections | one zone instance per id, quorums overlap |
| eventual consistency (`replication_log.rs`) | write-ahead log, peer acknowledgements | local write, peer apply, compaction | concurrent writers, last writer wins | replicas converge |
| metadata and write path (`core/meta_store`, `kernel/io.rs`) | versions, generations, content ids | put, delete, rename, batch | metadata and bytes in two stores | results tell what was committed |
| pipes and streams (`core/pipe`, `core/stream`) | ring buffers, cursors | read, write, close | blocking, wake-ups, full and empty | nothing lost or repeated, nobody sleeps for ever |
| content-addressed store (`core/cas`) | objects, manifests, reference counts | write, read, delete | concurrent reference counting | no live chunk collected |
| dispatch, file watch (`core/dispatch`, `core/file_watch.rs`) | hooks, observer queue, waiters | pre-hooks, queued events | registration racing an event | events in order, none lost |
| agent and service registries (`core/agents`, `core/service_registry.rs`) | process states, service entries | spawn, signal, reap, swap | drain with calls in flight | legal transitions only |
| permission cache (`core/permission_cache.rs`) | cached verdicts | check, invalidate | stale verdicts | revocation wins |
| tasks (`rust/services/src/tasks`) | task records, leases | claim, complete, fail, recover | crashed workers | one owner, no task lost |
| lease manager (`src/nexus/lib/lease.py`) | leases by resource and by holder, fencing tokens, callbacks | acquire, validate, revoke, extend, sweep | blocking acquire with callbacks outside the lock, expiry, old clock readings | compatible holders, fresh tokens, indexes agree, acquire returns |
| FUSE content path (`src/nexus/fuse`) | L1, parsed and disk caches, admission generations, shared fetches, lease validity | read, write, revocation callback | reads, writes and callbacks of several mounts between any two steps | no read older than its metadata, no waiter forgotten |
| approval queue (`src/nexus/bricks/approvals`) | rows and audit in Postgres, futures in each worker | request and wait, decide, sweep, reconcile | operator, timeout and sweeper race; lost notifications, crashed workers | one decision per row, honest answers, decisions reach the waiters |
| event outbox (`storage/piped_record_store_write_observer.py`, `services/event_log`) | deque and debounce timers, operation log, dead letters | observe, flush, poll, dispatch, export | racing timers, retries, crashes, two workers on a row | nothing stranded or logged twice, delivered rows accounted for |
| scheduler (`src/nexus/services/scheduler`) | tasks in Postgres, admission counts | submit, dequeue, complete, cancel | upsert of a cancelled row, completion without a status guard, cancelled dequeue | a task runs once, no task stranded in `running` |
| permission graph (`src/nexus/bricks/rebac`) | tuples, bitmap and verdict caches | write, check, expand | caches behind the tuples | revocation wins |
| other Python bricks, servers, CLI, backends | - | adapters and data services | mostly I/O | outside this development |

Interactions: a file syscall calls the I/O lock manager and, under the lock, a
metadata store, which for a zone mount proposes a raft command and waits for
its answer. `sys_lock` calls the installed lock backend: the local table, or a
raft proposal whose apply changes the same table type (`LockState`). The raft
driver is one task per zone that owns the raft-rs node; callers reach it by a
channel and are answered by oneshot channels kept in a map.

The FUSE mounts of a host share one lease manager, each with an event loop of
its own; a read takes a shared lease, a write revokes the leases of the file,
and the revocation callbacks invalidate the caches of the mounts that lost
theirs. Approval callers wait on futures in the memory of their worker, which a
decision made in another worker reaches through Postgres. Mutations are
collected by an observer in the process of the syscall and reach other systems
only through the operation log.

The hazards, each at its line, are in `PROJECT.json`.

## 2. Modules

| module | models | checked by |
|---|---|---|
| `PathTree` | paths as segment sequences, ancestors, the descendant range scan | all |
| `IOLock` | the I/O lock: one action per critical section | `SyscallLocks*` |
| `IOLockProofs` | proofs about `IOLock` | tlapm |
| `SyscallLocks` (extends `IOLock`) | how syscalls take and release I/O locks | `SyscallLocks*` |
| `SyscallLocksProofs` (extends `IOLockProofs`) | proofs about `SyscallLocks`, its use of the lock manager included | tlapm |
| `LockState` | the transitions of the advisory table as operators | all below |
| `AdvisoryLocks` (uses `LockState`) | `sys_lock`/`sys_unlock` on the local backend, leases, the clock | `AdvisoryLocks*` |
| `AdvisoryLocksProofs` | proofs about `AdvisoryLocks` | tlapm |
| `ZoneConsensus` (uses `LockState`) | one raft zone with crashes | `Zone*` |
| `ZoneConsensusProofs` | proofs about `ZoneConsensus` | tlapm |
| `LeaseService` | abstract specification: what a lease manager promises | `LeaseManager` |
| `LeaseManager` | `LocalLeaseManager`, shown to implement `LeaseService` | `LeaseManager` |
| `LeaseManagerProofs` | proofs about `LeaseManager`, the refinement included | tlapm |
| `FuseCache` (extends `LeaseManager`) | content reads and writes of the FUSE mounts over the lease manager | `FuseCache` |
| `FuseCacheProofs` (extends `LeaseManagerProofs`) | proofs about `FuseCache` | tlapm |
| `Approvals` | the approval queue over several workers | `Approvals` |
| `ApprovalsProofs` | proofs about `Approvals` | tlapm |
| `EventDelivery` | the write observer, the operation log and the delivery workers | `EventDelivery` |
| `EventDeliveryProofs` | proofs about `EventDelivery` | tlapm |
| `MC...` | path trees, commands, calls and workloads for TLC | |

### The I/O lock and the syscalls

`locks` and `handles` are the fields of `IOLockState`; `pc`, `req`, `late` and
`ret` are the position, arguments, deadline and result of each thread inside
`blocking_acquire` or `do_release`. What the code does under the mutex is one
action. Threads interleave where the code has released it: after the failed
fast path (`FastFail`, then `WaitOrGiveUp`), while waiting on the condition
variable, and between the release of the table and `notify_all`
(`ReleaseLocked`, then `NotifyAll`). Deadlines are events, so that every order
of a timeout and a wake-up occurs. An idle row and an absent row are one state.

`SyscallLocks` drives it. A syscall has a lock plan: one path (read, write,
unlink, rmdir), two in byte order (rename, copy), or several in byte order
(batch). A single or a pair that misses a lock gives back what it has and
returns; a batch goes on without the item. `Rank` gives the byte order of the
raw paths, because it is not the order of the tree: `/a-b` lies between `/a`
and `/a/x`. The metadata and backend work is one phase, `work`.

One kind of syscall takes no lock. A read of a regular file first tries the
descriptor table (`core/fdt.rs`), which a write to a path-addressed mount fills
(`RegisterFd`), an unlink empties and a rename moves (`FdsAfter`); where there
is a descriptor the file is read from it and the lock is skipped (`StartPread`,
`EndPread`). Such a read may run beside a write, an unlink or a rename of the
same path, so the isolation properties name it as their exception.

### The advisory locks

`LockState` has one operator per `apply_*` function, from table to table, and
one for each answer; the kernel's local backend and the replicated state
machine use the same operators here as they use the same functions there.
`AdvisoryLocks` adds the clock and, as a history variable, the leases: what
clients were told and may rely on. The backend reads the clock *before* it
takes the mutex, so each call acts with some earlier time `now \in 0 .. clock`.

### The raft zone

raft-rs is outside the repository; `Elect`, `UpToDate`, `Quorums` and the
guards of `SendAppend` are its contract, each exchange in one step. Delayed,
lost and repeated messages are such steps taken late, never or again. The
repository's own code is modelled at the level of its steps:

- `AppendEntries` is `RaftStorage::append`: it inserts and does not truncate;
- `AdvanceCommit`: the commit index of a `Ready` is saved, that of a
  `LightReady` (the zone with one voter) is not;
- `Submit`, `DriverPropose`, `DriverRefuse`, `Resolve`: the role is checked by
  the caller, the number is given by the driver, an entry that carries the
  number resolves whoever waits under it at this node;
- `ApplyGuardedEntry` saves a metadata command with `last_applied` in one
  transaction and skips what was applied; `ApplyLockEntry` has no guard and
  saves nothing;
- `Restart` may come between any two entries; it keeps the disk, starts the
  replay at the first index and forgets the callers;
- `ReadIndex` and `ResolveRead` are `promote_read_states` and
  `resolve_ready_reads`.

Nothing outside tests takes a snapshot or compacts this log, so the model has
neither.

### The lease manager and the FUSE caches

`by_resource`, `by_holder`, `generation` and `callbacks` are the fields of
`LocalLeaseManager`; `acq` is where each call of `acquire` is. A critical
section of the asyncio lock awaits nothing and is one action. `acquire` is the
only operation of several: `AcquireRevoke` removes the leases in the way,
`CallbackEnds` runs their callbacks outside the lock, those of expired leases
first, and `AcquireRetry` goes round again; others may take the resource in
between. `acquire` reads the clock inside the lock; `validate`, `extend` and
the sweep read it before, so they act with a reading up to `MaxLag` old.
`LeaseService` keeps only the set of leases and the tokens; the refinement
mapping is the set of leases in the table.

`FuseCache` adds the mounts. A read is a record that walks through
`get_file_content`: metadata, parsed cache, validity and L1, lease, shared
fetch, captured generation, L2 or backend, the guarded puts, the future. Each
access under a lock, each lease operation and each backend call is an action,
so that writes and revocation callbacks fall between any two. An invalidation
is two actions (`DropL1`, `FenceFetches`) because the code takes two locks.
Content is its version number, which the code does not have. A fingerprint is the
content id the metadata named (`file_fingerprint_from_metadata`), and nothing ties
it to the version: a path-addressed backend reports its own path as the content
id, the same after every write, and a content hash comes back when the content
does. So a write gives its version any content id, new or used before. A mount
may also have no lease manager: L1 is then asked directly and always filled.

### The approval queue

`rows`, `audit` and `allow` are the Postgres tables and outlive a worker;
`waiter` and `result` are the futures, `call` and `dec` the calls of
`request_and_wait` and `decide` with their locals. All callers share one
coalesce key. A step is the code between two awaits, with the transaction it
makes; the conditional update of `transition` is `CanTransition` and
`Transition`. `Settle` is what the NOTIFY handlers and the watchdog do for a
row. As notifications may be lost, late or spurious it is always enabled, and
fairness assumes it only because of the watchdog. `Fault` bounds failed
database calls and worker crashes. A caller that times out and finds that a
decision beat its own expiry (`LostExpiry`) honours an approval; a rejection is
raised inside a `try` that catches everything, so the caller is told that it
timed out.

### The event outbox

`pending`, `armed` and `timers` are the deque and the debounce timers of a
process: a timer that has fired and waits for the lock cannot be cancelled, so
`Enqueue` may leave two. `flights` are batches taken from the deque, with their
retries. `log` is the operation log, in which a rename has two rows and any
other event one; `dead` are the dead letters, `worker` is the poll of each
process. The bus and the exporter refuse as they like; `exported` remembers what
the exporter took, `sent` the rows whose dispatch returned. That is all the code
knows: where there is no bus nothing can refuse, and
`SubscriptionManager.broadcast` swallows the failures of webhooks, so these have
no action here and no property speaks of them. `Export` has no case for a
`dispatch_batch` that raises: the registry catches whatever an exporter throws.

The wake-up of a worker is an `asyncio.Event` set by a timer thread. `Signal`
resolves the worker's wait; when its loop notices is left open (`Wake` has no
fairness), and a replay stream may clear the event first (`StreamClears`). The
call is made inside the `try` whose failure retries the batch, after the commit:
`SignalFails` commits a batch and sends it round again, and `redone` remembers
its events. Two workers may hold the same row: the
row locks of the code are off by default and would not span the dispatch.

## 3. Runs

| run | instance | result |
|---|---|---|
| `SyscallLocks` | 2 threads, `/a/`, `/a/x`, `/b`, 4 handles, batches of 2, a descriptor of `/a/x`; about 1.46 million states | all invariants hold; every syscall returns |
| `SyscallLocksDash` | the same with `/a`, `/a-b`, `/a/x` | `NoCircularWait` fails: the sorted order is not deadlock-free |
| `SyscallLocksWakeup` | as `SyscallLocks` | `NoLostWakeup` fails: a release before the wait is missed |
| `AdvisoryLocks` | root, `/a`, `/a/x`, 3 ids, capacities 1 and 2, TTLs 1 and 2, clock to 2; about 60,000 states | all invariants hold |
| `AdvisoryLocksExpiry` | 2 ids | `RefusedOnlyByLiveHolders` fails: expired relatives block |
| `ZoneConsensus` | 1 or 3 voters of 3 nodes, two commands or a lock command and a read, 2 terms, 1 crash; about 1.4 million states | all invariants hold, reads are linearizable |
| `ZoneAnswers` | 3 voters | `AnsweredMeansCommitted` fails: a caller gets another command's answer |
| `ZoneStaleTail` | 5 voters, 3 terms, metadata only | `CommittedStays` fails: the stale tail wins an election |
| `LeaseManager` | 2 holders, 1 resource, 4 calls of acquire, clock to 2, readings up to 1 old; about 92,000 states | all invariants hold, it implements `LeaseService`, every acquire returns |
| `FuseCache` | 2 mounts, two raw, two parsed or one read of each view, the last without a lease manager, a write, 2 content ids, clock to 1; about 1.6 million states | raw reads are fresh while no content id comes back, entries sound, every read returns |
| `Approvals` | 2 callers on 2 workers, 1 operator, all scopes, a real and a fabricated session, 1 fault, clock to 2; about 340,000 states | all properties hold |
| `EventDelivery` | an event and a rename with 1 worker; either alone with 1 or 2 faults; 1 event, 2 workers, 1 fault; 3 events, no worker, 2 faults; deque of 2, batches of 2, 1 flush retry, 2 dispatch tries; about 835,000 states | all properties hold |

What the properties say:

- `HierarchyExclusion`, `WorkIsolated`: two live handles, or two syscalls at
  work, on overlapping subtrees only read, except that a read from an open
  descriptor, which has no lock, may meet a writer. `Accounting`: reader counts and
  writers are exactly the live handles. `WorkFullyLocked`, `NoOrphanLock`: a
  timeout on the second lock neither lets the work start nor leaks the first.
  `NoCircularWait`: no set of threads all waiting for each other.
  `SyscallsReturn`: every syscall ends.
- `CapacityRespected`, `SubtreeExclusive`, `LeasesBacked`: no overbooking, no
  holder above another, and no call, stale clock included, evicts a lease that
  has not run out.
- `AppliedOnce`, `LocksRebuilt`: after any crash the tables are what the log
  up to `last_applied`, and the lock table what the log up to the replay's
  position, produce. `ReplicasAgree`: applied entries agree everywhere.
  `ReadsLinearizable`: a read waits for all that was committed when it was
  issued. `CommittedStays`, that applied entries are in every later leader's
  log, is left to the run that refutes it.
- `Exclusion`, `IndexesAgree`: leases held on a resource are compatible and in
  both indexes, with expired leases still stored and `extend` acting on an old
  clock reading. `ImplementsLeaseService`: every grant carries a token above all
  earlier ones. `AcquireReturns`: no acquire hangs, a hung callback included;
  each call is made once, so the run says little about the deadline of a caller
  who loses every attempt.
- `RawReadsFresh`: while no two versions of a file have had one content id, a raw
  read returns content at least as new as the metadata it began with, through any
  cache and any joined fetch, even if the revocation was lost. `EntriesSound` is
  why: an entry is never older than the first version with the content id it is
  filed under. The condition is needed: without it TLC finds a read that the disk
  cache answers with what was there before a finished write, because the key did
  not change. The comment at `fuse/ops/_shared.py:545`, that the bumped generation
  makes the next reader refetch, does not help: a lookup in the disk cache asks
  for no generation. `ReadsReturn`: also
  those who wait for a fetch that failed or was fenced. Parsed views have no
  such property: `_maybe_parse` caches them without the admission check.
- `AuditExact`: the racing ways to end a row end it once, with one record.
  `AnswersHonest`: who is told approved or denied has a row that says so.
  `TimeoutIsTrue`: an approval that beat the timeout is honoured, and so is a
  rejection unless it came between the caller's last look at the row and its
  attempt to expire it. `GrantsComeFromOperators`: what
  is granted without asking goes back to an operator's approval of that scope.
  `ExpiredInTime`: a short timeout of one caller does not expire the row of
  the others. `DecisionReachesWaiters`: without any NOTIFY.
- `PendingHasTimer`, `LoggedOnce`: timers that race leave no event behind and
  no retry repeats a row, but for a batch whose wake-up call raised after the
  commit. `DeliveredIsAccounted`, `ExporterIsServed`: whatever crashes, a
  delivered row had a dispatch that returned or is in the dead letter queue.
  `RowsSettleWhilePolled`: rows are delivered or given up as long as some worker
  keeps polling. The condition is needed: a poll in which every row failed counts
  as empty, the worker sleeps until the next flush, and it may miss the wake-up.

Bounds. Two threads are what a circular wait, a missed wake-up or a broken
exclusion needs, and four handles let each hold two locks; the theorems cover
any number. Three lock ids overfill a capacity of two; two ticks let a lease
of one second expire and one of two seconds survive. In a zone two terms give
one change of leader after a commit, one crash hits every pair of steps, two
commands make order visible; with five voters a stale tail does harm in three terms.
`ReplicasAgree` and `ReadsLinearizable` hold in the passing run because within two
terms an overwritten node cannot win against the majority that holds the committed
entry. That is not so in general, as the run with five voters shows, and three voters
are no safer: with five terms a node can keep an old entry behind newer committed
ones, and then its vote goes to a node that lacks those. Two lease
holders with a shared, a refused and a blocking exclusive call conflict in
every way two states can; a clock of 2 with a TTL of 1 lets a lease expire and
be extended on an old reading. In `FuseCache` two reads on one mount share a
fetch and the write on the other mount falls between any two of their steps;
two content ids let the write keep the id or change it;
one path is enough because nothing in the code relates two. Two callers
coalesce or inherit in either order; one fault is a database error or a crash
at any point; ticks up to 2 let the short caller time out before the row
expires. Three events overflow a deque of two, two are flushed and loaded
together, and two faults let a flush or a poll fail twice. Cfgs that say `CHECK_DEADLOCK FALSE` do so because the bounded
behaviours end when handles, time, terms or calls are used up.

Fairness, always weak and of steps the program takes by itself:

- `SyscallsReturn`: each thread's own steps (the scheduler runs threads that
  can run) and its deadline (time passes; the default lock timeout is 5 s and
  is never infinite). Nothing is assumed about who wins the mutex.
- `AcquireReturns`: the event loop runs an acquire that can go on, and
  `asyncio.wait_for` cuts a callback off. The clock need not tick.
- `ReadsReturn`: the threads of the mounts run. Fetches may fail, revocations
  may be lost.
- `DecisionReachesWaiters`: the event loops run the calls, and the reconcile
  watchdog comes round. No NOTIFY and no tick is assumed.
- `RowsSettleWhilePolled`: a poll that has begun goes on. Nothing is assumed of
  the timers or of the wake-up, which a `set()` from another thread does not
  guarantee; the premise is that some worker starts polls again and again.
  Dispatch may fail for ever; the retry limit settles the row.

## 4. Findings

1. The byte order in which rename, copy and batches take their locks is called
   deadlock-free in `kernel/io.rs` and is not: hierarchy and `-` or `.` in a
   name make a cycle. The timeout resolves it after 5 s with a miss.
2. `blocking_acquire` waits without trying again after it retook the mutex; a
   release in that window does not wake it.
3. Expired holders of a parent or child path block a request for ever, against
   the lock architecture document.
4. Proposal numbers are local to a node: after a change of leader a caller can
   be answered with the result of another command although its own was lost.
5. `RaftStorage::append` leaves conflicting entries behind the ones it writes;
   with five voters, or with three after more changes of leader, a committed entry
   can disappear. Section 5 shows that nothing else in the model can cause this.

## 5. Proofs

`IOLockProofs` proves, for any threads, paths and number of handles, that
`IOSpec` implies `[]IOTypeOK`, `[]Accounting` and `[]HierarchyExclusion`. The
specification lets any thread release any handle, twice or never, so the
result does not depend on the syscalls. `HierarchyExclusion` is not inductive
by itself: that a granted lock conflicts with nobody is read off the table,
not off the handles, so the inductive invariant joins it with `Accounting`
(the two views agree), with the types, and with the facts that handles above
`next_handle` were never issued and that a thread inside `blocking_acquire`
has a request. The reader count is a cardinality; the proof uses the
finite-set theorems for adding and removing one handle.

`SyscallLocksProofs` builds on it. `SyscallsUseLocks` shows that every step of a
syscall is a step of the lock manager or leaves its state alone, `Spec => IOSpec`,
so the three results above hold under the syscalls. `WorkIsolated`,
`WorkFullyLocked` (both but for reads from open descriptors) and `NoOrphanLock` then follow from an invariant that ties the
handle list of a thread to its plan: the i-th handle, where there is one, is live
and stands for the i-th path and the mode of the call (`ThreadOK`), and every
live handle has one owner (`OwnedOnce`). `WorkIsolated` alone is not inductive,
because it speaks of paths of a plan and exclusion speaks of live handles. The
delicate state is the one in which `blocking_acquire` has granted a handle that
the syscall has not stored yet (`Answered`).

`SyscallNoCircularWait` says when the comment in `kernel/io.rs` is right: if on the
paths in use byte order follows the tree (`FollowsTree`: a directory comes before
what is inside it, and nothing from outside comes in between), no group of syscalls
wait for each other, `FollowsTree(Rank) => (Spec => []NoCircularWait)`. TLC
evaluates in `MCSyscallLocks` that the paths of the passing run satisfy the
hypothesis and those of `SyscallLocksDash` do not. The argument: among the threads of
such a group that hold a lock, take one, m, that asks for the last path in byte
order; handles are finitely many, so there is one (`GreatestHandle`). The lock m
waits for was taken by u before u asked for more, so its path lies in byte order
before what u asks for, which lies before what m asks for. The two ends are related,
so the hypothesis puts the lock of u above what u itself asks for, and a third party
that delays u would hold a lock overlapping the write lock of u (`RelatedBelow`),
which `HierarchyExclusion` forbids. A thread that waits and holds a lock is always a
writer with a sorted plan (`PlansAreSorted`).

`AdvisoryLocksProofs` proves that `AdvisoryLocks` implies `[]TypeOK`,
`[]CapacityRespected`, `[]SubtreeExclusive` and `[]LeasesBacked`. Its
inductive invariant says of each row that it is absent or has finitely many
holders, at most its capacity, with distinct ids. Every transition rewrites
one row; `RowStep` and `LeaseStep` reduce the invariant to that row, and the
lemmas `ShrinkFine`, `RenewFine` and `AddFine` treat pruning, renewing and
adding a holder. `LeasesBacked` uses that a pruning at an earlier time only
removes holders whose time is over.

`LeaseManagerProofs` proves, for any holders, resources, calls, TTLs and clock
lag, that `LeaseManager` implies `[]TypeOK`, `[]Exclusion` and `[]IndexesAgree`,
and that it implements `LeaseService`. The inductive invariant joins the three: `Exclusion` needs the types to know under which
holder a lease is filed, `IndexesAgree` is what makes the step of
`revoke_holder`, which looks only at the holder index, a pure removal, and the
refinement needs `Exclusion` and the types to show a grant compatible with all
that stays. `RemoveShrinks` and `ReplaceStores` say what the two table helpers
do; `StepEffect` sorts every step into a removal, a renewal or a new grant, and
`RemovesDrops`, `RenewalRenews` and `NewGrantGrants` show these to be a `Drop`,
a `Renew` and a `Grant` of the service.

`FuseCacheProofs` proves, for any mounts, files, reads and writes, `[]RawReadsFresh`
and `[]EntriesSound`. What a read returns may come from its own fetch, from an L1
or disk entry or from the future of a fetch it joined, so the invariant follows
content through all of them: the fingerprint of a read is the content id of a version
the file has had, what was fetched is no older than the first version with the
fingerprint of the fetch, a joined fetch has the fingerprint of the joining read, and
no entry is older than the first version with the content id it is filed under. None
of this needs content ids to differ; only the last step does, from "no older than the
first version with this id" to "no older than the version the read saw", and it is
the premise of `RawReadsFresh` for the file that was read. The admission generation does not appear in the argument: it
keeps entries recent, not sound. `FuseNoConflict` shows that mounts take shared
leases only, so that an acquire never revokes anybody; this is why `FuseCache` may
treat acquire as one step. `FuseLeaseRefinement` shows that the lease manager as
the mounts drive it implements `LeaseService`, with the lemmas of
`LeaseManagerProofs`.

`ApprovalsProofs` proves, for any workers, callers, operators, sessions, timeouts,
faults and crashes, `[]TypeOK`, `[]AuditExact`, `[]AnswersHonest`,
`[]GrantsComeFromOperators` and `[]ExpiredInTime`, and the action properties
`TimeoutIsTrue` and `DecisionsFinal` (a decided row and its audit never change
again). None is inductive alone: an answer is given several awaits after the row
was read. The invariant says for each place of `request_and_wait` and `decide` what
the locals still say of the rows (`CallOK`, `DecideOK`), of a future that it is
filed under its caller's row and agrees with it (`FutureOK`), and of the allow list
that some operator granted a session. That rows are final is what keeps these facts
true while others run.

`EventDeliveryProofs` proves, for any processes, workers, events, batch and retry
limits, `[]TypeOK`, `[]PendingHasTimer`, `[]LoggedOnce`, `[]DeliveredIsAccounted`
and `[]ExporterIsServed`, and the action property `DeliveryIsFinal` (rows keep
their entries, delivered rows stay delivered). `LoggedOnce` needs that an event that
was never sent round after its commit is in one place, the deque of its process, one
batch in flight or the log (`OnceOK`), and there with each of its rows once.
The delivery properties need what a worker may believe of its batch although a
second worker has the same rows (`WorkerOK`): what it counts as done was sent, and
when it comes to the marking, the exporter or the dead letter queue has it.

`ZoneConsensusProofs` proves, for zones of any size, any commands and any number
of terms and crashes, `[]TypeOK`, `[]AppliedOnce` and `[]LocksRebuilt`, and beyond
the runs `[]OneLeaderPerTerm`, `[]EntriesIdentical` (same index and term, same
entry: what raft-rs takes for granted when it compares terms) and the action
property `AppliedIsKept` (an append never rewrites what its node has applied or
knows to be committed). `AppliedOnce` after a restart rests on `GapIsLocks`: only
lock commands lie between the saved and the lost `last_applied`, so the tables on
disk are those of the saved index too. Before a restart it rests on the log not
changing under the tables: where there is another voter, what a node applied is
covered by its commit index, and appends begin behind that; in a zone of one the
saved commit index lags, but nobody sends appends (`IndexesOK`). The two
statements about terms need that majorities meet and that a leader has every entry
of its term (`TermsReached`, `LeaderHasAll`). The reference tables `MetadataOf` and
`LocksOf` are recursive functions of the log; where a proof would go by induction
on the index, it takes a least counterexample instead (`LeastNat`, from the
well-foundedness of `<`).

The second part of `ZoneConsensusProofs` is about agreement between nodes. Without a
hypothesis `ReplicasAgree`, `CommittedStays` and `ReadsLinearizable` are false
(finding 5). The hypothesis is `NoStaleTail`: no step changes an entry of a log and
leaves an old entry behind it. It restricts only what `AppendEntries`, the model of
`RaftStorage::append`, may leave; elections, crashes between any two entries, lost,
late and repeated messages, commit indexes that are not saved and replays from the
first index are all there. It holds of any behaviour in which a node that has a
conflict is sent at least as much log as it has. Under it, `Spec /\ NoStaleTail`
implies `[]ReplicasAgree`, `[]CommittedStays`, `[]ReadsLinearizable` and
`[]LogMatching`, so the stale tail is the only way in which the modelled code can lose a
committed entry. The argument is raft's, for this model's steps:

- `OrderOK`: logs match up to an index at which they have the same term, a log has a
  term's entries without gaps, and terms never fall along a log. An append copies a
  prefix of the sender's log or keeps the old one (`WholeAppend`); this is the place
  where the hypothesis is used, and the only one.
- `AcksOK`: for an entry of a leader's own term, either no log went on to a newer term
  without it and every voter the leader counts for it (`match`) still has it, or a
  majority that did not acknowledge it is in newer terms (`Blocked`), so that the
  leader will never count a majority. The second case is what a leader that was
  overtaken and does not know it needs.
- `CommitsSafe`: all that a node knows to be committed or has applied is covered by
  an entry that a majority has and no log of a newer term lacks (`Chosen`,
  `Covers`). `ChosenStays` and `ChosenAgree` keep it so through elections, because
  a new leader has the vote of a member of that majority.
- `ReadOK`: the index a waiting read was given is at least all that any node had
  committed when the read was issued. The leader that gives it has a majority in its
  term and has committed an entry of that term, two guards of raft-rs the model keeps;
  it then knows every commit index (`LeaderKnows`).

Each part of the invariant was model-checked before it was proved, on behaviours with
`CleanTails` conjoined to `Next`: 3.6 million states of zones with one or three voters
and three terms, and random behaviours with up to five voters and five terms.

Assumptions: paths are sequences of strings, normalized or not, and the byte order
of raw paths is a total order; bounds, TTLs, timeouts, capacities and retry limits are
naturals, and positive where the code's configuration requires it (TTLs, timeouts, the
deque, the batch); values that stand for "nothing" are no leases, versions, calls or
callers. Nodes and events are finite sets. The mounts ask for shared leases only
(`FuseAssumption`, from `lease_coordinator.py`). TLC evaluates each of them in the
runs. That normalized paths are sequences of strings follows from `SelectSeq`, whose
definition the provers do not see.

Every safety property of the passing runs is stated by a theorem, three of them under
the hypotheses above (`FollowsTree` for `NoCircularWait`, `NoStaleTail` for
`ReplicasAgree` and `ReadsLinearizable`). In the passing runs these are checked
without the hypotheses, on instances small enough that they hold. `CommittedStays` is
proved under `NoStaleTail` and refuted without it by `ZoneStaleTail`, as
`NoCircularWait` is by `SyscallLocksDash`.

Model-checked only: the liveness properties (`SyscallsReturn`, `AcquireReturns`,
`ReadsReturn`, `DecisionReachesWaiters`, `RowsSettleWhilePolled`), which need
fairness and are out of the prover's reach.

## 6. Plan

1. Distributed locks: the merge and swap of `DistributedLocks::new`, local
   calls in the window, rows outside the log, one clock per proposer.
2. Raft: apply errors, membership changes (two changes for one node wait under
   one id) and joins, zone creation racing removal; the eventual-consistency log with last-writer-wins.
3. Metadata write path: versions, generations and results of write, rename,
   copy and batch with failing stores; composed with `SyscallLocks`.
4. Pipes and streams: rings, blocking, close; abstract specification a FIFO
   channel, the ring refined to it.
5. Tasks, agent registry, service registry, file watch, permission cache.
6. Scheduler; parsed views and attribute caches of the FUSE mounts; the
   caches of the permission graph.
7. Theorems: the agreement results for a storage that truncates at a conflict,
   as the specification of what `RaftStorage::append` should do, in place of the
   hypothesis `NoStaleTail`.

## 7. Not modelled

Backends, transports, servers and the CLI translate requests and move data;
they keep no protocol state of the kind checked here. The Python package is
large (1,500 files) and most of it is of that kind: connectors, routers,
commands, parsers, search indexing. Of the bricks that do keep state, leases,
the FUSE content path, approvals and event delivery are modelled; the scheduler
and the permission graph are not yet. Postgres and redb are assumed to make a
transaction atomic and durable, raft-rs to implement its contract, asyncio to
run a coroutine between two awaits without interruption. Metrics, logging,
formatting and serialization are left out. The remaining components of the
inventory follow the plan above.
