------------------------------- MODULE IOLock -------------------------------
(***************************************************************************)
(* The I/O lock of the kernel's LockManager (rust/kernel/src/core/lock):   *)
(* a blocking, hierarchy-aware readers/writer lock per path, one mutex     *)
(* (io_state) and one condition variable (notify) for the whole table.     *)
(*                                                                         *)
(* Grain: everything done under the mutex is one action, because no other  *)
(* thread can see it half done.  A thread is interrupted between two       *)
(* critical sections: after the fast path failed, while it waits on the    *)
(* condition variable, and between a release and its notify_all, which the *)
(* code performs after it dropped the mutex.                               *)
(*                                                                         *)
(* Abstractions: an absent key of the table and an idle entry are the same *)
(* (every reader of the table treats them alike and do_release removes an  *)
(* entry that became idle); the metrics counters are left out; a deadline  *)
(* is an event (late) rather than a number of milliseconds; nothing is     *)
(* assumed of who releases a handle: any thread may release any handle     *)
(* ever issued, once, twice or never.                                      *)
(***************************************************************************)
EXTENDS PathTree, FiniteSets

CONSTANTS
    Threads,    \* the threads that call the lock manager
    RawPaths,   \* the paths they pass, as segment sequences
    MaxHandle   \* bound on the handles issued (next_handle is a u64)

Paths == {NormalizePath(p) : p \in RawPaths}
Modes == {"Read", "Write"}
Handles == 1 .. MaxHandle
NoHandle == 0

ASSUME IOLockAssumption ==
    /\ MaxHandle \in Nat
    /\ RawPaths \subseteq Seq(STRING)
    /\ Paths \subseteq Seq(STRING)   \* what SelectSeq makes of the line above

VARIABLES
    locks,       \* IOLockState.locks: path -> [io_readers, io_writer]
    handles,     \* IOLockState.handles: handle -> HandleInfo, or Gone
    next_handle, \* the last handle issued
    pc,          \* where each thread is in the lock manager
    req,         \* the path and mode each thread asked for
    late,        \* the thread's deadline has passed
    ret          \* what the thread's last blocking_acquire returned

iovars == <<locks, handles, next_handle, pc, req, late, ret>>

HandleInfo == [path : Paths, mode : Modes]
Gone == [path |-> <<>>, mode |-> "None"]
Idle == [io_readers |-> 0, io_writer |-> NoHandle]

PCs == {"idle", "fast", "blocked", "waiting", "woken", "timedout", "notify"}

IOTypeOK ==
    /\ locks \in [Paths -> [io_readers : Nat, io_writer : Handles \cup {NoHandle}]]
    /\ handles \in [Handles -> HandleInfo \cup {Gone}]
    /\ next_handle \in 0 .. MaxHandle
    /\ pc \in [Threads -> PCs]
    /\ req \in [Threads -> HandleInfo \cup {Gone}]
    /\ late \in [Threads -> BOOLEAN]
    /\ ret \in [Threads -> Handles \cup {NoHandle}]

IOInit ==
    /\ locks = [p \in Paths |-> Idle]
    /\ handles = [h \in Handles |-> Gone]
    /\ next_handle = 0
    /\ pc = [t \in Threads |-> "idle"]
    /\ req = [t \in Threads |-> Gone]
    /\ late = [t \in Threads |-> FALSE]
    /\ ret = [t \in Threads |-> NoHandle]

-----------------------------------------------------------------------------
\* Conflict detection.

\* An entry of a related path stands in the way of a request in this mode.
Blocks(entry, mode) ==
    \/ entry.io_writer # NoHandle
    \/ mode = "Write" /\ entry.io_readers > 0

MutSkipsParent(path, mode) ==
    \E anc \in Ancestors(path) \cap Paths :
        Len(anc) + 1 < Len(path) /\ Blocks(locks[anc], mode)

ancestor_io_conflict(path, mode) ==
    \E anc \in Ancestors(path) \cap Paths : Blocks(locks[anc], mode)

MutDescendantReadersIgnored(path, mode) ==
    \E q \in DescendantRange(path, Paths) : Blocks(locks[q], "Read")

descendant_io_conflict(path, mode) ==
    \E q \in DescendantRange(path, Paths) : Blocks(locks[q], mode)

\* try_acquire_io_locked would take the lock.
Grantable(path, mode) ==
    /\ ~ ancestor_io_conflict(path, mode)
    /\ ~ descendant_io_conflict(path, mode)
    /\ ~ Blocks(locks[path], mode)

\* The end of blocking_acquire: its local variables are gone.
Leave(t) ==
    /\ pc' = [pc EXCEPT ![t] = "idle"]
    /\ req' = [req EXCEPT ![t] = Gone]
    /\ late' = [late EXCEPT ![t] = FALSE]

\* The state change of a successful try_acquire_io_locked: the handle is the
\* counter's next value, the entry counts a reader or names the writer.
Grant(t) ==
    LET path == req[t].path
        mode == req[t].mode
        h    == next_handle + 1
    IN  /\ h \in Handles
        /\ next_handle' = h
        /\ locks' = IF mode = "Read"
                    THEN [locks EXCEPT ![path].io_readers = @ + 1]
                    ELSE [locks EXCEPT ![path].io_writer = h]
        /\ handles' = [handles EXCEPT ![h] = req[t]]
        /\ ret' = [ret EXCEPT ![t] = h]
        /\ Leave(t)

ReturnNoHandle(t) ==
    /\ ret' = [ret EXCEPT ![t] = NoHandle]
    /\ Leave(t)
    /\ UNCHANGED <<locks, handles, next_handle>>

-----------------------------------------------------------------------------
\* blocking_acquire

\* A thread enters blocking_acquire; the deadline starts to run.  A timeout of
\* zero is the case in which DeadlinePasses is the thread's next step.
CallAcquire(t, raw, mode) ==
    /\ pc[t] = "idle"
    /\ req' = [req EXCEPT ![t] = [path |-> NormalizePath(raw), mode |-> mode]]
    /\ late' = [late EXCEPT ![t] = FALSE]
    /\ pc' = [pc EXCEPT ![t] = "fast"]
    /\ UNCHANGED <<locks, handles, next_handle, ret>>

\* The fast path: one try under the mutex.
FastTake(t) ==
    /\ pc[t] = "fast"
    /\ Grantable(req[t].path, req[t].mode)
    /\ Grant(t)

\* The fast path failed and the mutex is free again.  With a zero timeout the
\* next step returns 0, which is what WaitOrGiveUp does for a late thread.
FastFail(t) ==
    /\ pc[t] = "fast"
    /\ ~ Grantable(req[t].path, req[t].mode)
    /\ pc' = [pc EXCEPT ![t] = "blocked"]
    /\ UNCHANGED <<locks, handles, next_handle, req, late, ret>>

\* The top of the loop: give up if nothing remains of the timeout, else wait
\* on the condition variable.  The code does not look at the table again
\* before it waits.
WaitOrGiveUp(t) ==
    /\ pc[t] = "blocked"
    /\ IF late[t]
       THEN ReturnNoHandle(t)
       ELSE /\ pc' = [pc EXCEPT ![t] = "waiting"]
            /\ UNCHANGED <<locks, handles, next_handle, req, late, ret>>

\* The wait ends by its timeout.
WaitTimesOut(t) ==
    /\ pc[t] = "waiting"
    /\ late[t]
    /\ pc' = [pc EXCEPT ![t] = "timedout"]
    /\ UNCHANGED <<locks, handles, next_handle, req, late, ret>>

\* After the wait: one try, whatever ended the wait.
RetryTake(t) ==
    /\ pc[t] \in {"woken", "timedout"}
    /\ Grantable(req[t].path, req[t].mode)
    /\ Grant(t)

MutRetryLoopsForever(t) ==
    /\ pc[t] \in {"woken", "timedout"}
    /\ ~ Grantable(req[t].path, req[t].mode)
    /\ pc' = [pc EXCEPT ![t] = "waiting"]
    /\ UNCHANGED <<locks, handles, next_handle, req, late, ret>>

\* The try failed: a timed-out wait returns 0, a notified one loops.
RetryFail(t) ==
    /\ pc[t] \in {"woken", "timedout"}
    /\ ~ Grantable(req[t].path, req[t].mode)
    /\ IF pc[t] = "timedout"
       THEN ReturnNoHandle(t)
       ELSE /\ pc' = [pc EXCEPT ![t] = "blocked"]
            /\ UNCHANGED <<locks, handles, next_handle, req, late, ret>>

\* The clock reaches a thread's deadline.
DeadlinePasses(t) ==
    /\ pc[t] \in {"fast", "blocked", "waiting", "woken"}
    /\ ~ late[t]
    /\ late' = [late EXCEPT ![t] = TRUE]
    /\ UNCHANGED <<locks, handles, next_handle, pc, req, ret>>

-----------------------------------------------------------------------------
\* do_release

MutReleaseAlwaysDecrements(t, h) ==
    /\ pc[t] = "idle"
    /\ handles[h] # Gone
    /\ handles' = [handles EXCEPT ![h] = Gone]
    /\ locks' = [locks EXCEPT ![handles[h].path] =
                    [io_readers |-> @.io_readers - 1,
                     io_writer |-> IF @.io_writer = h THEN NoHandle ELSE @.io_writer]]
    /\ pc' = [pc EXCEPT ![t] = "notify"]
    /\ UNCHANGED <<next_handle, req, late, ret>>

MutReleaseClearsWriterOnly(t, h) ==
    /\ pc[t] = "idle"
    /\ handles[h] # Gone
    /\ handles' = [handles EXCEPT ![h] = Gone]
    /\ locks' = [locks EXCEPT ![handles[h].path].io_writer = NoHandle]
    /\ pc' = [pc EXCEPT ![t] = "notify"]
    /\ UNCHANGED <<next_handle, req, late, ret>>

\* The critical section: the handle is forgotten and its entry gives back the
\* reader it counted, or the writer if the entry still names this handle.
ReleaseLocked(t, h) ==
    /\ pc[t] = "idle"
    /\ handles[h] # Gone
    /\ handles' = [handles EXCEPT ![h] = Gone]
    /\ locks' = IF handles[h].mode = "Read"
                THEN [locks EXCEPT ![handles[h].path].io_readers = @ - 1]
                ELSE [locks EXCEPT ![handles[h].path].io_writer =
                        IF @ = h THEN NoHandle ELSE @]
    /\ pc' = [pc EXCEPT ![t] = "notify"]
    /\ UNCHANGED <<next_handle, req, late, ret>>

\* notify_all, after the mutex was dropped.
NotifyAll(t) ==
    /\ pc[t] = "notify"
    /\ pc' = [u \in Threads |-> IF u = t THEN "idle"
                                ELSE IF pc[u] = "waiting" THEN "woken" ELSE pc[u]]
    /\ UNCHANGED <<locks, handles, next_handle, req, late, ret>>

\* A release of a handle that is not live returns false and changes nothing;
\* it is a stuttering step and needs no action.

-----------------------------------------------------------------------------
\* The steps a thread takes by itself once it is inside the lock manager.
Inside(t) ==
    \/ FastTake(t)
    \/ FastFail(t)
    \/ WaitOrGiveUp(t)
    \/ WaitTimesOut(t)
    \/ RetryTake(t)
    \/ RetryFail(t)
    \/ NotifyAll(t)

IONext ==
    \E t \in Threads :
        \/ \E raw \in RawPaths, mode \in Modes : CallAcquire(t, raw, mode)
        \/ \E h \in Handles : ReleaseLocked(t, h)
        \/ DeadlinePasses(t)
        \/ Inside(t)

IOSpec == IOInit /\ [][IONext]_iovars

-----------------------------------------------------------------------------
\* Properties.

\* The live read handles of a path.
ReadHandles(p) == {h \in Handles : handles[h] = [path |-> p, mode |-> "Read"]}

\* The table and the handle map agree: io_readers is the number of live read
\* handles of the path, io_writer is the live write handle of the path and
\* there is no other.  This is the desync that do_release's debug_assert
\* guards against.
Accounting ==
    \A p \in Paths :
        /\ locks[p].io_readers = Cardinality(ReadHandles(p))
        /\ \A h \in Handles :
              handles[h] = [path |-> p, mode |-> "Write"] <=> locks[p].io_writer = h

\* Two live handles on overlapping subtrees are both read handles: a writer
\* of a directory excludes every reader and writer below it and above it.
HierarchyExclusion ==
    \A g, h \in Handles :
        (/\ g # h
         /\ handles[g] # Gone
         /\ handles[h] # Gone
         /\ Related(handles[g].path, handles[h].path))
            => handles[g].mode = "Read" /\ handles[h].mode = "Read"

\* A thread that waits although its request could be granted is about to be
\* woken: the releaser that made room has still to call notify_all.  The
\* code promises that a waiter is woken on every release.
NoLostWakeup ==
    \A t \in Threads :
        (pc[t] = "waiting" /\ ~ late[t] /\ Grantable(req[t].path, req[t].mode))
            => \E u \in Threads : pc[u] = "notify"
=============================================================================
