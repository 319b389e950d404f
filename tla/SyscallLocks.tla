---------------------------- MODULE SyscallLocks ----------------------------
(***************************************************************************)
(* How the file syscalls of rust/kernel/src/kernel/io.rs use the I/O lock: *)
(*                                                                         *)
(*   single  sys_read (Read), sys_write, sys_unlink, sys_rmdir (Write):    *)
(*           one lock around the backend and metastore work;               *)
(*   fdread  sys_read of a regular file that has an open descriptor in the *)
(*           descriptor table (FDT): it reads without any lock;            *)
(*   pair    sys_rename and sys_copy: write locks on both paths, taken in  *)
(*           byte order; both timeouts are examined only after both calls  *)
(*           returned, a 0 makes the syscall release and miss;             *)
(*   batch   sys_write_batch: write locks on every path in byte order, a 0 *)
(*           only costs its own item, the rest of the batch goes on.       *)
(*                                                                         *)
(* The work done under the locks is one phase here; what it does to the    *)
(* metastore and the backend is not modelled in this module.               *)
(***************************************************************************)
EXTENDS IOLock, SequencesExt

CONSTANTS
    Rank,       \* position of each raw path in byte order
    PasPaths,   \* the paths on path-addressed backends (resolve_physical_path answers)
    MaxBatch    \* bound on the items of a write batch

ASSUME SyscallAssumption ==
    /\ Rank \in [RawPaths -> Nat]
    /\ \A p, q \in RawPaths : Rank[p] = Rank[q] => p = q
    /\ PasPaths \subseteq RawPaths
    /\ MaxBatch \in Nat

VARIABLES
    call,    \* the syscall each thread is in: its kind, mode and lock plan
    got,     \* the handles its blocking_acquire calls returned, in plan order
    phase,   \* "off", "next", "await", "work" or "release"; "pread" without locks
    fds,     \* the paths with an open descriptor in the descriptor table
    budget   \* handles the bound MaxHandle still allows syscalls to ask for

svars == <<call, got, phase, fds, budget>>
vars == <<iovars, svars>>

NoCall == [kind |-> "none", mode |-> "None", plan |-> <<>>]

MutPairPlanUnsorted(old, new) ==
    IF old = new THEN <<old>> ELSE <<old, new>>

\* The lock plans of a pair of paths: sorted by byte order, one lock if the
\* two arguments are the same string.
PairPlan(old, new) ==
    IF old = new THEN <<old>>
    ELSE IF Rank[old] <= Rank[new] THEN <<old, new>> ELSE <<new, old>>

Sorted(plan) == \A i \in 1 .. Len(plan) - 1 : Rank[plan[i]] <= Rank[plan[i + 1]]

OnePath == {<<p>> : p \in RawPaths}
SingleCalls == [kind : {"read"}, mode : {"Read"}, plan : OnePath]
               \cup [kind : {"write", "unlink"}, mode : {"Write"}, plan : OnePath]
PairCalls == [kind : {"pair"}, mode : {"Write"},
              plan : {PairPlan(p, q) : p, q \in RawPaths}]
BatchCalls == [kind : {"batch"}, mode : {"Write"},
               plan : {s \in SeqOf(RawPaths, MaxBatch) : Sorted(s) /\ s # <<>>}]

\* A read that found an open descriptor: its plan is never carried out.
FdReads == [kind : {"fdread"}, mode : {"Read"}, plan : OnePath]

Init ==
    /\ IOInit
    /\ call = [t \in Threads |-> NoCall]
    /\ got = [t \in Threads |-> <<>>]
    /\ phase = [t \in Threads |-> "off"]
    /\ fds = {}
    /\ budget = MaxHandle

-----------------------------------------------------------------------------
\* A thread enters a syscall.
Start(t, c) ==
    /\ phase[t] = "off"
    /\ Len(c.plan) <= budget
    /\ budget' = budget - Len(c.plan)
    /\ call' = [call EXCEPT ![t] = c]
    /\ got' = [got EXCEPT ![t] = <<>>]
    /\ phase' = [phase EXCEPT ![t] = "next"]
    /\ UNCHANGED <<iovars, fds>>

\* sys_read finds an open descriptor for its path and reads from it at once.
\* (A read that finds none, or whose pread fails, goes on to take the lock.)
StartPread(t, c) ==
    /\ phase[t] = "off"
    /\ c.plan[1] \in fds
    /\ call' = [call EXCEPT ![t] = c]
    /\ phase' = [phase EXCEPT ![t] = "pread"]
    /\ UNCHANGED <<iovars, got, fds, budget>>

\* The pread is over and sys_read returns what it read.
EndPread(t) ==
    /\ phase[t] = "pread"
    /\ call' = [call EXCEPT ![t] = NoCall]
    /\ phase' = [phase EXCEPT ![t] = "off"]
    /\ UNCHANGED <<iovars, got, fds, budget>>

\* The next lock of the plan is asked for, with the timeout configured in
\* vfs_lock_timeout_ms at that moment.
AcquireNext(t) ==
    /\ phase[t] = "next"
    /\ CallAcquire(t, call[t].plan[Len(got[t]) + 1], call[t].mode)
    /\ phase' = [phase EXCEPT ![t] = "await"]
    /\ UNCHANGED <<call, got, fds, budget>>

MutPairIgnoresSecondTimeout(t, answers) ==
    IF Len(answers) < Len(call[t].plan) THEN "next"
    ELSE IF call[t].kind # "batch" /\ answers[1] = NoHandle THEN "release"
    ELSE "work"

\* What follows once blocking_acquire answered: the rest of the plan, the
\* release of what was obtained if a single or a pair timed out, or the work.
AfterAnswers(t, answers) ==
    IF Len(answers) < Len(call[t].plan) THEN "next"
    ELSE IF call[t].kind # "batch" /\ NoHandle \in ToSet(answers) THEN "release"
    ELSE "work"

\* blocking_acquire returned.
Collect(t) ==
    LET answers == Append(got[t], ret[t])
    IN  /\ phase[t] = "await"
        /\ pc[t] = "idle"
        /\ got' = [got EXCEPT ![t] = answers]
        /\ phase' = [phase EXCEPT ![t] = AfterAnswers(t, answers)]
        /\ UNCHANGED <<iovars, call, fds, budget>>

\* The positions of the handles still to be released.
Held(t) == {i \in DOMAIN got[t] : got[t][i] # NoHandle}

\* The backend wrote the file of a path-addressed mount: sys_write opens a
\* descriptor for it and goes on working.
RegisterFd(t) ==
    /\ phase[t] = "work"
    /\ call[t].kind = "write"
    /\ call[t].plan[1] \in PasPaths
    /\ fds' = fds \cup {call[t].plan[1]}
    /\ UNCHANGED <<iovars, call, got, phase, budget>>

\* The descriptors when the work ends: an unlink that succeeded has closed the
\* path's own, a rename has moved the old path's to the new one; a copy, a
\* batch and a syscall that failed leave them alone.
FdsAfter(t) ==
    LET paths == ToSet(call[t].plan)
    IN  {fds}
        \cup {f \in {fds \ paths} : call[t].kind = "unlink"}
        \cup {(fds \ {old}) \cup {new} :
                 old \in {p \in paths \cap fds : call[t].kind = "pair"}, new \in paths}

\* The backend and metastore work under the locks ends, in success or error.
WorkDone(t) ==
    /\ phase[t] = "work"
    /\ fds' \in FdsAfter(t)
    /\ phase' = [phase EXCEPT ![t] = "release"]
    /\ UNCHANGED <<iovars, call, got, budget>>

\* One do_release.  A rename or copy releases the second lock first; a batch
\* goes through its items in request order, which is any order of the plan.
ReleaseNext(t) ==
    /\ phase[t] = "release"
    /\ \E i \in Held(t) :
          /\ call[t].kind # "batch" => \A j \in Held(t) : j <= i
          /\ ReleaseLocked(t, got[t][i])
          /\ got' = [got EXCEPT ![t][i] = NoHandle]
    /\ UNCHANGED <<call, phase, fds, budget>>

MutReturnWithoutRelease(t) ==
    /\ phase[t] = "release"
    /\ pc[t] = "idle"
    /\ call[t].kind = "pair" \/ Held(t) = {}
    /\ call' = [call EXCEPT ![t] = NoCall]
    /\ got' = [got EXCEPT ![t] = <<>>]
    /\ phase' = [phase EXCEPT ![t] = "off"]
    /\ UNCHANGED <<iovars, fds, budget>>

\* Nothing is left to release: the syscall returns.
Return(t) ==
    /\ phase[t] = "release"
    /\ pc[t] = "idle"
    /\ Held(t) = {}
    /\ call' = [call EXCEPT ![t] = NoCall]
    /\ got' = [got EXCEPT ![t] = <<>>]
    /\ phase' = [phase EXCEPT ![t] = "off"]
    /\ UNCHANGED <<iovars, fds, budget>>

-----------------------------------------------------------------------------
Starts(t) ==
    \/ \E c \in SingleCalls : Start(t, c)
    \/ \E c \in PairCalls : Start(t, c)
    \/ \E c \in BatchCalls : Start(t, c)
    \/ \E c \in FdReads : StartPread(t, c)

\* The steps of a syscall that the lock manager does not delay.
Syscall(t) ==
    \/ AcquireNext(t)
    \/ Collect(t)
    \/ WorkDone(t)
    \/ EndPread(t)
    \/ ReleaseNext(t)
    \/ Return(t)

LockStep(t) == Inside(t) /\ UNCHANGED svars
ClockStep(t) == DeadlinePasses(t) /\ UNCHANGED svars

Next ==
    \E t \in Threads :
        \/ Starts(t)
        \/ Syscall(t)
        \/ RegisterFd(t)
        \/ LockStep(t)
        \/ ClockStep(t)

\* A thread that can run does run, and time passes.  No fairness is assumed
\* between threads that compete for a lock: the mutex is not fair.
Fairness ==
    \A t \in Threads :
        /\ WF_vars(Syscall(t) \/ LockStep(t))
        /\ WF_vars(ClockStep(t))

Spec == Init /\ [][Next]_vars /\ Fairness

-----------------------------------------------------------------------------
\* Properties.

Phases == {"off", "next", "await", "work", "release", "pread"}

TypeOK ==
    /\ IOTypeOK
    /\ \A t \in Threads :
          /\ call[t] \in SingleCalls \cup PairCalls \cup BatchCalls \cup FdReads \cup {NoCall}
          /\ got[t] \in Seq(Handles \cup {NoHandle})
          /\ Len(got[t]) <= Len(call[t].plan)
          /\ phase[t] \in Phases
    /\ fds \subseteq RawPaths
    /\ budget \in 0 .. MaxHandle

\* The paths a syscall is working on: those whose lock it obtained, or the
\* one whose descriptor it reads from.
WorkingOn(t) ==
    IF phase[t] = "pread" THEN {NormalizePath(call[t].plan[1])}
    ELSE {NormalizePath(call[t].plan[i]) : i \in Held(t)}

\* Two syscalls at work on overlapping subtrees at the same time both only
\* read, whatever mixture of timeouts each of them met on the way.  The one
\* exception is a read from an open descriptor, which takes no lock and may
\* run in the middle of a write, an unlink or a rename of the same path.
WorkIsolated ==
    \A t, u \in Threads :
        (/\ t # u
         /\ {phase[t], phase[u]} \subseteq {"work", "pread"}
         /\ \E p \in WorkingOn(t), q \in WorkingOn(u) : Related(p, q))
            => \/ call[t].mode = "Read" /\ call[u].mode = "Read"
               \/ "fdread" \in {call[t].kind, call[u].kind}

\* A write, an unlink, a rename, a copy and a read through the backend only
\* work when they hold the lock of every path they touch: the timeout of one
\* lock of a pair is never overlooked.  Only a batch, which skips the items
\* it could not lock, and a read from an open descriptor work without.
WorkFullyLocked ==
    \A t \in Threads :
        phase[t] \in {"work", "pread"} /\ call[t].kind \notin {"batch", "fdread"} =>
            \A i \in DOMAIN call[t].plan :
                /\ got[t][i] # NoHandle
                /\ handles[got[t][i]] =
                      [path |-> NormalizePath(call[t].plan[i]), mode |-> call[t].mode]

\* The syscalls that own a handle: it is in their list, or it is the answer
\* they have not looked at yet.
Owners(h) ==
    {t \in Threads :
        \/ h \in ToSet(got[t])
        \/ phase[t] = "await" /\ pc[t] = "idle" /\ ret[t] = h}

\* Every live lock belongs to exactly one running syscall: no path through a
\* syscall, timed out or not, returns and leaves a lock behind.
NoOrphanLock ==
    \A h \in Handles : handles[h] # Gone => Cardinality(Owners(h)) = 1

\* t cannot go on because of a lock u holds.
WaitsFor(t, u) ==
    /\ phase[t] = "await"
    /\ pc[t] = "waiting"
    /\ \E i \in Held(u) :
          LET h == got[u][i]
          IN  /\ Related(handles[h].path, req[t].path)
              /\ "Write" \in {handles[h].mode, req[t].mode}

\* No group of syscalls wait for each other.  The code takes several locks in
\* byte order and calls that deadlock-free.
NoCircularWait ==
    \A S \in SUBSET Threads :
        Cardinality(S) > 1 => \E t \in S : \A u \in S \ {t} : ~ WaitsFor(t, u)

\* The path q is p or lies below it.
AtOrBelow(q, p) == p = q \/ p \in Ancestors(q)

\* Byte order follows the tree on the paths in use: a directory comes before
\* what is inside it, and nothing from outside comes in between.
FollowsTree(rank) ==
    LET norm(p) == NormalizePath(p)
    IN  /\ \A p, q \in DOMAIN rank : norm(p) \in Ancestors(norm(q)) => rank[p] < rank[q]
        /\ \A p, q, r \in DOMAIN rank :
              (/\ rank[p] <= rank[q] /\ rank[q] <= rank[r]
               /\ AtOrBelow(norm(r), norm(p)))
                  => AtOrBelow(norm(q), norm(p))

\* Every syscall ends: no thread stays in the lock manager for ever, even if
\* a wake-up is lost or two syscalls wait for each other, because each wait
\* is bounded by the timeout.
SyscallsReturn ==
    \A t \in Threads : []<>(phase[t] = "off")
=============================================================================
