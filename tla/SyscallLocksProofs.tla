------------------------- MODULE SyscallLocksProofs -------------------------
(***************************************************************************)
(* SyscallLocks: syscalls that work at the same time are isolated, and     *)
(* none leaves a lock behind, for any number of threads, any tree of paths *)
(* and any mixture of timeouts.  That they do not wait for each other in a  *)
(* circle is proved for trees whose byte order follows the hierarchy; the  *)
(* run SyscallLocksDash refutes it for another tree.                       *)
(***************************************************************************)
EXTENDS SyscallLocks, IOLockProofs, SequenceTheorems, WellFoundedInduction

Calls == SingleCalls \cup PairCalls \cup BatchCalls \cup FdReads

\* What the i-th lock of a thread's plan stands for.
Info(t, i) == [path |-> NormalizePath(call[t].plan[i]), mode |-> call[t].mode]

\* blocking_acquire gave the thread a handle that it has not looked at yet.
Answered(t) == phase[t] = "await" /\ pc[t] = "idle" /\ ret[t] # NoHandle

\* What is true of a thread where it is in its syscall: it has one answer for each
\* lock asked for, a request is for the next lock of the plan, and each handle it
\* has is live and stands for the path and mode in the same place of the plan.
ThreadOK(t) ==
    /\ phase[t] = "off" => call[t] = NoCall /\ got[t] = <<>>
    /\ phase[t] # "off" => call[t] \in Calls
    /\ phase[t] \in {"next", "await"} => Len(got[t]) < Len(call[t].plan)
    /\ phase[t] \in {"work", "release"} => Len(got[t]) = Len(call[t].plan)
    /\ phase[t] = "pread" => got[t] = <<>> /\ call[t].kind = "fdread"
    /\ pc[t] \in InCall => phase[t] = "await" /\ req[t] = Info(t, Len(got[t]) + 1)
    /\ pc[t] = "notify" => phase[t] = "release"
    /\ phase[t] = "work" /\ call[t].kind # "batch" => Held(t) = DOMAIN got[t]
    /\ \A i \in Held(t) : handles[got[t][i]] = Info(t, i)
    /\ \A i, j \in Held(t) : got[t][i] = got[t][j] => i = j
    /\ Answered(t) => handles[ret[t]] = Info(t, Len(got[t]) + 1) /\ ret[t] \notin ToSet(got[t])

\* Each live handle has an owner, and each owned one has no other.
OwnedOnce ==
    \A h \in Handles :
        /\ handles[h] # Gone => \E t \in Threads : t \in Owners(h)
        /\ \A t, u \in Threads : t \in Owners(h) /\ u \in Owners(h) => t = u

CallsOK ==
    /\ call \in [Threads -> Calls \cup {NoCall}]
    /\ got \in [Threads -> Seq(Handles \cup {NoHandle})]
    /\ phase \in [Threads -> Phases]
    /\ fds \in SUBSET RawPaths
    /\ budget \in 0 .. MaxHandle

SInv == IInv /\ CallsOK /\ (\A t \in Threads : ThreadOK(t)) /\ OwnedOnce

-----------------------------------------------------------------------------
\* Every plan is a non-empty sequence of paths, whatever the syscall.
LEMMA CallShapes ==
    ASSUME NEW c \in Calls
    PROVE  /\ c.plan \in Seq(RawPaths)
           /\ Len(c.plan) >= 1
           /\ c.mode \in Modes
           /\ c.kind # "none"
<1>1. CASE c \in SingleCalls
  <2>1. c.kind \in {"read", "write", "unlink"} /\ c.mode \in Modes
    BY <1>1 DEF SingleCalls, Modes
  <2>2. PICK p \in RawPaths : c.plan = <<p>>
    BY <1>1 DEF SingleCalls, OnePath
  <2>3. c.plan \in Seq(RawPaths) /\ Len(c.plan) = 1
    BY <2>2
  <2> QED
    BY <2>1, <2>3
<1>2. CASE c \in PairCalls
  <2>1. c.kind = "pair" /\ c.mode = "Write"
    BY <1>2 DEF PairCalls
  <2>2. PICK p \in RawPaths, q \in RawPaths : c.plan = PairPlan(p, q)
    BY <1>2 DEF PairCalls
  <2> QED
    BY <2>1, <2>2 DEF PairPlan, Modes
<1>3. CASE c \in BatchCalls
  <2>1. /\ c.kind = "batch" /\ c.mode = "Write"
        /\ c.plan \in SeqOf(RawPaths, MaxBatch) /\ c.plan # <<>>
    BY <1>3 DEF BatchCalls
  <2>2. PICK m \in 0 .. MaxBatch : c.plan \in [1 .. m -> RawPaths]
    BY <2>1 DEF SeqOf
  <2>3. m \in Nat
    BY SyscallAssumption
  <2>4. c.plan \in Seq(RawPaths) /\ Len(c.plan) = m
    BY <2>2, <2>3
  <2>5. Len(c.plan) # 0
    BY <2>1, <2>4, EmptySeq
  <2> QED
    BY <2>1, <2>3, <2>4, <2>5 DEF Modes
<1>4. CASE c \in FdReads
  <2>1. c.kind = "fdread" /\ c.mode \in Modes
    BY <1>4 DEF FdReads, Modes
  <2>2. PICK p \in RawPaths : c.plan = <<p>>
    BY <1>4 DEF FdReads, OnePath
  <2>3. c.plan \in Seq(RawPaths) /\ Len(c.plan) = 1
    BY <2>2
  <2> QED
    BY <2>1, <2>3
<1> QED
  BY <1>1, <1>2, <1>3, <1>4 DEF Calls

\* What the types say of one thread.
LEMMA ThreadTypes ==
    ASSUME CallsOK, NEW t \in Threads
    PROVE  /\ got[t] \in Seq(Handles \cup {NoHandle})
           /\ Len(got[t]) \in Nat
           /\ DOMAIN got[t] = 1 .. Len(got[t])
           /\ \A i \in 1 .. Len(got[t]) : got[t][i] \in Handles \cup {NoHandle}
           /\ Held(t) \subseteq 1 .. Len(got[t])
           /\ \A i \in Held(t) : got[t][i] \in Handles
           /\ phase[t] \in Phases
<1>1. got[t] \in Seq(Handles \cup {NoHandle})
  BY DEF CallsOK
<1>2. /\ Len(got[t]) \in Nat
      /\ DOMAIN got[t] = 1 .. Len(got[t])
      /\ \A i \in 1 .. Len(got[t]) : got[t][i] \in Handles \cup {NoHandle}
  BY <1>1, LenProperties, ElementOfSeq
<1> QED
  BY <1>1, <1>2 DEF Held, CallsOK

\* What it is for a thread to own a handle.
LEMMA OwnsMeans ==
    ASSUME CallsOK, NEW t \in Threads, NEW h \in Handles
    PROVE  t \in Owners(h) <=> \/ \E i \in Held(t) : got[t][i] = h
                               \/ Answered(t) /\ ret[t] = h
<1>1. h # NoHandle
  BY IOLockAssumption DEF Handles, NoHandle
<1>2. h \in ToSet(got[t]) <=> \E i \in Held(t) : got[t][i] = h
  BY <1>1 DEF ToSet, Held
<1> QED
  BY <1>1, <1>2 DEF Owners, Answered

\* A lock stands for a path of the plan, so it is never the absent handle.
LEMMA InfoIsLive ==
    ASSUME SInv, NEW t \in Threads, phase[t] # "off",
           NEW i \in 1 .. Len(call[t].plan)
    PROVE  /\ call[t].plan[i] \in RawPaths
           /\ call[t].mode \in Modes
           /\ Info(t, i) \in HandleInfo
           /\ Info(t, i) # Gone
<1>1. call[t] \in Calls
  BY DEF SInv, ThreadOK
<1>2. call[t].plan \in Seq(RawPaths) /\ call[t].mode \in Modes
  BY <1>1, CallShapes
<1>3. call[t].plan[i] \in RawPaths
  BY <1>2, ElementOfSeq
<1> QED
  BY <1>2, <1>3 DEF Info, HandleInfo, Paths, Gone, Modes

\* A handle that a thread owns is live: it is not the one a grant issues.
LEMMA OwnedIsLive ==
    ASSUME SInv, NEW t \in Threads, NEW h \in Handles, t \in Owners(h)
    PROVE  handles[h] # Gone
<1>0. CallsOK /\ ThreadOK(t)
  BY DEF SInv
<1>1. /\ Len(got[t]) \in Nat
      /\ Held(t) \subseteq 1 .. Len(got[t])
      /\ phase[t] \in Phases
  BY <1>0, ThreadTypes
<1>2. ASSUME NEW i \in Held(t), got[t][i] = h
      PROVE  handles[h] # Gone
  <2>1. phase[t] # "off"
    BY <1>0, <1>2, EmptySeq DEF ThreadOK, Held
  <2>2. Len(got[t]) <= Len(call[t].plan) /\ Len(call[t].plan) \in Nat
    <3>1. call[t].plan \in Seq(RawPaths)
      BY <1>0, <2>1, CallShapes DEF ThreadOK
    <3>2. Len(call[t].plan) \in Nat
      BY <3>1, LenProperties
    <3> QED
      BY <1>0, <1>1, <2>1, <3>2 DEF ThreadOK, Phases
  <2>3. i \in 1 .. Len(call[t].plan)
    BY <1>1, <2>2
  <2>4. Info(t, i) # Gone
    BY <2>1, <2>3, InfoIsLive
  <2> QED
    BY <1>0, <1>2, <2>4 DEF ThreadOK
<1>3. ASSUME Answered(t), ret[t] = h
      PROVE  handles[h] # Gone
  <2>1. phase[t] = "await"
    BY <1>3 DEF Answered
  <2>2. Len(got[t]) < Len(call[t].plan)
    BY <1>0, <2>1 DEF ThreadOK
  <2>3. Len(call[t].plan) \in Nat
    <3>1. call[t].plan \in Seq(RawPaths)
      BY <1>0, <2>1, CallShapes DEF ThreadOK
    <3> QED
      BY <3>1, LenProperties
  <2>4. Len(got[t]) + 1 \in 1 .. Len(call[t].plan)
    BY <1>1, <2>2, <2>3
  <2>5. Info(t, Len(got[t]) + 1) # Gone
    BY <2>1, <2>4, InfoIsLive
  <2> QED
    BY <1>0, <1>3, <2>5 DEF ThreadOK
<1> QED
  BY <1>0, <1>2, <1>3, OwnsMeans

-----------------------------------------------------------------------------
\* A step of another thread leaves u where it is, except that it may be woken,
\* and does not touch the handles that u owns.
Stays(u) ==
    /\ call'[u] = call[u] /\ got'[u] = got[u] /\ phase'[u] = phase[u]
    /\ req'[u] = req[u] /\ ret'[u] = ret[u]
    /\ pc'[u] = pc[u] \/ (pc[u] = "waiting" /\ pc'[u] = "woken")
    /\ \A h \in Handles : u \in Owners(h) => handles'[h] = handles[h]

\* Such a step keeps what is true of u, and what u owns.
LEMMA StaysOK ==
    ASSUME SInv, CallsOK', IInv', NEW u \in Threads, Stays(u)
    PROVE  /\ ThreadOK(u)'
           /\ \A h \in Handles : u \in Owners(h)' <=> u \in Owners(h)
<1>0. ThreadOK(u) /\ CallsOK
  BY DEF SInv
<1>1. Held(u)' = Held(u) /\ (Answered(u)' <=> Answered(u))
  BY DEF Stays, Held, Answered
<1>2. \A i : Info(u, i)' = Info(u, i)
  BY DEF Stays, Info
<1>3. \A h \in Handles : u \in Owners(h)' <=> u \in Owners(h)
  <2> TAKE h \in Handles
  <2>1. (h \in ToSet(got[u]))' <=> h \in ToSet(got[u])
    BY DEF Stays, ToSet
  <2> QED
    BY <2>1 DEF Owners, Stays
<1>4. \A i \in Held(u) : got[u][i] \in Handles /\ handles'[got[u][i]] = handles[got[u][i]]
  <2> TAKE i \in Held(u)
  <2>1. got[u][i] \in Handles
    BY <1>0, ThreadTypes
  <2>2. u \in Owners(got[u][i])
    BY <1>0, <2>1, OwnsMeans
  <2> QED
    BY <2>1, <2>2 DEF Stays
<1>5. Answered(u) => handles'[ret[u]] = handles[ret[u]]
  <2> HAVE Answered(u)
  <2>1. ret[u] \in Handles
    BY DEF SInv, IInv, IOTypeOK, Answered
  <2>2. u \in Owners(ret[u])
    BY <1>0, <2>1, OwnsMeans
  <2> QED
    BY <2>1, <2>2 DEF Stays
<1>6. (pc'[u] \in InCall => pc[u] \in InCall) /\ (pc'[u] = "notify" => pc[u] = "notify")
  BY DEF Stays, InCall
<1>7. /\ \A i \in Held(u)' : handles'[got'[u][i]] = Info(u, i)'
      /\ \A i, j \in Held(u)' : got'[u][i] = got'[u][j] => i = j
  BY <1>0, <1>1, <1>2, <1>4 DEF ThreadOK, Stays
<1>8. Answered(u)' => /\ handles'[ret'[u]] = Info(u, Len(got[u]) + 1)'
                      /\ ret'[u] \notin ToSet(got'[u])
  BY <1>0, <1>1, <1>2, <1>5 DEF ThreadOK, Stays
<1>9. /\ pc'[u] \in InCall => phase'[u] = "await" /\ req'[u] = Info(u, Len(got[u]) + 1)'
      /\ pc'[u] = "notify" => phase'[u] = "release"
      /\ phase'[u] = "work" /\ call'[u].kind # "batch" => Held(u)' = DOMAIN got'[u]
  <2>1. pc'[u] \in InCall => phase'[u] = "await" /\ req'[u] = Info(u, Len(got[u]) + 1)'
    BY <1>0, <1>2, <1>6 DEF ThreadOK, Stays
  <2>2. pc'[u] = "notify" => phase'[u] = "release"
    BY <1>0, <1>6 DEF ThreadOK, Stays
  <2>3. phase'[u] = "work" /\ call'[u].kind # "batch" => Held(u)' = DOMAIN got'[u]
    BY <1>0, <1>1 DEF ThreadOK, Stays
  <2> QED
    BY <2>1, <2>2, <2>3
<1>10. /\ phase'[u] = "off" => call'[u] = NoCall /\ got'[u] = <<>>
       /\ phase'[u] # "off" => call'[u] \in Calls
       /\ phase'[u] \in {"next", "await"} => Len(got'[u]) < Len(call'[u].plan)
       /\ phase'[u] \in {"work", "release"} => Len(got'[u]) = Len(call'[u].plan)
       /\ phase'[u] = "pread" => got'[u] = <<>> /\ call'[u].kind = "fdread"
  BY <1>0 DEF ThreadOK, Stays
<1>11. ThreadOK(u)'
  BY <1>7, <1>8, <1>9, <1>10 DEF ThreadOK, Stays
<1> QED
  BY <1>3, <1>11

\* One thread moves, the others stay: what it gains was nobody's, what it
\* loses is gone.
LEMMA Moves ==
    ASSUME SInv, IInv', CallsOK', NEW t \in Threads, ThreadOK(t)',
           \A u \in Threads \ {t} : Stays(u),
           \A h \in Handles :
               /\ t \in Owners(h)' => t \in Owners(h) \/ handles[h] = Gone
               /\ handles'[h] # Gone => handles[h] # Gone \/ t \in Owners(h)'
               /\ t \in Owners(h) => t \in Owners(h)' \/ handles'[h] = Gone
    PROVE  SInv'
<1>1. \A u \in Threads \ {t} : /\ ThreadOK(u)'
                               /\ \A h \in Handles : u \in Owners(h)' <=> u \in Owners(h)
  BY StaysOK
<1>2. \A u \in Threads, h \in Handles : u \in Owners(h) => handles[h] # Gone
  BY OwnedIsLive
<1>3. \A h \in Handles :
        /\ handles[h] # Gone => \E u \in Threads : u \in Owners(h)
        /\ \A u, v \in Threads : u \in Owners(h) /\ v \in Owners(h) => u = v
  BY DEF SInv, OwnedOnce
<1>4. ASSUME NEW h \in Handles, handles'[h] # Gone
      PROVE  \E u \in Threads : u \in Owners(h)'
  <2>1. CASE t \in Owners(h)'
    BY <2>1
  <2>2. CASE t \notin Owners(h)'
    <3>1. handles[h] # Gone /\ t \notin Owners(h)
      BY <1>4, <2>2
    <3>2. PICK u \in Threads : u \in Owners(h)
      BY <1>3, <3>1
    <3>3. u \in Threads \ {t}
      BY <3>1, <3>2
    <3> QED
      BY <1>1, <3>2, <3>3
  <2> QED
    BY <2>1, <2>2
<1>5. ASSUME NEW h \in Handles, NEW u \in Threads, NEW v \in Threads,
             u \in Owners(h)', v \in Owners(h)'
      PROVE  u = v
  <2>1. CASE u \in Threads \ {t} /\ v \in Threads \ {t}
    BY <1>1, <1>3, <1>5, <2>1
  <2>2. ASSUME t \in Owners(h)', NEW w \in Threads \ {t}, w \in Owners(h)'
        PROVE  FALSE
    <3>1. w \in Owners(h)
      BY <1>1, <2>2
    <3>2. handles[h] # Gone
      BY <1>2, <3>1
    <3>3. t \in Owners(h)
      BY <2>2, <3>2
    <3> QED
      BY <1>3, <3>1, <3>3
  <2> QED
    BY <1>5, <2>1, <2>2
<1>6. OwnedOnce'
  BY <1>4, <1>5 DEF OwnedOnce
<1>7. \A u \in Threads : ThreadOK(u)'
  BY <1>1
<1> QED
  BY <1>6, <1>7 DEF SInv

\* The moving thread keeps its list of handles: what is true of the list stays.
LEMMA ListStays ==
    ASSUME SInv, NEW t \in Threads, call'[t] = call[t], got'[t] = got[t],
           \A h \in Handles : t \in Owners(h) => handles'[h] = handles[h]
    PROVE  /\ Held(t)' = Held(t)
           /\ \A i : Info(t, i)' = Info(t, i)
           /\ \A i \in Held(t)' : handles'[got'[t][i]] = Info(t, i)'
           /\ \A i, j \in Held(t)' : got'[t][i] = got'[t][j] => i = j
           /\ \A h \in Handles : h \in ToSet(got'[t]) <=> h \in ToSet(got[t])
<1>0. ThreadOK(t) /\ CallsOK
  BY DEF SInv
<1>1. Held(t)' = Held(t)
  BY DEF Held
<1>2. \A i : Info(t, i)' = Info(t, i)
  BY DEF Info
<1>3. \A i \in Held(t) : handles'[got[t][i]] = handles[got[t][i]]
  <2> TAKE i \in Held(t)
  <2>1. got[t][i] \in Handles
    BY <1>0, ThreadTypes
  <2>2. t \in Owners(got[t][i])
    BY <1>0, <2>1, OwnsMeans
  <2> QED
    BY <2>1, <2>2
<1>4. /\ \A i \in Held(t)' : handles'[got'[t][i]] = Info(t, i)'
      /\ \A i, j \in Held(t)' : got'[t][i] = got'[t][j] => i = j
  BY <1>0, <1>1, <1>2, <1>3 DEF ThreadOK
<1> QED
  BY <1>1, <1>2, <1>4

-----------------------------------------------------------------------------
\* A thread that enters a syscall owns nothing.
LEMMA StartSInv ==
    ASSUME SInv, IInv', NEW t \in Threads, NEW c \in Calls, Start(t, c)
    PROVE  SInv'
<1>0. ThreadOK(t) /\ CallsOK
  BY DEF SInv
<1>1. /\ c.plan \in Seq(RawPaths) /\ Len(c.plan) \in Nat /\ Len(c.plan) >= 1
  BY CallShapes, LenProperties
<1>2. /\ call'[t] = c /\ got'[t] = <<>> /\ phase'[t] = "next"
      /\ phase[t] = "off" /\ got[t] = <<>>
      /\ pc'[t] = pc[t] /\ ret'[t] = ret[t]
      /\ UNCHANGED <<handles, pc, req, ret>>
  BY <1>0 DEF Start, CallsOK, ThreadOK, iovars
<1>3. CallsOK'
  <2>1. call' \in [Threads -> Calls \cup {NoCall}]
    BY <1>0 DEF Start, CallsOK
  <2>2. got' \in [Threads -> Seq(Handles \cup {NoHandle})]
    BY <1>0 DEF Start, CallsOK
  <2>3. phase' \in [Threads -> Phases]
    BY <1>0 DEF Start, CallsOK, Phases
  <2>4. budget' \in 0 .. MaxHandle
    <3>1. budget \in 0 .. MaxHandle /\ Len(c.plan) <= budget /\ budget' = budget - Len(c.plan)
      BY <1>0 DEF Start, CallsOK
    <3> QED
      BY <1>1, <3>1, IOLockAssumption
  <2> QED
    BY <1>0, <2>1, <2>2, <2>3, <2>4 DEF Start, CallsOK
<1>4. pc[t] \notin InCall /\ pc[t] # "notify"
  BY <1>0, <1>2 DEF ThreadOK
<1>5. Held(t) = {} /\ Held(t)' = {} /\ ~ Answered(t) /\ ~ Answered(t)'
  BY <1>2 DEF Held, Answered
<1>6. ThreadOK(t)'
  <2>1. Len(got'[t]) < Len(call'[t].plan)
    BY <1>1, <1>2
  <2> QED
    BY <1>2, <1>4, <1>5, <2>1 DEF ThreadOK
<1>7. \A h \in Handles : t \notin Owners(h) /\ t \notin Owners(h)'
  <2> TAKE h \in Handles
  <2>1. t \notin Owners(h)
    BY <1>0, <1>5, OwnsMeans
  <2>2. h \notin ToSet(got'[t])
    BY <1>2 DEF ToSet
  <2> QED
    BY <1>2, <2>1, <2>2 DEF Owners
<1>8. \A u \in Threads \ {t} : Stays(u)
  BY <1>0, <1>2 DEF Start, Stays, CallsOK
<1> QED
  BY <1>2, <1>3, <1>6, <1>7, <1>8, Moves

\* The next lock of the plan is asked for.
LEMMA AcquireNextSInv ==
    ASSUME SInv, IInv', NEW t \in Threads, AcquireNext(t)
    PROVE  SInv'
<1>0. ThreadOK(t) /\ CallsOK /\ IInv
  BY DEF SInv
<1>1. /\ phase[t] = "next" /\ pc[t] = "idle"
      /\ phase'[t] = "await" /\ pc'[t] = "fast"
      /\ call' = call /\ got' = got /\ handles' = handles /\ ret' = ret
      /\ budget' = budget /\ fds' = fds
  BY <1>0 DEF AcquireNext, CallAcquire, CallsOK, IInv, IOTypeOK
<1>2. req'[t] = Info(t, Len(got[t]) + 1)
  BY <1>0 DEF AcquireNext, CallAcquire, IInv, IOTypeOK, Info
<1>3. CallsOK'
  BY <1>0, <1>1 DEF AcquireNext, CallsOK, Phases
<1>4. /\ Held(t)' = Held(t)
      /\ \A i : Info(t, i)' = Info(t, i)
      /\ \A i \in Held(t)' : handles'[got'[t][i]] = Info(t, i)'
      /\ \A i, j \in Held(t)' : got'[t][i] = got'[t][j] => i = j
  BY <1>1, ListStays
<1>5. req'[t] = Info(t, Len(got[t]) + 1)'
  BY <1>1, <1>2 DEF Info
<1>6. ~ Answered(t) /\ ~ Answered(t)'
  BY <1>1 DEF Answered
<1>7. ThreadOK(t)'
  BY <1>0, <1>1, <1>4, <1>5, <1>6 DEF ThreadOK
<1>8. \A h \in Handles : t \in Owners(h)' <=> t \in Owners(h)
  BY <1>1 DEF Owners
<1>9. \A u \in Threads \ {t} : Stays(u)
  BY <1>0, <1>1 DEF AcquireNext, CallAcquire, Stays, CallsOK, IInv, IOTypeOK
<1> QED
  BY <1>1, <1>3, <1>7, <1>8, <1>9, Moves

\* The answers after a collect: the old ones, then the new one.
LEMMA CollectList ==
    ASSUME SInv, NEW t \in Threads, Collect(t)
    PROVE  /\ got'[t] \in Seq(Handles \cup {NoHandle})
           /\ Len(got[t]) \in Nat
           /\ Len(got'[t]) = Len(got[t]) + 1
           /\ DOMAIN got'[t] = 1 .. Len(got[t]) + 1
           /\ \A i \in 1 .. Len(got[t]) : got'[t][i] = got[t][i]
           /\ got'[t][Len(got[t]) + 1] = ret[t]
           /\ phase'[t] = AfterAnswers(t, got'[t])
<1>1. got[t] \in Seq(Handles \cup {NoHandle}) /\ ret[t] \in Handles \cup {NoHandle}
      /\ Len(got[t]) \in Nat
  BY ThreadTypes DEF SInv, IInv, IOTypeOK
<1>2. got'[t] = Append(got[t], ret[t]) /\ phase'[t] = AfterAnswers(t, got'[t])
  BY DEF Collect, SInv, CallsOK
<1> QED
  BY <1>1, <1>2, AppendProperties, LenProperties

\* blocking_acquire's answer joins the list: a handle it gave goes on being
\* owned by the thread, and by nobody else.
LEMMA CollectSInv ==
    ASSUME SInv, IInv', NEW t \in Threads, Collect(t)
    PROVE  SInv'
<1> DEFINE n == Len(got[t])
<1>0. ThreadOK(t) /\ CallsOK /\ IInv
  BY DEF SInv
<1>1. /\ phase[t] = "await" /\ pc[t] = "idle" /\ call' = call
      /\ UNCHANGED <<handles, pc, req, ret, fds, budget>>
  BY DEF Collect, iovars
<1>2. /\ got'[t] \in Seq(Handles \cup {NoHandle})
      /\ n \in Nat
      /\ Len(got'[t]) = n + 1
      /\ DOMAIN got'[t] = 1 .. n + 1
      /\ \A i \in 1 .. n : got'[t][i] = got[t][i]
      /\ got'[t][n + 1] = ret[t]
      /\ phase'[t] = AfterAnswers(t, got'[t])
  BY CollectList
<1>3. /\ DOMAIN got[t] = 1 .. n
      /\ ret[t] \in Handles \cup {NoHandle}
  BY <1>0, ThreadTypes DEF IInv, IOTypeOK
<1>4. /\ \A u \in Threads \ {t} : got'[u] = got[u] /\ phase'[u] = phase[u]
      /\ got' = [got EXCEPT ![t] = got'[t]]
      /\ phase' = [phase EXCEPT ![t] = phase'[t]]
  BY <1>0 DEF Collect, CallsOK
<1> HIDE DEF n
<1>5. call[t] \in Calls /\ n < Len(call[t].plan) /\ Len(call[t].plan) \in Nat
  <2>1. call[t] \in Calls /\ n < Len(call[t].plan)
    BY <1>0, <1>1 DEF ThreadOK, n
  <2>2. call[t].plan \in Seq(RawPaths)
    BY <2>1, CallShapes
  <2> QED
    BY <2>1, <2>2, LenProperties
<1>6. /\ phase'[t] \in {"next", "work", "release"}
      /\ phase'[t] = "next" => Len(got'[t]) < Len(call[t].plan)
      /\ phase'[t] # "next" => Len(got'[t]) = Len(call[t].plan)
      /\ phase'[t] = "work" /\ call[t].kind # "batch" =>
            \A i \in 1 .. n + 1 : got'[t][i] # NoHandle
  <2>1. /\ phase'[t] \in {"next", "work", "release"}
        /\ phase'[t] = "next" <=> n + 1 < Len(call[t].plan)
    BY <1>2 DEF AfterAnswers
  <2>2. phase'[t] = "work" /\ call[t].kind # "batch" => NoHandle \notin ToSet(got'[t])
    BY <1>2 DEF AfterAnswers
  <2>3. NoHandle \notin ToSet(got'[t]) => \A i \in 1 .. n + 1 : got'[t][i] # NoHandle
    BY <1>2 DEF ToSet
  <2>4. n + 1 <= Len(call[t].plan)
    BY <1>2, <1>5
  <2> QED
    BY <1>2, <1>5, <2>1, <2>2, <2>3, <2>4
<1>7. CallsOK'
  <2>1. got' \in [Threads -> Seq(Handles \cup {NoHandle})]
    BY <1>0, <1>2, <1>4 DEF CallsOK
  <2>2. phase'[t] \in Phases
    BY <1>6 DEF Phases
  <2>3. phase' \in [Threads -> Phases]
    BY <1>0, <1>4, <2>2 DEF CallsOK
  <2> QED
    BY <1>0, <1>1, <2>1, <2>3 DEF CallsOK
<1>8. Held(t) = {i \in 1 .. n : got[t][i] # NoHandle}
  BY <1>3 DEF Held
<1>9. Held(t)' = {i \in 1 .. n + 1 : got'[t][i] # NoHandle}
  BY <1>2 DEF Held
<1>10. /\ Held(t) \subseteq Held(t)'
       /\ Held(t)' \subseteq Held(t) \cup {n + 1}
       /\ n + 1 \in Held(t)' <=> ret[t] # NoHandle
       /\ n + 1 \notin Held(t)
  <2>1. 1 .. n + 1 = (1 .. n) \cup {n + 1} /\ n + 1 \notin 1 .. n
    BY <1>2
  <2> QED
    BY <1>2, <1>8, <1>9, <2>1
<1>11. Answered(t) <=> ret[t] # NoHandle
  BY <1>1 DEF Answered
<1>12. \A i \in Held(t) : got'[t][i] = got[t][i]
  BY <1>2, <1>8
<1>13. \A i : Info(t, i)' = Info(t, i)
  BY <1>1 DEF Info
<1>14. ret[t] # NoHandle => /\ handles[ret[t]] = Info(t, n + 1)
                            /\ \A i \in Held(t) : got[t][i] # ret[t]
  <2>1. ret[t] # NoHandle => handles[ret[t]] = Info(t, n + 1) /\ ret[t] \notin ToSet(got[t])
    BY <1>0, <1>11 DEF ThreadOK, n
  <2> QED
    BY <2>1 DEF ToSet, Held
<1>15. \A i \in Held(t)' : handles'[got'[t][i]] = Info(t, i)'
  BY <1>0, <1>1, <1>2, <1>10, <1>12, <1>13, <1>14 DEF ThreadOK
<1>16. \A i, j \in Held(t)' : got'[t][i] = got'[t][j] => i = j
  <2>1. \A i, j \in Held(t) : got'[t][i] = got'[t][j] => i = j
    BY <1>0, <1>12 DEF ThreadOK
  <2>2. \A i \in Held(t) : n + 1 \in Held(t)' => got'[t][i] # got'[t][n + 1]
    BY <1>2, <1>10, <1>12, <1>14
  <2> QED
    BY <1>10, <2>1, <2>2
<1>17. ThreadOK(t)'
  <2>1. pc'[t] \notin InCall /\ pc'[t] # "notify" /\ ~ Answered(t)'
    BY <1>1, <1>6 DEF InCall, Answered
  <2>2. phase'[t] = "work" /\ call'[t].kind # "batch" => Held(t)' = DOMAIN got'[t]
    BY <1>1, <1>2, <1>6, <1>9
  <2> QED
    BY <1>1, <1>5, <1>6, <1>15, <1>16, <2>1, <2>2 DEF ThreadOK
<1>18. \A h \in Handles : t \in Owners(h)' <=> t \in Owners(h)
  <2> TAKE h \in Handles
  <2>0. h # NoHandle
    BY IOLockAssumption DEF Handles, NoHandle
  <2>1. t \in Owners(h) <=> (\E i \in Held(t) : got[t][i] = h) \/ ret[t] = h
    BY <1>0, <1>11, <2>0, OwnsMeans
  <2>2. h \in ToSet(got'[t]) <=> \E i \in Held(t)' : got'[t][i] = h
    BY <2>0 DEF ToSet, Held
  <2>3. t \in Owners(h)' <=> \E i \in Held(t)' : got'[t][i] = h
    BY <1>6, <2>2 DEF Owners
  <2> QED
    BY <1>2, <1>10, <1>12, <2>0, <2>1, <2>3
<1>19. \A u \in Threads \ {t} : Stays(u)
  BY <1>1, <1>4 DEF Stays
<1> QED
  BY <1>1, <1>7, <1>17, <1>18, <1>19, Moves

\* The descriptors a syscall leaves behind are of paths.
LEMMA FdsArePaths ==
    ASSUME SInv, NEW t \in Threads, phase[t] = "work"
    PROVE  FdsAfter(t) \subseteq SUBSET RawPaths
<1>1. call[t].plan \in Seq(RawPaths) /\ fds \subseteq RawPaths
  BY CallShapes DEF SInv, ThreadOK, CallsOK
<1>2. ToSet(call[t].plan) \subseteq RawPaths
  BY <1>1, ElementOfSeq, LenProperties DEF ToSet
<1> QED
  BY <1>1, <1>2 DEF FdsAfter

\* A sys_write opens a descriptor: no lock is concerned.
LEMMA RegisterFdSInv ==
    ASSUME SInv, IInv', NEW t \in Threads, RegisterFd(t)
    PROVE  SInv'
<1>0. ThreadOK(t) /\ CallsOK
  BY DEF SInv
<1>1. UNCHANGED <<handles, pc, req, ret, call, got, phase, budget>>
  BY DEF RegisterFd, iovars
<1>2. CallsOK'
  BY <1>0, <1>1, SyscallAssumption DEF RegisterFd, CallsOK
<1>3. \A u \in Threads : Stays(u)
  BY <1>1 DEF Stays
<1>4. \A u \in Threads : ThreadOK(u)' /\ \A h \in Handles : u \in Owners(h)' <=> u \in Owners(h)
  BY <1>2, <1>3, StaysOK
<1>5. OwnedOnce'
  BY <1>1, <1>4 DEF OwnedOnce, SInv
<1> QED
  BY <1>2, <1>4, <1>5 DEF SInv

\* A read from an open descriptor owns nothing, before, during and after it.
LEMMA PreadSInv ==
    ASSUME SInv, IInv', NEW t \in Threads,
           EndPread(t) \/ \E c \in FdReads : StartPread(t, c)
    PROVE  SInv'
<1>0. ThreadOK(t) /\ CallsOK
  BY DEF SInv
<1>1. /\ phase[t] \in {"off", "pread"} /\ got[t] = <<>> /\ got'[t] = <<>>
      /\ UNCHANGED <<handles, pc, req, ret, got, fds, budget>>
  BY <1>0 DEF StartPread, EndPread, ThreadOK, iovars
<1>2. \/ call'[t] = NoCall /\ phase'[t] = "off"
      \/ call'[t] \in FdReads /\ phase'[t] = "pread"
  BY <1>0 DEF StartPread, EndPread, CallsOK
<1>3. /\ call' = [call EXCEPT ![t] = call'[t]]
      /\ phase' = [phase EXCEPT ![t] = phase'[t]]
  BY <1>0 DEF StartPread, EndPread, CallsOK
<1>4. CallsOK'
  <2>1. call'[t] \in Calls \cup {NoCall} /\ phase'[t] \in Phases
    BY <1>2 DEF Calls, Phases
  <2> QED
    BY <1>0, <1>1, <1>3, <2>1 DEF CallsOK
<1>5. pc[t] \notin InCall /\ pc[t] # "notify"
  BY <1>0, <1>1 DEF ThreadOK
<1>6. Held(t) = {} /\ Held(t)' = {} /\ ~ Answered(t) /\ ~ Answered(t)'
  BY <1>1, <1>2 DEF Held, Answered
<1>7. ThreadOK(t)'
  <2>1. call'[t] \in FdReads => call'[t] \in Calls /\ call'[t].kind = "fdread"
    BY DEF Calls, FdReads
  <2> QED
    BY <1>1, <1>2, <1>5, <1>6, <2>1 DEF ThreadOK
<1>8. \A h \in Handles : t \notin Owners(h) /\ t \notin Owners(h)'
  <2> TAKE h \in Handles
  <2>1. t \notin Owners(h)
    BY <1>0, <1>6, OwnsMeans
  <2>2. h \notin ToSet(got'[t])
    BY <1>1 DEF ToSet
  <2> QED
    BY <1>2, <2>1, <2>2 DEF Owners
<1>9. \A u \in Threads \ {t} : Stays(u)
  BY <1>0, <1>1, <1>3 DEF Stays, CallsOK
<1> QED
  BY <1>1, <1>4, <1>7, <1>8, <1>9, Moves

\* The work ends: the locks are still held.
LEMMA WorkDoneSInv ==
    ASSUME SInv, IInv', NEW t \in Threads, WorkDone(t)
    PROVE  SInv'
<1>0. ThreadOK(t) /\ CallsOK
  BY DEF SInv
<1>1. /\ phase[t] = "work" /\ phase'[t] = "release"
      /\ UNCHANGED <<handles, pc, req, ret, call, got, budget>>
  BY <1>0 DEF WorkDone, CallsOK, iovars
<1>2. CallsOK'
  <2>1. fds' \in SUBSET RawPaths
    BY <1>1, FdsArePaths DEF WorkDone
  <2> QED
    BY <1>0, <1>1, <2>1 DEF WorkDone, CallsOK, Phases
<1>3. /\ \A i \in Held(t)' : handles'[got'[t][i]] = Info(t, i)'
      /\ \A i, j \in Held(t)' : got'[t][i] = got'[t][j] => i = j
  BY <1>1, ListStays
<1>4. pc[t] \notin InCall /\ pc[t] # "notify"
  BY <1>0, <1>1 DEF ThreadOK
<1>5. ~ Answered(t)'
  BY <1>1 DEF Answered
<1>6. ThreadOK(t)'
  BY <1>0, <1>1, <1>3, <1>4, <1>5 DEF ThreadOK
<1>7. \A h \in Handles : t \in Owners(h)' <=> t \in Owners(h)
  BY <1>1 DEF Owners
<1>8. \A u \in Threads \ {t} : Stays(u)
  BY <1>0, <1>1 DEF WorkDone, Stays, CallsOK
<1> QED
  BY <1>1, <1>2, <1>6, <1>7, <1>8, Moves

\* The list after a release: the handle's place is empty, the others are kept.
LEMMA ReleaseList ==
    ASSUME SInv, NEW t \in Threads, NEW k \in Held(t),
           got' = [got EXCEPT ![t][k] = NoHandle]
    PROVE  /\ got'[t] \in Seq(Handles \cup {NoHandle})
           /\ Len(got'[t]) = Len(got[t])
           /\ Held(t)' = Held(t) \ {k}
           /\ \A i \in Held(t) \ {k} : got'[t][i] = got[t][i]
           /\ \A u \in Threads \ {t} : got'[u] = got[u]
           /\ got' = [got EXCEPT ![t] = got'[t]]
<1>1. /\ got[t] \in Seq(Handles \cup {NoHandle})
      /\ Len(got[t]) \in Nat
      /\ DOMAIN got[t] = 1 .. Len(got[t])
      /\ k \in 1 .. Len(got[t])
  BY ThreadTypes DEF SInv
<1>2. got'[t] = [got[t] EXCEPT ![k] = NoHandle]
  BY DEF SInv, CallsOK
<1>3. /\ got'[t] \in Seq(Handles \cup {NoHandle})
      /\ Len(got'[t]) = Len(got[t])
      /\ DOMAIN got'[t] = DOMAIN got[t]
      /\ got'[t][k] = NoHandle
      /\ \A i \in DOMAIN got[t] : i # k => got'[t][i] = got[t][i]
  BY <1>1, <1>2, ExceptSeq
<1>4. Held(t)' = Held(t) \ {k} /\ \A i \in Held(t) \ {k} : got'[t][i] = got[t][i]
  BY <1>3 DEF Held
<1>5. /\ \A u \in Threads \ {t} : got'[u] = got[u]
      /\ got' = [got EXCEPT ![t] = got'[t]]
  BY DEF SInv, CallsOK
<1> QED
  BY <1>3, <1>4, <1>5

\* One lock is released: its handle leaves the list and is no longer live.
LEMMA ReleaseNextSInv ==
    ASSUME SInv, IInv', NEW t \in Threads, ReleaseNext(t)
    PROVE  SInv'
<1>0. ThreadOK(t) /\ CallsOK /\ IInv
  BY DEF SInv
<1>1. PICK k \in Held(t) :
          /\ ReleaseLocked(t, got[t][k])
          /\ got' = [got EXCEPT ![t][k] = NoHandle]
  BY DEF ReleaseNext
<1> DEFINE g == got[t][k]
<1>2. /\ phase[t] = "release"
      /\ UNCHANGED <<call, phase, fds, budget>>
  BY DEF ReleaseNext
<1>3. g \in Handles
  BY <1>0, ThreadTypes
<1>4. /\ handles'[g] = Gone
      /\ \A h \in Handles : h # g => handles'[h] = handles[h]
      /\ pc'[t] = "notify"
      /\ \A u \in Threads \ {t} : pc'[u] = pc[u]
      /\ UNCHANGED <<req, ret>>
  BY <1>0, <1>1, <1>3 DEF ReleaseLocked, IInv, IOTypeOK
<1>5. /\ got'[t] \in Seq(Handles \cup {NoHandle})
      /\ Len(got'[t]) = Len(got[t])
      /\ Held(t)' = Held(t) \ {k}
      /\ \A i \in Held(t) \ {k} : got'[t][i] = got[t][i]
      /\ \A u \in Threads \ {t} : got'[u] = got[u]
      /\ got' = [got EXCEPT ![t] = got'[t]]
  BY <1>1, ReleaseList
<1>6. CallsOK'
  BY <1>0, <1>2, <1>5 DEF CallsOK
<1>7. \A i \in Held(t) \ {k} : got[t][i] # g /\ got[t][i] \in Handles
  BY <1>0, ThreadTypes DEF ThreadOK
<1>8. \A i : Info(t, i)' = Info(t, i)
  BY <1>2 DEF Info
<1>9. /\ \A i \in Held(t)' : handles'[got'[t][i]] = Info(t, i)'
      /\ \A i, j \in Held(t)' : got'[t][i] = got'[t][j] => i = j
  <2>1. \A i \in Held(t) \ {k} : handles'[got[t][i]] = handles[got[t][i]]
    BY <1>4, <1>7
  <2> QED
    BY <1>0, <1>5, <1>8, <2>1 DEF ThreadOK
<1>10. ThreadOK(t)'
  <2>1. ~ Answered(t)' /\ pc'[t] \notin InCall
    BY <1>2, <1>4 DEF Answered, InCall
  <2>2. phase'[t] = "release" /\ call'[t] = call[t]
    BY <1>2
  <2>3. call[t] \in Calls /\ Len(got[t]) = Len(call[t].plan)
    BY <1>0, <1>2 DEF ThreadOK
  <2> QED
    BY <1>5, <1>9, <2>1, <2>2, <2>3 DEF ThreadOK
<1>11. t \in Owners(g)
  BY <1>0, <1>3, OwnsMeans
<1>12. \A h \in Handles : t \in Owners(h)' <=> t \in Owners(h) /\ h # g
  <2> TAKE h \in Handles
  <2>0. h # NoHandle
    BY IOLockAssumption DEF Handles, NoHandle
  <2>1. t \in Owners(h) <=> \E i \in Held(t) : got[t][i] = h
    BY <1>0, <1>2, OwnsMeans DEF Answered
  <2>2. h \in ToSet(got'[t]) <=> \E i \in Held(t)' : got'[t][i] = h
    BY <2>0 DEF ToSet, Held
  <2>3. t \in Owners(h)' <=> \E i \in Held(t)' : got'[t][i] = h
    BY <1>2, <2>2 DEF Owners
  <2> QED
    BY <1>5, <1>7, <2>1, <2>3
<1>13. \A u \in Threads \ {t} : Stays(u)
  <2> TAKE u \in Threads \ {t}
  <2>1. u \notin Owners(g)
    BY <1>3, <1>11 DEF SInv, OwnedOnce
  <2>2. \A h \in Handles : u \in Owners(h) => handles'[h] = handles[h]
    BY <1>4, <2>1
  <2> QED
    BY <1>2, <1>4, <1>5, <2>2 DEF Stays
<1>14. \A h \in Handles :
          /\ t \in Owners(h)' => t \in Owners(h) \/ handles[h] = Gone
          /\ handles'[h] # Gone => handles[h] # Gone \/ t \in Owners(h)'
          /\ t \in Owners(h) => t \in Owners(h)' \/ handles'[h] = Gone
  BY <1>4, <1>12
<1> QED
  BY <1>6, <1>10, <1>13, <1>14, Moves

\* A syscall returns when its list holds no handle any more.
LEMMA ReturnSInv ==
    ASSUME SInv, IInv', NEW t \in Threads, Return(t)
    PROVE  SInv'
<1>0. ThreadOK(t) /\ CallsOK
  BY DEF SInv
<1>1. /\ phase[t] = "release" /\ pc[t] = "idle" /\ Held(t) = {}
      /\ call'[t] = NoCall /\ got'[t] = <<>> /\ phase'[t] = "off"
      /\ UNCHANGED <<handles, pc, req, ret, fds, budget>>
  BY <1>0 DEF Return, CallsOK, iovars
<1>2. CallsOK'
  <2>1. got' \in [Threads -> Seq(Handles \cup {NoHandle})]
    BY <1>0 DEF Return, CallsOK
  <2>2. call' \in [Threads -> Calls \cup {NoCall}]
    BY <1>0 DEF Return, CallsOK
  <2> QED
    BY <1>0, <1>1, <2>1, <2>2 DEF Return, CallsOK, Phases
<1>3. Held(t)' = {} /\ ~ Answered(t) /\ ~ Answered(t)' /\ pc'[t] \notin InCall
  BY <1>1 DEF Held, Answered, InCall
<1>4. ThreadOK(t)'
  BY <1>1, <1>3 DEF ThreadOK
<1>5. \A h \in Handles : t \notin Owners(h) /\ t \notin Owners(h)'
  <2> TAKE h \in Handles
  <2>1. t \notin Owners(h)
    BY <1>0, <1>1, <1>3, OwnsMeans
  <2>2. h \notin ToSet(got'[t])
    BY <1>1 DEF ToSet
  <2> QED
    BY <1>1, <2>1, <2>2 DEF Owners
<1>6. \A u \in Threads \ {t} : Stays(u)
  BY <1>0, <1>1 DEF Return, Stays, CallsOK
<1> QED
  BY <1>1, <1>2, <1>4, <1>5, <1>6, Moves

-----------------------------------------------------------------------------
\* The lock is granted: the handle was never issued before, so it is nobody's.
LEMMA GrantSInv ==
    ASSUME SInv, IInv', NEW t \in Threads, pc[t] \in InCall, Grant(t), UNCHANGED svars
    PROVE  SInv'
<1> DEFINE g == next_handle + 1
<1>0. ThreadOK(t) /\ CallsOK /\ IInv
  BY DEF SInv
<1>1. g \in Handles /\ g # NoHandle /\ handles[g] = Gone
  BY <1>0, IOLockAssumption DEF Grant, IInv, Fresh, IOTypeOK, Handles, NoHandle
<1>2. /\ handles'[g] = req[t]
      /\ \A h \in Handles : h # g => handles'[h] = handles[h]
      /\ pc'[t] = "idle" /\ ret'[t] = g
      /\ \A u \in Threads \ {t} : pc'[u] = pc[u] /\ req'[u] = req[u] /\ ret'[u] = ret[u]
  BY <1>0, <1>1 DEF Grant, Leave, IInv, IOTypeOK
<1>3. UNCHANGED <<call, got, phase, fds, budget>>
  BY DEF svars
<1>4. phase[t] = "await" /\ req[t] = Info(t, Len(got[t]) + 1)
  BY <1>0 DEF ThreadOK
<1>5. CallsOK'
  BY <1>0, <1>3 DEF CallsOK
<1> HIDE DEF g
<1>6. \A u \in Threads : u \notin Owners(g)
  BY <1>1, OwnedIsLive
<1>7. \A u \in Threads, h \in Handles : u \in Owners(h) => handles'[h] = handles[h]
  BY <1>2, <1>6
<1>8. /\ Held(t)' = Held(t)
      /\ \A i : Info(t, i)' = Info(t, i)
      /\ \A i \in Held(t)' : handles'[got'[t][i]] = Info(t, i)'
      /\ \A i, j \in Held(t)' : got'[t][i] = got'[t][j] => i = j
  BY <1>3, <1>7, ListStays
<1>9. ThreadOK(t)'
  <2>1. pc'[t] \notin InCall /\ pc'[t] # "notify"
    BY <1>2 DEF InCall
  <2>2. g \notin ToSet(got[t])
    BY <1>6 DEF Owners
  <2>3. handles'[ret'[t]] = Info(t, Len(got[t]) + 1)'
    BY <1>2, <1>3, <1>4 DEF Info
  <2>4. phase'[t] = "await" /\ call'[t] = call[t] /\ got'[t] = got[t]
    BY <1>3, <1>4
  <2>5. call[t] \in Calls /\ Len(got[t]) < Len(call[t].plan)
    BY <1>0, <1>4 DEF ThreadOK
  <2> QED
    BY <1>2, <1>3, <1>8, <2>1, <2>2, <2>3, <2>4, <2>5 DEF ThreadOK
<1>10. \A h \in Handles : t \in Owners(h)' <=> t \in Owners(h) \/ h = g
  <2> TAKE h \in Handles
  <2>1. t \in Owners(h) <=> h \in ToSet(got[t])
    BY <1>0 DEF Owners, InCall
  <2>2. t \in Owners(h)' <=> h \in ToSet(got[t]) \/ h = g
    BY <1>2, <1>3, <1>4 DEF Owners
  <2> QED
    BY <2>1, <2>2
<1>11. \A u \in Threads \ {t} : Stays(u)
  BY <1>2, <1>3, <1>7 DEF Stays
<1>12. \A h \in Handles :
          /\ t \in Owners(h)' => t \in Owners(h) \/ handles[h] = Gone
          /\ handles'[h] # Gone => handles[h] # Gone \/ t \in Owners(h)'
          /\ t \in Owners(h) => t \in Owners(h)' \/ handles'[h] = Gone
  BY <1>1, <1>2, <1>10
<1> QED
  BY <1>5, <1>9, <1>11, <1>12, Moves

\* blocking_acquire gives up: the thread has nothing new.
LEMMA NoHandleSInv ==
    ASSUME SInv, IInv', NEW t \in Threads, pc[t] \in InCall, ReturnNoHandle(t),
           UNCHANGED svars
    PROVE  SInv'
<1>0. ThreadOK(t) /\ CallsOK /\ IInv
  BY DEF SInv
<1>1. /\ pc'[t] = "idle" /\ ret'[t] = NoHandle /\ handles' = handles
      /\ \A u \in Threads \ {t} : pc'[u] = pc[u] /\ req'[u] = req[u] /\ ret'[u] = ret[u]
  BY <1>0 DEF ReturnNoHandle, Leave, IInv, IOTypeOK
<1>2. UNCHANGED <<call, got, phase, fds, budget>>
  BY DEF svars
<1>3. phase[t] = "await"
  BY <1>0 DEF ThreadOK
<1>4. CallsOK'
  BY <1>0, <1>2 DEF CallsOK
<1>5. /\ Held(t)' = Held(t)
      /\ \A i \in Held(t)' : handles'[got'[t][i]] = Info(t, i)'
      /\ \A i, j \in Held(t)' : got'[t][i] = got'[t][j] => i = j
  BY <1>1, <1>2, ListStays
<1>6. ThreadOK(t)'
  <2>1. pc'[t] \notin InCall /\ pc'[t] # "notify" /\ ~ Answered(t)'
    BY <1>1 DEF InCall, Answered
  <2> QED
    BY <1>0, <1>2, <1>3, <1>5, <2>1 DEF ThreadOK
<1>7. \A h \in Handles : t \in Owners(h)' <=> t \in Owners(h)
  <2> TAKE h \in Handles
  <2>1. h # NoHandle
    BY IOLockAssumption DEF Handles, NoHandle
  <2>2. t \in Owners(h) <=> h \in ToSet(got[t])
    BY <1>0 DEF Owners, InCall
  <2>3. t \in Owners(h)' <=> h \in ToSet(got[t])
    BY <1>1, <1>2, <2>1 DEF Owners
  <2> QED
    BY <2>2, <2>3
<1>8. \A u \in Threads \ {t} : Stays(u)
  BY <1>1, <1>2 DEF Stays
<1> QED
  BY <1>1, <1>4, <1>6, <1>7, <1>8, Moves

\* A thread goes on waiting for its lock.
LEMMA WaitsSInv ==
    ASSUME SInv, IInv', NEW t \in Threads, pc[t] \in InCall, pc'[t] \in InCall,
           \A u \in Threads \ {t} : pc'[u] = pc[u],
           UNCHANGED <<handles, req, ret>>, UNCHANGED svars
    PROVE  SInv'
<1>0. ThreadOK(t) /\ CallsOK
  BY DEF SInv
<1>1. UNCHANGED <<call, got, phase, fds, budget>>
  BY DEF svars
<1>2. CallsOK'
  BY <1>0, <1>1 DEF CallsOK
<1>3. /\ Held(t)' = Held(t)
      /\ \A i \in Held(t)' : handles'[got'[t][i]] = Info(t, i)'
      /\ \A i, j \in Held(t)' : got'[t][i] = got'[t][j] => i = j
  BY <1>1, ListStays
<1>4. req[t] = Info(t, Len(got[t]) + 1)' /\ phase[t] = "await"
  BY <1>0, <1>1 DEF ThreadOK, Info
<1>5. ~ Answered(t)' /\ pc'[t] # "notify" /\ pc[t] # "idle" /\ pc'[t] # "idle"
  BY DEF Answered, InCall
<1>6. ThreadOK(t)'
  BY <1>0, <1>1, <1>3, <1>4, <1>5 DEF ThreadOK
<1>7. \A h \in Handles : t \in Owners(h)' <=> t \in Owners(h)
  BY <1>1, <1>5 DEF Owners
<1>8. \A u \in Threads \ {t} : Stays(u)
  BY <1>1 DEF Stays
<1> QED
  BY <1>2, <1>6, <1>7, <1>8, Moves

\* notify_all wakes the others; the caller goes on with its releases.
LEMMA NotifySInv ==
    ASSUME SInv, IInv', NEW t \in Threads, NotifyAll(t), UNCHANGED svars
    PROVE  SInv'
<1>0. ThreadOK(t) /\ CallsOK
  BY DEF SInv
<1>1. UNCHANGED <<call, got, phase, fds, budget, handles, req, ret>>
  BY DEF svars, NotifyAll
<1>2. /\ pc[t] = "notify" /\ pc'[t] = "idle" /\ phase[t] = "release"
      /\ \A u \in Threads \ {t} : pc'[u] = pc[u] \/ (pc[u] = "waiting" /\ pc'[u] = "woken")
  BY <1>0 DEF NotifyAll, ThreadOK
<1>3. CallsOK'
  BY <1>0, <1>1 DEF CallsOK
<1>4. /\ \A i \in Held(t)' : handles'[got'[t][i]] = Info(t, i)'
      /\ \A i, j \in Held(t)' : got'[t][i] = got'[t][j] => i = j
  BY <1>1, ListStays
<1>5. ~ Answered(t)' /\ pc'[t] \notin InCall
  BY <1>1, <1>2 DEF Answered, InCall
<1>6. ThreadOK(t)'
  BY <1>0, <1>1, <1>2, <1>4, <1>5 DEF ThreadOK
<1>7. \A h \in Handles : t \in Owners(h)' <=> t \in Owners(h)
  BY <1>1, <1>2 DEF Owners
<1>8. \A u \in Threads \ {t} : Stays(u)
  BY <1>1, <1>2 DEF Stays
<1> QED
  BY <1>1, <1>3, <1>6, <1>7, <1>8, Moves

-----------------------------------------------------------------------------
\* Whatever a syscall does to the lock manager is a step the lock manager
\* allows: it asks for paths of its plan and releases handles it was given.
LEMMA SyscallStepsAreLockSteps ==
    ASSUME SInv, [Next]_vars
    PROVE  [IONext]_iovars
<1>1. ASSUME NEW t \in Threads, AcquireNext(t)
      PROVE  IONext
  <2>0. ThreadOK(t) /\ CallsOK /\ phase[t] = "next"
    BY <1>1 DEF SInv, AcquireNext
  <2>1. call[t] \in Calls /\ Len(got[t]) < Len(call[t].plan) /\ Len(got[t]) \in Nat
    BY <2>0, ThreadTypes DEF ThreadOK
  <2>2. Len(call[t].plan) \in Nat
    BY <2>1, CallShapes, LenProperties
  <2>3. Len(got[t]) + 1 \in 1 .. Len(call[t].plan)
    BY <2>1, <2>2
  <2>4. call[t].plan[Len(got[t]) + 1] \in RawPaths /\ call[t].mode \in Modes
    BY <2>0, <2>3, InfoIsLive
  <2> QED
    BY <1>1, <2>4 DEF AcquireNext, IONext
<1>2. ASSUME NEW t \in Threads, ReleaseNext(t)
      PROVE  IONext
  <2>1. PICK k \in Held(t) : ReleaseLocked(t, got[t][k])
    BY <1>2 DEF ReleaseNext
  <2>2. got[t][k] \in Handles
    BY ThreadTypes DEF SInv
  <2> QED
    BY <2>1, <2>2 DEF IONext
<1>3. ASSUME NEW t \in Threads,
             \/ Starts(t) \/ Collect(t) \/ WorkDone(t) \/ Return(t)
             \/ RegisterFd(t) \/ EndPread(t)
      PROVE  UNCHANGED iovars
  BY <1>3 DEF Starts, Start, StartPread, EndPread, RegisterFd, Collect, WorkDone, Return
<1>4. ASSUME NEW t \in Threads, LockStep(t) \/ ClockStep(t)
      PROVE  IONext
  BY <1>4 DEF LockStep, ClockStep, IONext
<1>5. CASE UNCHANGED vars
  BY <1>5 DEF vars
<1>6. CASE Next
  BY <1>1, <1>2, <1>3, <1>4, <1>6 DEF Next, Syscall
<1> QED
  BY <1>5, <1>6

\* The initial state: no thread is in a syscall and no handle is live.
LEMMA InitSInv == Init => SInv
<1> SUFFICES ASSUME Init PROVE SInv
  OBVIOUS
<1>1. IInv
  BY InitIInv DEF Init
<1>2. CallsOK
  BY IOLockAssumption DEF Init, CallsOK, Phases
<1>3. \A t \in Threads : pc[t] = "idle" /\ got[t] = <<>> /\ phase[t] = "off" /\ call[t] = NoCall
  BY DEF Init, IOInit
<1>4. \A t \in Threads : Held(t) = {} /\ ~ Answered(t)
  BY <1>3 DEF Held, Answered
<1>5. \A t \in Threads : ThreadOK(t)
  BY <1>3, <1>4 DEF ThreadOK, InCall
<1>6. \A t \in Threads, h \in Handles : t \notin Owners(h)
  BY <1>2, <1>4, OwnsMeans
<1>7. \A h \in Handles : handles[h] = Gone
  BY DEF Init, IOInit
<1>8. OwnedOnce
  BY <1>6, <1>7 DEF OwnedOnce
<1> QED
  BY <1>1, <1>2, <1>5, <1>8 DEF SInv

\* Every step of the syscalls keeps the invariant.
LEMMA NextSInv == SInv /\ [Next]_vars => SInv'
<1> SUFFICES ASSUME SInv, [Next]_vars PROVE SInv'
  OBVIOUS
<1>0. IInv'
  BY SyscallStepsAreLockSteps, NextIInv DEF SInv
<1>1. ASSUME NEW t \in Threads, Starts(t) PROVE SInv'
  BY <1>0, <1>1, StartSInv, PreadSInv DEF Starts, Calls
<1>2. ASSUME NEW t \in Threads, Syscall(t) PROVE SInv'
  BY <1>0, <1>2, AcquireNextSInv, CollectSInv, WorkDoneSInv, ReleaseNextSInv, ReturnSInv,
     PreadSInv DEF Syscall
<1>3. ASSUME NEW t \in Threads, UNCHANGED svars, FastTake(t) \/ RetryTake(t) PROVE SInv'
  BY <1>0, <1>3, GrantSInv DEF FastTake, RetryTake, InCall
<1>4. ASSUME NEW t \in Threads, UNCHANGED svars,
             WaitOrGiveUp(t) \/ RetryFail(t), ReturnNoHandle(t)
      PROVE  SInv'
  BY <1>0, <1>4, NoHandleSInv DEF WaitOrGiveUp, RetryFail, InCall
<1>5. ASSUME NEW t \in Threads, UNCHANGED svars,
             \/ FastFail(t) \/ WaitTimesOut(t) \/ DeadlinePasses(t)
             \/ (WaitOrGiveUp(t) \/ RetryFail(t)) /\ ~ ReturnNoHandle(t)
      PROVE  SInv'
  <2>0. pc \in [Threads -> PCs]
    BY DEF SInv, IInv, IOTypeOK
  <2>1. pc[t] \in InCall /\ pc'[t] \in InCall
    BY <1>5, <2>0 DEF FastFail, WaitTimesOut, DeadlinePasses, WaitOrGiveUp, RetryFail, InCall
  <2>2. \A u \in Threads \ {t} : pc'[u] = pc[u]
    BY <1>5, <2>0 DEF FastFail, WaitTimesOut, DeadlinePasses, WaitOrGiveUp, RetryFail
  <2>3. UNCHANGED <<handles, req, ret>>
    BY <1>5 DEF FastFail, WaitTimesOut, DeadlinePasses, WaitOrGiveUp, RetryFail
  <2> QED
    BY <1>0, <1>5, <2>1, <2>2, <2>3, WaitsSInv
<1>6. ASSUME NEW t \in Threads, LockStep(t) \/ ClockStep(t) PROVE SInv'
  BY <1>0, <1>3, <1>4, <1>5, <1>6, NotifySInv DEF LockStep, ClockStep, Inside
<1>7. CASE UNCHANGED vars
  <2>1. \A u \in Threads : Stays(u)
    BY <1>7 DEF vars, iovars, svars, Stays
  <2>2. CallsOK'
    BY <1>7 DEF vars, svars, SInv, CallsOK
  <2>3. \A u \in Threads : /\ ThreadOK(u)'
                           /\ \A h \in Handles : u \in Owners(h)' <=> u \in Owners(h)
    BY <1>0, <2>1, <2>2, StaysOK
  <2>4. handles' = handles
    BY <1>7 DEF vars, iovars
  <2>5. OwnedOnce'
    BY <2>3, <2>4 DEF SInv, OwnedOnce
  <2> QED
    BY <1>0, <2>2, <2>3, <2>5 DEF SInv
<1>8. CASE Next
  BY <1>0, <1>1, <1>2, <1>6, <1>8, RegisterFdSInv DEF Next
<1> QED
  BY <1>7, <1>8

-----------------------------------------------------------------------------
\* The invariant holds throughout: every thread owns the handles of its list,
\* each for the path in the same place of its plan, and no handle is owned twice.
THEOREM SyscallInvariant == Spec => []SInv
BY InitSInv, NextSInv, PTL DEF Spec

\* The syscalls of io.rs use the lock manager as any client may: seen from the
\* lock manager, their steps are its own, so what holds of it holds under them.
THEOREM SyscallsUseLocks == Spec => IOSpec
<1>1. Init => IOInit
  BY DEF Init
<1>2. SInv /\ [Next]_vars => [IONext]_iovars
  BY SyscallStepsAreLockSteps
<1> QED
  BY <1>1, <1>2, SyscallInvariant, PTL DEF Spec, IOSpec

\* Type correctness: a syscall never has more answers than locks in its plan.
THEOREM SyscallTypeOK == Spec => []TypeOK
<1>1. SInv => TypeOK
  <2> SUFFICES ASSUME SInv PROVE TypeOK
    OBVIOUS
  <2>1. ASSUME NEW t \in Threads PROVE Len(got[t]) <= Len(call[t].plan)
    <3>1. ThreadOK(t) /\ Len(got[t]) \in Nat /\ phase[t] \in Phases
      BY ThreadTypes DEF SInv
    <3>2. CASE phase[t] = "off"
      <4>1. got[t] = <<>> /\ call[t].plan = <<>>
        BY <3>1, <3>2 DEF ThreadOK, NoCall
      <4> QED
        BY <4>1
    <3>3. CASE phase[t] # "off"
      <4>1. call[t].plan \in Seq(RawPaths)
        BY <3>1, <3>3, CallShapes DEF ThreadOK
      <4>2. Len(call[t].plan) \in Nat
        BY <4>1, LenProperties
      <4> QED
        BY <3>1, <3>3, <4>2 DEF ThreadOK, Phases
    <3> QED
      BY <3>2, <3>3
  <2>2. \A t \in Threads :
           /\ call[t] \in SingleCalls \cup PairCalls \cup BatchCalls \cup FdReads \cup {NoCall}
           /\ got[t] \in Seq(Handles \cup {NoHandle})
           /\ phase[t] \in Phases
    BY DEF SInv, CallsOK, Calls
  <2>3. IOTypeOK /\ fds \subseteq RawPaths /\ budget \in 0 .. MaxHandle
    BY DEF SInv, IInv, CallsOK
  <2> QED
    BY <2>1, <2>2, <2>3 DEF TypeOK
<1> QED
  BY <1>1, SyscallInvariant, PTL

\* Two syscalls that work at the same time on overlapping subtrees only read,
\* whatever timeouts they met while taking their locks, unless one of them reads
\* from an open descriptor.
THEOREM SyscallWorkIsolated == Spec => []WorkIsolated
<1>1. SInv => WorkIsolated
  <2> SUFFICES ASSUME SInv, NEW t \in Threads, NEW u \in Threads, t # u,
                      {phase[t], phase[u]} \subseteq {"work", "pread"},
                      NEW p \in WorkingOn(t), NEW q \in WorkingOn(u), Related(p, q),
                      "fdread" \notin {call[t].kind, call[u].kind}
               PROVE  call[t].mode = "Read" /\ call[u].mode = "Read"
    BY DEF WorkIsolated
  <2>0. CallsOK /\ ThreadOK(t) /\ ThreadOK(u) /\ HierarchyExclusion
    BY DEF SInv, IInv
  <2>a. phase[t] = "work" /\ phase[u] = "work"
    BY <2>0 DEF ThreadOK
  <2>1. PICK i \in Held(t) : p = NormalizePath(call[t].plan[i])
    BY <2>a DEF WorkingOn
  <2>2. PICK j \in Held(u) : q = NormalizePath(call[u].plan[j])
    BY <2>a DEF WorkingOn
  <2>3. got[t][i] \in Handles /\ got[u][j] \in Handles
    BY <2>0, <2>1, <2>2, ThreadTypes
  <2>4. t \in Owners(got[t][i]) /\ u \in Owners(got[u][j])
    BY <2>0, <2>1, <2>2, <2>3, OwnsMeans
  <2>5. got[t][i] # got[u][j]
    BY <2>3, <2>4 DEF SInv, OwnedOnce
  <2>6. handles[got[t][i]] # Gone /\ handles[got[u][j]] # Gone
    BY <2>3, <2>4, OwnedIsLive
  <2>7. handles[got[t][i]] = Info(t, i) /\ handles[got[u][j]] = Info(u, j)
    BY <2>0, <2>1, <2>2 DEF ThreadOK
  <2>8. /\ handles[got[t][i]].path = p /\ handles[got[t][i]].mode = call[t].mode
        /\ handles[got[u][j]].path = q /\ handles[got[u][j]].mode = call[u].mode
    BY <2>1, <2>2, <2>7 DEF Info
  <2> QED
    BY <2>0, <2>3, <2>5, <2>6, <2>8 DEF HierarchyExclusion
<1> QED
  BY <1>1, SyscallInvariant, PTL

\* Any syscall but a batch and a read from an open descriptor works only while
\* it holds a live lock, in its mode, on every path it touches.
THEOREM SyscallWorkFullyLocked == Spec => []WorkFullyLocked
<1>1. SInv => WorkFullyLocked
  <2> SUFFICES ASSUME SInv, NEW t \in Threads, phase[t] \in {"work", "pread"},
                      call[t].kind \notin {"batch", "fdread"},
                      NEW i \in DOMAIN call[t].plan
               PROVE  got[t][i] # NoHandle /\ handles[got[t][i]] = Info(t, i)
    BY DEF WorkFullyLocked, Info
  <2>1. ThreadOK(t) /\ CallsOK
    BY DEF SInv
  <2>2. call[t] \in Calls /\ Len(got[t]) = Len(call[t].plan) /\ Held(t) = DOMAIN got[t]
    BY <2>1 DEF ThreadOK
  <2>3. call[t].plan \in Seq(RawPaths)
    BY <2>2, CallShapes
  <2>4. DOMAIN call[t].plan = 1 .. Len(call[t].plan) /\ DOMAIN got[t] = 1 .. Len(got[t])
    BY <2>1, <2>3, LenProperties, ThreadTypes
  <2>5. i \in Held(t)
    BY <2>2, <2>4
  <2> QED
    BY <2>1, <2>5 DEF ThreadOK, Held
<1> QED
  BY <1>1, SyscallInvariant, PTL

\* Every live lock belongs to exactly one running syscall: none is left behind.
THEOREM SyscallNoOrphanLock == Spec => []NoOrphanLock
<1>1. SInv => NoOrphanLock
  <2> SUFFICES ASSUME SInv, NEW h \in Handles, handles[h] # Gone
               PROVE  Cardinality(Owners(h)) = 1
    BY DEF NoOrphanLock
  <2>1. PICK t \in Threads : t \in Owners(h)
    BY DEF SInv, OwnedOnce
  <2>2. \A u \in Owners(h) : u \in Threads
    BY DEF Owners
  <2>3. Owners(h) = {t}
    BY <2>1, <2>2 DEF SInv, OwnedOnce
  <2> QED
    BY <2>3, FS_Singleton
<1> QED
  BY <1>1, SyscallInvariant, PTL
-----------------------------------------------------------------------------
\* Circular waits.

\* The least-number principle, which stands in for induction below.
LEMMA SmallestNat ==
    ASSUME NEW S, S \subseteq Nat, S # {}
    PROVE  \E n \in S : \A m \in S : n <= m
<1>1. PICK x \in S : \A y \in S : ~ (<<y, x>> \in OpToRel(<, Nat))
  BY NatLessThanWellFounded, WFMin
<1>2. \A y \in S : y < x => <<y, x>> \in OpToRel(<, Nat)
  BY DEF OpToRel
<1>3. \A y \in S : ~ (y < x)
  BY <1>1, <1>2, Zenon
<1> QED
  BY <1>3

\* Among finitely many handles, one has the greatest value of a function to the
\* naturals.
LEMMA GreatestHandle ==
    ASSUME NEW N \in Nat, NEW f \in [1 .. N -> Nat], NEW D \in SUBSET (1 .. N), D # {}
    PROVE  \E h \in D : \A g \in D : f[g] <= f[h]
<1>0. \A h \in D : h \in 1 .. N /\ h \in Nat /\ f[h] \in Nat
  OBVIOUS
<1> DEFINE HasMax(k) == \E h \in D : h <= k /\ \A g \in D : g <= k => f[g] <= f[h]
           Bad == {k \in Nat : (\E h \in D : h <= k) /\ ~ HasMax(k)}
<1>1. Bad = {}
  <2> SUFFICES ASSUME Bad # {} PROVE FALSE
    OBVIOUS
  <2>1. PICK k \in Bad : \A m \in Bad : k <= m
    <3>1. Bad \subseteq Nat
      OBVIOUS
    <3> HIDE DEF Bad
    <3> QED
      BY <3>1, SmallestNat
  <2>2. k \in Nat /\ k \in Int
    BY <2>1
  <2>3. \A h \in D : h <= k => \E g \in D : g <= k /\ ~ (f[g] <= f[h])
    BY <2>1
  <2>4. PICK x \in D : x <= k
    BY <2>1
  <2>5. k - 1 \in Nat /\ ~ (k <= k - 1)
    BY <1>0, <2>2, <2>4
  <2>6. k - 1 \notin Bad
    BY <2>1, <2>5
  <2>7. (\E h \in D : h <= k - 1) => HasMax(k - 1)
    BY <2>5, <2>6
  <2> HIDE DEF Bad
  <2>8. ASSUME NEW g \in D PROVE g <= k <=> (g <= k - 1 \/ g = k)
    BY <1>0, <2>2, <2>8
  <2>9. CASE ~ \E h \in D : h <= k - 1
    <3>1. \A g \in D : g <= k => g = k
      BY <2>8, <2>9
    <3>2. PICK g \in D : g <= k /\ ~ (f[g] <= f[x])
      BY <2>3, <2>4
    <3>3. g = x
      BY <2>4, <3>1, <3>2
    <3> QED
      BY <1>0, <3>2, <3>3
  <2>10. CASE \E h \in D : h <= k - 1
    <3>1. PICK h \in D : h <= k - 1 /\ \A g \in D : g <= k - 1 => f[g] <= f[h]
      BY <2>7, <2>10
    <3> HIDE DEF HasMax
    <3>2. PICK y \in D : y <= k /\ ~ (f[y] <= f[h])
      BY <2>3, <2>8, <3>1
    <3>3. y = k
      BY <2>8, <3>1, <3>2
    <3>4. PICK z \in D : z <= k /\ ~ (f[z] <= f[y])
      BY <2>3, <3>2
    <3>5. z <= k - 1 \/ z = y
      BY <2>8, <3>3, <3>4
    <3>6. f[z] \in Nat /\ f[y] \in Nat /\ f[h] \in Nat
      BY <1>0
    <3>7. CASE z = y
      BY <3>4, <3>6, <3>7
    <3>8. CASE z <= k - 1
      <4>1. f[z] <= f[h]
        BY <3>1, <3>8
      <4> QED
        BY <3>2, <3>4, <3>6, <4>1
    <3> QED
      BY <3>5, <3>7, <3>8
  <2> QED
    BY <2>9, <2>10
<1>2. N \notin Bad
  BY <1>1
<1>3. \A h \in D : h <= N
  BY <1>0
<1>4. HasMax(N)
  BY <1>2, <1>3
<1> QED
  BY <1>3, <1>4

\* Two paths that both lie at or above a third one are related, and a path is
\* related to whatever is related to a path below it.
LEMMA RelatedBelow ==
    ASSUME NEW p \in Paths, NEW q \in Paths, NEW r \in Paths,
           AtOrBelow(q, p), Related(r, q)
    PROVE  Related(p, r)
<1>0. p \in Seq(STRING) /\ q \in Seq(STRING) /\ r \in Seq(STRING)
  BY IOLockAssumption
<1>1. ASSUME NEW s \in Seq(STRING), NEW n \in 0 .. Len(s), NEW k \in n .. Len(s)
      PROVE  SubSeq(SubSeq(s, 1, k), 1, n) = SubSeq(s, 1, n) /\ Len(SubSeq(s, 1, k)) = k
  OBVIOUS
<1>2. ASSUME NEW s \in Seq(STRING), NEW n \in 0 .. Len(s), NEW k \in 0 .. Len(s)
      PROVE  Related(SubSeq(s, 1, n), SubSeq(s, 1, k))
  <2>1. ASSUME NEW a \in 0 .. Len(s), NEW b \in 0 .. Len(s), a < b
        PROVE  SubSeq(s, 1, a) \in Ancestors(SubSeq(s, 1, b))
    <3>1. b \in a .. Len(s) /\ a \in 0 .. b - 1
      BY <2>1
    <3>2. SubSeq(SubSeq(s, 1, b), 1, a) = SubSeq(s, 1, a) /\ Len(SubSeq(s, 1, b)) = b
      BY <1>1, <3>1
    <3> QED
      BY <3>1, <3>2 DEF Ancestors
  <2>2. n = k \/ n < k \/ k < n
    OBVIOUS
  <2> QED
    BY <2>1, <2>2 DEF Related
<1>3. ASSUME NEW a \in Seq(STRING), NEW s \in Seq(STRING), AtOrBelow(s, a)
      PROVE  \E n \in 0 .. Len(s) : a = SubSeq(s, 1, n)
  <2>1. CASE a = s
    <3>1. SubSeq(s, 1, Len(s)) = s /\ Len(s) \in 0 .. Len(s)
      OBVIOUS
    <3> QED
      BY <2>1, <3>1
  <2>2. CASE a \in Ancestors(s)
    BY <2>2 DEF Ancestors
  <2> QED
    BY <1>3, <2>1, <2>2 DEF AtOrBelow
<1>4. PICK n \in 0 .. Len(q) : p = SubSeq(q, 1, n)
  BY <1>0, <1>3
<1>5. CASE AtOrBelow(q, r)
  <2>1. PICK k \in 0 .. Len(q) : r = SubSeq(q, 1, k)
    BY <1>0, <1>3, <1>5
  <2> QED
    BY <1>0, <1>2, <1>4, <2>1
<1>6. CASE q \in Ancestors(r)
  <2>1. PICK k \in 0 .. Len(r) - 1 : q = SubSeq(r, 1, k)
    BY <1>6 DEF Ancestors
  <2>2. k \in 0 .. Len(r) /\ Len(q) = k /\ Len(r) \in Nat
    BY <1>0, <2>1
  <2>3. n \in 0 .. Len(r) /\ k \in n .. Len(r)
    BY <1>4, <2>2
  <2>4. p = SubSeq(r, 1, n)
    BY <1>0, <1>1, <1>4, <2>1, <2>3
  <2>5. SubSeq(r, 1, Len(r)) = r /\ Len(r) \in 0 .. Len(r)
    BY <1>0
  <2> QED
    BY <1>0, <1>2, <2>3, <2>4, <2>5
<1> QED
  BY <1>5, <1>6 DEF Related, AtOrBelow

\* A plan of several locks is for writing, and goes up in byte order.
LEMMA PlansAreSorted ==
    ASSUME NEW c \in Calls, NEW i \in 1 .. Len(c.plan), NEW j \in 1 .. Len(c.plan), i < j
    PROVE  c.mode = "Write" /\ Rank[c.plan[i]] <= Rank[c.plan[j]]
<1>0. /\ c.plan \in Seq(RawPaths) /\ Len(c.plan) \in Nat
      /\ \A k \in 1 .. Len(c.plan) : Rank[c.plan[k]] \in Nat
  <2>1. c.plan \in Seq(RawPaths)
    BY CallShapes
  <2> QED
    BY <2>1, SyscallAssumption
<1>1. CASE c \in SingleCalls \cup FdReads
  <2>1. PICK p \in RawPaths : c.plan = <<p>>
    BY <1>1 DEF SingleCalls, FdReads, OnePath
  <2> QED
    BY <2>1
<1>2. CASE c \in PairCalls
  <2>1. c.mode = "Write"
    BY <1>2 DEF PairCalls
  <2>2. PICK p \in RawPaths, q \in RawPaths : c.plan = PairPlan(p, q)
    BY <1>2 DEF PairCalls
  <2>3. Rank[p] \in Nat /\ Rank[q] \in Nat
    BY SyscallAssumption
  <2>4. CASE p = q
    BY <2>2, <2>4 DEF PairPlan
  <2>5. CASE p # q
    <3>1. Len(c.plan) = 2 /\ i = 1 /\ j = 2
      BY <2>2, <2>5 DEF PairPlan
    <3>2. Rank[c.plan[1]] <= Rank[c.plan[2]]
      BY <2>2, <2>3, <2>5 DEF PairPlan
    <3> QED
      BY <2>1, <3>1, <3>2
  <2> QED
    BY <2>4, <2>5
<1>3. CASE c \in BatchCalls
  <2>1. c.mode = "Write" /\ Sorted(c.plan)
    BY <1>3 DEF BatchCalls
  <2> DEFINE Bad == {k \in 1 .. Len(c.plan) : i < k /\ ~ (Rank[c.plan[i]] <= Rank[c.plan[k]])}
  <2>2. CASE Bad = {}
    BY <2>1, <2>2
  <2>3. CASE Bad # {}
    <3>1. PICK k \in Bad : \A m \in Bad : k <= m
      <4>1. Bad \subseteq Nat
        OBVIOUS
      <4> HIDE DEF Bad
      <4> QED
        BY <2>3, <4>1, SmallestNat
    <3>2. k \in 1 .. Len(c.plan) /\ i < k /\ ~ (Rank[c.plan[i]] <= Rank[c.plan[k]])
      OBVIOUS
    <3>3. k - 1 \in 1 .. Len(c.plan) - 1 /\ k - 1 \in 1 .. Len(c.plan) /\ k - 1 + 1 = k
      BY <1>0, <3>2
    <3>4. Rank[c.plan[k - 1]] <= Rank[c.plan[k]]
      BY <2>1, <3>3 DEF Sorted
    <3>5. Rank[c.plan[i]] <= Rank[c.plan[k - 1]]
      <4>1. CASE k - 1 = i
        BY <1>0, <4>1
      <4>2. CASE i < k - 1
        BY <3>1, <3>3, <4>2
      <4> QED
        BY <3>2, <3>3, <4>1, <4>2
    <3> QED
      BY <1>0, <3>2, <3>3, <3>4, <3>5
  <2> QED
    BY <2>2, <2>3
<1> QED
  BY <1>1, <1>2, <1>3 DEF Calls

\* The raw path that a waiting thread asks for.
Asks(t) == call[t].plan[Len(got[t]) + 1]

\* What is known of a thread that waits for a lock.
LEMMA WaiterMeans ==
    ASSUME SInv, NEW t \in Threads, phase[t] = "await", pc[t] = "waiting"
    PROVE  /\ Asks(t) \in RawPaths /\ req[t].path = NormalizePath(Asks(t))
           /\ Len(got[t]) + 1 \in 1 .. Len(call[t].plan)
           /\ call[t] \in Calls
<1>0. ThreadOK(t) /\ CallsOK
  BY DEF SInv
<1>1. call[t] \in Calls /\ Len(got[t]) < Len(call[t].plan)
  BY <1>0 DEF ThreadOK
<1>2. Len(got[t]) \in Nat
  BY <1>0, ThreadTypes
<1>3. call[t].plan \in Seq(RawPaths)
  BY <1>1, CallShapes
<1>4. Len(got[t]) + 1 \in 1 .. Len(call[t].plan)
  BY <1>1, <1>2, <1>3, LenProperties
<1>5. req[t] = Info(t, Len(got[t]) + 1)
  BY <1>0 DEF ThreadOK, InCall
<1> QED
  BY <1>1, <1>3, <1>4, <1>5, ElementOfSeq DEF Asks, Info

\* A waiting thread that already holds a lock is a writer, holds it on a path
\* that comes no later in byte order than the one it asks for, and the lock is live.
LEMMA HolderMeans ==
    ASSUME SInv, NEW t \in Threads, phase[t] = "await", pc[t] = "waiting",
           NEW i \in Held(t)
    PROVE  /\ call[t].plan[i] \in RawPaths
           /\ Rank[call[t].plan[i]] <= Rank[Asks(t)]
           /\ got[t][i] \in Handles
           /\ t \in Owners(got[t][i])
           /\ handles[got[t][i]] # Gone
           /\ handles[got[t][i]].path = NormalizePath(call[t].plan[i])
           /\ handles[got[t][i]].mode = "Write"
<1>0. ThreadOK(t) /\ CallsOK
  BY DEF SInv
<1>1. Len(got[t]) \in Nat /\ i \in 1 .. Len(got[t]) /\ got[t][i] \in Handles
  BY <1>0, ThreadTypes
<1>2. Len(got[t]) + 1 \in 1 .. Len(call[t].plan) /\ call[t] \in Calls
  BY WaiterMeans
<1>3. call[t].plan \in Seq(RawPaths) /\ Len(call[t].plan) \in Nat
  BY <1>2, CallShapes, LenProperties
<1>4. i \in 1 .. Len(call[t].plan) /\ i < Len(got[t]) + 1
  BY <1>1, <1>2, <1>3
<1>5. call[t].mode = "Write" /\ Rank[call[t].plan[i]] <= Rank[Asks(t)]
  BY <1>2, <1>4, PlansAreSorted DEF Asks
<1>6. t \in Owners(got[t][i])
  BY <1>0, <1>1, OwnsMeans
<1>7. handles[got[t][i]] = Info(t, i)
  BY <1>0 DEF ThreadOK
<1> QED
  BY <1>1, <1>3, <1>4, <1>5, <1>6, <1>7, ElementOfSeq, OwnedIsLive DEF Info

\* Where byte order follows the tree, syscalls that take several locks in that
\* order never wait for each other in a circle.  Of the threads in such a circle
\* that hold a lock, take one that asks for the last path in byte order.  The lock
\* it waits for is then at or above what its holder asks for, so whoever delays
\* that holder would hold a lock in the same subtree, which exclusion forbids.
THEOREM SyscallNoCircularWait == FollowsTree(Rank) => (Spec => []NoCircularWait)
<1> SUFFICES ASSUME FollowsTree(Rank) PROVE Spec => []NoCircularWait
  OBVIOUS
<1>1. SInv => NoCircularWait
  <2> SUFFICES ASSUME SInv, NEW S \in SUBSET Threads, Cardinality(S) > 1,
                      \A t \in S : \E u \in S \ {t} : WaitsFor(t, u)
               PROVE  FALSE
    BY DEF NoCircularWait
  <2>0. CallsOK /\ HierarchyExclusion /\ OwnedOnce /\ DOMAIN Rank = RawPaths
        /\ \A p \in RawPaths : Rank[p] \in Nat
    BY SyscallAssumption DEF SInv, IInv
  <2>1. PICK s \in S : TRUE
    BY FS_EmptySet
  <2>2. \A t \in S : phase[t] = "await" /\ pc[t] = "waiting"
    BY DEF WaitsFor
  <2>3. \A t \in S : Asks(t) \in RawPaths /\ req[t].path = NormalizePath(Asks(t))
    BY <2>2, WaiterMeans
  \* The locks that the threads of the circle hold, and the rank of what the
  \* holder of each asks for.
  <2> DEFINE D == {h \in Handles : \E t \in S : t \in Owners(h)}
             Holder(h) == CHOOSE t \in S : t \in Owners(h)
             f == [h \in Handles |-> IF h \in D THEN Rank[Asks(Holder(h))] ELSE 0]
  <2>4. \A h \in D : Holder(h) \in S /\ h \in Handles
    OBVIOUS
  <2>5. \A t \in S, h \in Handles : t \in Owners(h) => h \in D /\ f[h] = Rank[Asks(t)]
    <3> TAKE t \in S, h \in Handles
    <3> HAVE t \in Owners(h)
    <3>1. h \in D /\ Holder(h) \in S /\ Holder(h) \in Owners(h)
      OBVIOUS
    <3>2. Holder(h) = t
      BY <2>0, <3>1 DEF OwnedOnce
    <3> QED
      BY <3>1, <3>2
  <2>6. f \in [Handles -> Nat]
    <3>1. \A h \in D : Rank[Asks(Holder(h))] \in Nat
      BY <2>0, <2>3, <2>4
    <3> QED
      BY <3>1
  \* What each thread of the circle waits for.
  <2>7. ASSUME NEW t \in S
        PROVE  \E u \in S \ {t} : \E i \in Held(u) :
                  Related(handles[got[u][i]].path, req[t].path)
    BY DEF WaitsFor
  <2>8. D # {}
    <3>1. PICK u \in S \ {s} : \E i \in Held(u) : TRUE
      BY <2>1, <2>7
    <3>2. PICK i \in Held(u) : TRUE
      BY <3>1
    <3>3. got[u][i] \in Handles /\ u \in Owners(got[u][i])
      BY <2>2, HolderMeans
    <3> QED
      BY <3>3
  <2>9. PICK m \in S : \A u \in S : \A i \in Held(u) : Rank[Asks(u)] <= Rank[Asks(m)]
    <3>1. PICK h \in D : \A g \in D : f[g] <= f[h]
      <4>1. D \in SUBSET (1 .. MaxHandle) /\ f \in [1 .. MaxHandle -> Nat] /\ MaxHandle \in Nat
        BY <2>6, IOLockAssumption DEF Handles
      <4> HIDE DEF D, f
      <4> QED
        BY <2>8, <4>1, GreatestHandle
    <3>2. f[h] = Rank[Asks(Holder(h))] /\ Holder(h) \in S
      BY <2>4
    <3>3. ASSUME NEW u \in S, NEW i \in Held(u)
          PROVE  Rank[Asks(u)] <= f[h]
      <4>1. got[u][i] \in Handles /\ u \in Owners(got[u][i])
        BY <2>2, HolderMeans
      <4>2. got[u][i] \in D /\ f[got[u][i]] = Rank[Asks(u)]
        BY <2>5, <4>1
      <4> HIDE DEF D, f
      <4> QED
        BY <3>1, <4>2
    <3> HIDE DEF D, f
    <3> QED
      BY <3>2, <3>3
  <2> HIDE DEF D, f
  <2>10. PICK u \in S \ {m} : \E i \in Held(u) :
            Related(handles[got[u][i]].path, req[m].path)
    BY <2>7
  <2>11. PICK i \in Held(u) : Related(handles[got[u][i]].path, req[m].path)
    BY <2>10
  <2>12. PICK w \in S \ {u} : \E j \in Held(w) :
            Related(handles[got[w][j]].path, req[u].path)
    BY <2>7
  <2>13. PICK j \in Held(w) : Related(handles[got[w][j]].path, req[u].path)
    BY <2>12
  <2> DEFINE p == call[u].plan[i]
             q == call[w].plan[j]
  <2>14. /\ p \in RawPaths /\ Rank[p] <= Rank[Asks(u)]
         /\ got[u][i] \in Handles /\ u \in Owners(got[u][i]) /\ handles[got[u][i]] # Gone
         /\ handles[got[u][i]].path = NormalizePath(p) /\ handles[got[u][i]].mode = "Write"
    BY <2>2, HolderMeans
  <2>15. /\ q \in RawPaths
         /\ got[w][j] \in Handles /\ w \in Owners(got[w][j]) /\ handles[got[w][j]] # Gone
         /\ handles[got[w][j]].path = NormalizePath(q)
    BY <2>2, HolderMeans
  <2> HIDE DEF p, q
  <2>16. Rank[Asks(u)] <= Rank[Asks(m)]
    BY <2>9
  \* The lock u holds is at or above what m asks for, so at or above what u asks for.
  <2>17. AtOrBelow(NormalizePath(Asks(m)), NormalizePath(p))
    <3>1. Related(NormalizePath(p), NormalizePath(Asks(m)))
      BY <2>3, <2>11, <2>14
    <3>2. Rank[p] <= Rank[Asks(m)] /\ ~ (Rank[Asks(m)] < Rank[p])
      BY <2>0, <2>3, <2>14, <2>16
    <3>3. NormalizePath(Asks(m)) \notin Ancestors(NormalizePath(p))
      BY <2>0, <2>3, <2>14, <3>2 DEF FollowsTree
    <3> QED
      BY <3>1, <3>3 DEF Related, AtOrBelow
  <2>18. AtOrBelow(NormalizePath(Asks(u)), NormalizePath(p))
    BY <2>0, <2>3, <2>14, <2>16, <2>17 DEF FollowsTree
  \* So the lock that delays u overlaps the one u holds.
  <2>19. Related(handles[got[u][i]].path, handles[got[w][j]].path)
    <3>1. Related(NormalizePath(q), NormalizePath(Asks(u)))
      BY <2>3, <2>13, <2>15
    <3>2. /\ NormalizePath(p) \in Paths /\ NormalizePath(q) \in Paths
          /\ NormalizePath(Asks(u)) \in Paths
      BY <2>3, <2>14, <2>15 DEF Paths
    <3>3. Related(NormalizePath(p), NormalizePath(q))
      BY <2>18, <3>1, <3>2, RelatedBelow
    <3> QED
      BY <2>14, <2>15, <3>3
  <2>20. got[u][i] # got[w][j]
    BY <2>0, <2>14, <2>15 DEF OwnedOnce
  <2>21. handles[got[u][i]].mode = "Read"
    BY <2>0, <2>14, <2>15, <2>19, <2>20 DEF HierarchyExclusion
  <2> QED
    BY <2>14, <2>21
<1> QED
  BY <1>1, SyscallInvariant, PTL
=============================================================================
