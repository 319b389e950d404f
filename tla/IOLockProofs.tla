---------------------------- MODULE IOLockProofs ----------------------------
(***************************************************************************)
(* IOLock keeps its table and its handle map consistent and its locks      *)
(* exclusive along the path hierarchy, for every set of threads and paths. *)
(***************************************************************************)
EXTENDS IOLock, FiniteSetTheorems, TLAPS

\* Handles that were never issued are not live.
Fresh == \A h \in Handles : h > next_handle => handles[h] = Gone

\* A thread inside blocking_acquire has a request.
InCall == {"fast", "blocked", "waiting", "woken", "timedout"}
Asked == \A t \in Threads : pc[t] \in InCall => req[t] \in HandleInfo

\* The inductive invariant.  HierarchyExclusion is a fact about handles, the
\* conflict checks read the table: Accounting is what connects the two.
IInv == IOTypeOK /\ Fresh /\ Asked /\ Accounting /\ HierarchyExclusion

-----------------------------------------------------------------------------
\* The live read handles of a path are finitely many, so counting them means
\* something: none is live exactly when the count is zero.
LEMMA ReadHandlesFinite ==
    ASSUME NEW p
    PROVE  /\ IsFiniteSet(ReadHandles(p))
           /\ Cardinality(ReadHandles(p)) \in Nat
           /\ Cardinality(ReadHandles(p)) = 0 <=> ReadHandles(p) = {}
<1>1. IsFiniteSet(Handles)
  BY IOLockAssumption, FS_Interval DEF Handles
<1>2. ReadHandles(p) \subseteq Handles
  BY DEF ReadHandles
<1>3. IsFiniteSet(ReadHandles(p))
  BY <1>1, <1>2, FS_Subset
<1> QED
  BY <1>3, FS_CardinalityType, FS_EmptySet

\* The initial table is empty, as is the handle map.
LEMMA InitIInv == IOInit => IInv
<1> SUFFICES ASSUME IOInit PROVE IInv
  OBVIOUS
<1>1. IOTypeOK
  BY IOLockAssumption DEF IOInit, IOTypeOK, Idle, Handles, NoHandle, PCs
<1>2. Fresh /\ Asked
  BY DEF IOInit, Fresh, Asked, InCall
<1>3. Accounting
  <2> SUFFICES ASSUME NEW p \in Paths
               PROVE  /\ locks[p].io_readers = Cardinality(ReadHandles(p))
                      /\ \A h \in Handles :
                            handles[h] = [path |-> p, mode |-> "Write"]
                                <=> locks[p].io_writer = h
    BY DEF Accounting
  <2>1. ReadHandles(p) = {}
    BY DEF IOInit, ReadHandles, Gone
  <2>2. Cardinality(ReadHandles(p)) = 0
    BY <2>1, ReadHandlesFinite
  <2>3. locks[p].io_readers = 0 /\ locks[p].io_writer = 0
    BY DEF IOInit, Idle, NoHandle
  <2>4. \A h \in Handles : h # 0 /\ handles[h] = Gone
    BY IOLockAssumption DEF IOInit, Handles
  <2>5. Gone # [path |-> p, mode |-> "Write"]
    BY DEF Gone
  <2> QED
    BY <2>2, <2>3, <2>4, <2>5
<1>4. HierarchyExclusion
  BY DEF IOInit, HierarchyExclusion
<1> QED
  BY <1>1, <1>2, <1>3, <1>4 DEF IInv

\* A live handle on a path related to a grantable request is a read handle,
\* and so is the request: the two conflict checks and the check of the entry
\* itself see every related path, in both directions.
LEMMA GrantableExcludes ==
    ASSUME IInv, NEW t \in Threads, req[t] \in HandleInfo,
           Grantable(req[t].path, req[t].mode),
           NEW g \in Handles, handles[g] # Gone,
           Related(handles[g].path, req[t].path)
    PROVE  handles[g].mode = "Read" /\ req[t].mode = "Read"
<1> DEFINE p == req[t].path
           m == req[t].mode
           q == handles[g].path
<1>1. handles[g] \in HandleInfo /\ q \in Paths /\ p \in Paths /\ m \in Modes
  BY DEF IInv, IOTypeOK, HandleInfo
<1>2. ~ Blocks(locks[q], m)
  <2>1. CASE q = p
    BY <2>1 DEF Grantable
  <2>2. CASE q \in Ancestors(p)
    BY <1>1, <2>2 DEF Grantable, ancestor_io_conflict
  <2>3. CASE p \in Ancestors(q)
    BY <1>1, <2>3 DEF Grantable, descendant_io_conflict, DescendantRange
  <2> QED
    BY <2>1, <2>2, <2>3 DEF Related
<1>3. handles[g].mode # "Write"
  <2> SUFFICES ASSUME handles[g].mode = "Write" PROVE FALSE
    OBVIOUS
  <2>1. handles[g] = [path |-> q, mode |-> "Write"]
    BY <1>1 DEF HandleInfo
  <2>2. locks[q].io_writer = g
    BY <1>1, <2>1 DEF IInv, Accounting
  <2> QED
    BY <1>2, <2>2, IOLockAssumption DEF Blocks, Handles, NoHandle
<1>4. handles[g].mode = "Read"
  BY <1>1, <1>3 DEF HandleInfo, Modes
<1>5. m # "Write"
  <2> SUFFICES ASSUME m = "Write" PROVE FALSE
    OBVIOUS
  <2>1. g \in ReadHandles(q)
    BY <1>1, <1>4 DEF ReadHandles, HandleInfo
  <2>2. locks[q].io_readers = Cardinality(ReadHandles(q))
    BY <1>1 DEF IInv, Accounting
  <2>3. Cardinality(ReadHandles(q)) > 0
    BY <2>1, ReadHandlesFinite
  <2> QED
    BY <1>2, <2>2, <2>3 DEF Blocks
<1> QED
  BY <1>1, <1>4, <1>5 DEF Modes

\* Granting a request keeps the invariant.
LEMMA GrantIInv ==
    ASSUME IInv, NEW t \in Threads, pc[t] \in InCall,
           Grantable(req[t].path, req[t].mode), Grant(t)
    PROVE  IInv'
<1> DEFINE p == req[t].path
           m == req[t].mode
           h == next_handle + 1
<1>0. req[t] \in HandleInfo /\ p \in Paths /\ m \in Modes /\ h \in Handles
  BY DEF IInv, Asked, HandleInfo, Grant
<1>1. /\ handles' = [handles EXCEPT ![h] = req[t]]
      /\ next_handle' = h
      /\ locks' = IF m = "Read" THEN [locks EXCEPT ![p].io_readers = @ + 1]
                                ELSE [locks EXCEPT ![p].io_writer = h]
      /\ handles[h] = Gone
      /\ handles'[h] = req[t]
      /\ \A g \in Handles : g # h => handles'[g] = handles[g]
  BY <1>0 DEF Grant, IInv, IOTypeOK, Fresh, Handles
<1>11. m = "Read" => locks'[p] = [locks[p] EXCEPT !.io_readers = @ + 1]
  BY <1>0, <1>1 DEF IInv, IOTypeOK
<1>12. m = "Write" => locks'[p] = [locks[p] EXCEPT !.io_writer = h]
  BY <1>0, <1>1 DEF IInv, IOTypeOK
<1>2. IOTypeOK'
  <2>1. locks'[p] \in [io_readers : Nat, io_writer : Handles \cup {NoHandle}]
    <3>1. locks[p] \in [io_readers : Nat, io_writer : Handles \cup {NoHandle}]
      BY <1>0 DEF IInv, IOTypeOK
    <3>2. CASE m = "Read"
      BY <1>11, <3>1, <3>2
    <3>3. CASE m = "Write"
      BY <1>0, <1>12, <3>1, <3>3
    <3> QED
      BY <1>0, <3>2, <3>3 DEF Modes
  <2>2. locks' \in [Paths -> [io_readers : Nat, io_writer : Handles \cup {NoHandle}]]
    BY <1>0, <1>1, <2>1 DEF IInv, IOTypeOK
  <2>3. handles' \in [Handles -> HandleInfo \cup {Gone}]
    BY <1>0, <1>1 DEF IInv, IOTypeOK
  <2>4. next_handle' \in 0 .. MaxHandle
    BY <1>0, <1>1, IOLockAssumption DEF Handles
  <2>5. /\ pc' \in [Threads -> PCs]
        /\ req' \in [Threads -> HandleInfo \cup {Gone}]
        /\ late' \in [Threads -> BOOLEAN]
        /\ ret' \in [Threads -> Handles \cup {NoHandle}]
    <3>1. pc' = [pc EXCEPT ![t] = "idle"] /\ "idle" \in PCs
      BY DEF Grant, Leave, PCs
    <3>2. /\ req' = [req EXCEPT ![t] = Gone]
          /\ late' = [late EXCEPT ![t] = FALSE]
          /\ ret' = [ret EXCEPT ![t] = h]
      BY DEF Grant, Leave
    <3> QED
      BY <1>0, <3>1, <3>2 DEF IInv, IOTypeOK
  <2> QED
    BY <2>2, <2>3, <2>4, <2>5 DEF IOTypeOK
<1>3. Fresh'
  <2>1. \A g \in Handles : g > h => g # h /\ g > next_handle
    BY <1>0, IOLockAssumption DEF IInv, IOTypeOK, Handles
  <2> QED
    BY <1>1, <2>1 DEF IInv, Fresh
<1>4. Asked'
  BY DEF IInv, IOTypeOK, Asked, Grant, Leave, InCall, PCs
<1>5. Accounting'
  <2> SUFFICES ASSUME NEW q \in Paths
               PROVE  /\ locks'[q].io_readers = Cardinality(ReadHandles(q)')
                      /\ \A g \in Handles :
                            handles'[g] = [path |-> q, mode |-> "Write"]
                                <=> locks'[q].io_writer = g
    BY <1>0 DEF Accounting
  <2>0. /\ locks[q].io_readers = Cardinality(ReadHandles(q))
        /\ \A g \in Handles :
              handles[g] = [path |-> q, mode |-> "Write"] <=> locks[q].io_writer = g
        /\ locks \in [Paths -> [io_readers : Nat, io_writer : Handles \cup {NoHandle}]]
    BY DEF IInv, Accounting, IOTypeOK
  <2>01. h # NoHandle /\ Gone # [path |-> q, mode |-> "Write"]
         /\ Gone # [path |-> q, mode |-> "Read"]
    BY <1>0, IOLockAssumption DEF Handles, NoHandle, Gone
  <2>1. CASE q = p /\ m = "Read"
    <3>1. ReadHandles(q)' = ReadHandles(q) \cup {h}
      BY <1>0, <1>1, <2>1 DEF ReadHandles, HandleInfo
    <3>2. h \notin ReadHandles(q)
      BY <1>1, <2>01 DEF ReadHandles
    <3>3. Cardinality(ReadHandles(q)') = Cardinality(ReadHandles(q)) + 1
      BY <3>1, <3>2, ReadHandlesFinite, FS_AddElement
    <3>4. /\ locks'[q].io_readers = locks[q].io_readers + 1
          /\ locks'[q].io_writer = locks[q].io_writer
      BY <1>0, <1>11, <2>0, <2>1
    <3>5. handles'[h] # [path |-> q, mode |-> "Write"] /\ locks[q].io_writer # h
      BY <1>0, <1>1, <2>0, <2>01, <2>1
    <3> QED
      BY <1>1, <2>0, <3>3, <3>4, <3>5
  <2>2. CASE q = p /\ m = "Write"
    <3>1. ReadHandles(q)' = ReadHandles(q)
      BY <1>0, <1>1, <2>01, <2>2 DEF ReadHandles
    <3>2. /\ locks'[q].io_readers = locks[q].io_readers
          /\ locks'[q].io_writer = h
      BY <1>0, <1>12, <2>0, <2>2
    <3>3. locks[q].io_writer = NoHandle
      BY <2>2 DEF Grantable, Blocks
    <3>4. \A g \in Handles : g # NoHandle
      BY IOLockAssumption DEF Handles, NoHandle
    <3>5. handles'[h] = [path |-> q, mode |-> "Write"]
      BY <1>0, <1>1, <2>2 DEF HandleInfo
    <3> QED
      BY <1>1, <2>0, <3>1, <3>2, <3>3, <3>4, <3>5
  <2>3. CASE q # p
    <3>1. ReadHandles(q)' = ReadHandles(q)
      BY <1>0, <1>1, <2>01, <2>3 DEF ReadHandles
    <3>2. locks'[q] = locks[q]
      BY <1>0, <1>1, <2>0, <2>3
    <3>3. handles'[h] # [path |-> q, mode |-> "Write"] /\ locks[q].io_writer # h
      BY <1>0, <1>1, <2>0, <2>01, <2>3
    <3> QED
      BY <1>1, <2>0, <3>1, <3>2, <3>3
  <2> QED
    BY <1>0, <2>1, <2>2, <2>3 DEF Modes
<1>6. HierarchyExclusion'
  <2> SUFFICES ASSUME NEW f \in Handles, NEW g \in Handles, f # g,
                      handles'[f] # Gone, handles'[g] # Gone,
                      Related(handles'[f].path, handles'[g].path)
               PROVE  handles'[f].mode = "Read" /\ handles'[g].mode = "Read"
    BY DEF HierarchyExclusion
  <2>1. CASE f # h /\ g # h
    BY <1>1, <2>1 DEF IInv, HierarchyExclusion
  <2>2. CASE g = h
    BY <1>0, <1>1, <2>2, GrantableExcludes
  <2>3. CASE f = h
    <3>1. Related(handles[g].path, req[t].path)
      BY <1>1, <2>3 DEF Related
    <3> QED
      BY <1>0, <1>1, <2>3, <3>1, GrantableExcludes
  <2> QED
    BY <2>1, <2>2, <2>3
<1> QED
  BY <1>2, <1>3, <1>4, <1>5, <1>6 DEF IInv

\* Releasing a live handle keeps the invariant.
LEMMA ReleaseIInv ==
    ASSUME IInv, NEW t \in Threads, NEW h \in Handles, ReleaseLocked(t, h)
    PROVE  IInv'
<1>00. PICK p \in Paths, m \in Modes : handles[h] = [path |-> p, mode |-> m]
  BY DEF ReleaseLocked, IInv, IOTypeOK, HandleInfo
<1>0. /\ handles[h] = [path |-> p, mode |-> m]
      /\ handles[h].path = p /\ handles[h].mode = m
      /\ locks \in [Paths -> [io_readers : Nat, io_writer : Handles \cup {NoHandle}]]
  BY <1>00 DEF IInv, IOTypeOK
<1>1. /\ handles' = [handles EXCEPT ![h] = Gone]
      /\ handles'[h] = Gone
      /\ \A g \in Handles : g # h => handles'[g] = handles[g]
  BY DEF ReleaseLocked, IInv, IOTypeOK
<1>2. \A g \in Handles : g # NoHandle
  BY IOLockAssumption DEF Handles, NoHandle
<1>3. \A q \in Paths : /\ Gone # [path |-> q, mode |-> "Read"]
                        /\ Gone # [path |-> q, mode |-> "Write"]
  BY DEF Gone
<1>4. m = "Read" => locks' = [locks EXCEPT ![p].io_readers = @ - 1]
  BY <1>0 DEF ReleaseLocked
<1>5. m = "Write" => locks' = [locks EXCEPT ![p].io_writer = NoHandle]
  <2>1. m = "Write" => locks[p].io_writer = h
    BY <1>0 DEF IInv, Accounting
  <2> QED
    BY <1>0, <2>1 DEF ReleaseLocked
<1>6. \A q \in Paths : /\ locks[q].io_readers = Cardinality(ReadHandles(q))
                        /\ \A g \in Handles :
                              handles[g] = [path |-> q, mode |-> "Write"]
                                 <=> locks[q].io_writer = g
  BY DEF IInv, Accounting
<1>7. m = "Read" =>
        /\ ReadHandles(p)' = ReadHandles(p) \ {h}
        /\ Cardinality(ReadHandles(p)') = Cardinality(ReadHandles(p)) - 1
        /\ Cardinality(ReadHandles(p)) > 0
  <2> SUFFICES ASSUME m = "Read"
               PROVE  /\ ReadHandles(p)' = ReadHandles(p) \ {h}
                      /\ Cardinality(ReadHandles(p)') = Cardinality(ReadHandles(p)) - 1
                      /\ Cardinality(ReadHandles(p)) > 0
    OBVIOUS
  <2>1. ReadHandles(p)' = ReadHandles(p) \ {h}
    BY <1>0, <1>1, <1>3 DEF ReadHandles
  <2>2. h \in ReadHandles(p)
    BY <1>0 DEF ReadHandles
  <2>3. Cardinality(ReadHandles(p) \ {h}) = Cardinality(ReadHandles(p)) - 1
    BY <2>2, ReadHandlesFinite, FS_RemoveElement
  <2> QED
    BY <2>1, <2>2, <2>3, ReadHandlesFinite
<1>8. IOTypeOK'
  <2>1. locks' \in [Paths -> [io_readers : Nat, io_writer : Handles \cup {NoHandle}]]
    <3>1. CASE m = "Read"
      <4>1. locks[p].io_readers \in Nat
        BY <1>0
      <4>2. locks[p].io_readers > 0
        BY <1>6, <1>7, <3>1
      <4>3. locks[p].io_readers - 1 \in Nat
        BY <4>1, <4>2
      <4> QED
        BY <1>0, <1>4, <3>1, <4>3
    <3>2. CASE m = "Write"
      BY <1>0, <1>5, <3>2
    <3> QED
      BY <1>0, <3>1, <3>2 DEF Modes
  <2>2. handles' \in [Handles -> HandleInfo \cup {Gone}]
    BY <1>1 DEF IInv, IOTypeOK
  <2>3. pc' = [pc EXCEPT ![t] = "notify"] /\ "notify" \in PCs
    BY DEF ReleaseLocked, PCs
  <2>4. UNCHANGED <<next_handle, req, late, ret>>
    BY DEF ReleaseLocked
  <2> QED
    BY <2>1, <2>2, <2>3, <2>4 DEF IInv, IOTypeOK
<1>9. Fresh'
  BY <1>1 DEF IInv, Fresh, ReleaseLocked
<1>10. Asked'
  BY DEF IInv, IOTypeOK, Asked, ReleaseLocked, InCall
<1>11. Accounting'
  <2> SUFFICES ASSUME NEW q \in Paths
               PROVE  /\ locks'[q].io_readers = Cardinality(ReadHandles(q)')
                      /\ \A g \in Handles :
                            handles'[g] = [path |-> q, mode |-> "Write"]
                                <=> locks'[q].io_writer = g
    BY DEF Accounting
  <2>1. CASE q = p /\ m = "Read"
    <3>1. /\ locks'[q].io_readers = locks[q].io_readers - 1
          /\ locks'[q].io_writer = locks[q].io_writer
      BY <1>0, <1>4, <2>1
    <3>2. handles'[h] # [path |-> q, mode |-> "Write"] /\ locks[q].io_writer # h
      BY <1>0, <1>1, <1>3, <1>6, <2>1
    <3> QED
      BY <1>1, <1>6, <1>7, <2>1, <3>1, <3>2
  <2>2. CASE q = p /\ m = "Write"
    <3>1. ReadHandles(q)' = ReadHandles(q)
      BY <1>0, <1>1, <1>3, <2>2 DEF ReadHandles
    <3>2. /\ locks'[q].io_readers = locks[q].io_readers
          /\ locks'[q].io_writer = NoHandle
      BY <1>0, <1>5, <2>2
    <3>3. locks[q].io_writer = h
      BY <1>0, <1>6, <2>2
    <3>4. \A g \in Handles : handles'[g] # [path |-> q, mode |-> "Write"]
      BY <1>1, <1>3, <1>6, <3>3
    <3> QED
      BY <1>2, <1>6, <3>1, <3>2, <3>4
  <2>3. CASE q # p
    <3>1. ReadHandles(q)' = ReadHandles(q)
      BY <1>0, <1>1, <1>3, <2>3 DEF ReadHandles
    <3>2. locks'[q] = locks[q]
      BY <1>0, <1>4, <1>5, <2>3 DEF Modes
    <3>3. handles'[h] # [path |-> q, mode |-> "Write"] /\ locks[q].io_writer # h
      BY <1>0, <1>1, <1>3, <1>6, <2>3
    <3> QED
      BY <1>1, <1>6, <3>1, <3>2, <3>3
  <2> QED
    BY <1>0, <2>1, <2>2, <2>3 DEF Modes
<1>12. HierarchyExclusion'
  BY <1>1 DEF IInv, HierarchyExclusion
<1> QED
  BY <1>8, <1>9, <1>10, <1>11, <1>12 DEF IInv

\* A step that leaves the table, the handles and the counter alone keeps the
\* invariant if the threads stay well typed.
LEMMA FrameIInv ==
    ASSUME IInv, UNCHANGED <<locks, handles, next_handle>>,
           IOTypeOK', Asked'
    PROVE  IInv'
<1>1. Fresh'
  BY DEF IInv, Fresh
<1>2. Accounting'
  BY DEF IInv, Accounting, ReadHandles
<1>3. HierarchyExclusion'
  BY DEF IInv, HierarchyExclusion
<1> QED
  BY <1>1, <1>2, <1>3 DEF IInv

\* Every step of the lock manager keeps the invariant.
LEMMA NextIInv == IInv /\ [IONext]_iovars => IInv'
<1> SUFFICES ASSUME IInv, [IONext]_iovars PROVE IInv'
  OBVIOUS
<1>0. /\ pc \in [Threads -> PCs]
      /\ req \in [Threads -> HandleInfo \cup {Gone}]
      /\ late \in [Threads -> BOOLEAN]
      /\ ret \in [Threads -> Handles \cup {NoHandle}]
      /\ \A t \in Threads : pc[t] \in InCall => req[t] \in HandleInfo
  BY DEF IInv, IOTypeOK, Asked
<1>1. ASSUME NEW t \in Threads, NEW raw \in RawPaths, NEW mode \in Modes,
             CallAcquire(t, raw, mode)
      PROVE  IInv'
  <2>1. [path |-> NormalizePath(raw), mode |-> mode] \in HandleInfo
    BY DEF HandleInfo, Paths
  <2>2. IOTypeOK'
    BY <1>0, <1>1, <2>1 DEF CallAcquire, IInv, IOTypeOK, PCs
  <2>3. Asked'
    BY <1>0, <1>1, <2>1 DEF CallAcquire, Asked
  <2> QED
    BY <1>1, <2>2, <2>3, FrameIInv DEF CallAcquire
<1>2. ASSUME NEW t \in Threads, NEW h \in Handles, ReleaseLocked(t, h)
      PROVE  IInv'
  BY <1>2, ReleaseIInv
<1>3. ASSUME NEW t \in Threads, FastTake(t) \/ RetryTake(t)
      PROVE  IInv'
  BY <1>3, GrantIInv DEF FastTake, RetryTake, InCall
<1>4. ASSUME NEW t \in Threads, ReturnNoHandle(t)
      PROVE  IInv'
  <2>1. IOTypeOK'
    BY <1>0, <1>4 DEF ReturnNoHandle, Leave, IInv, IOTypeOK, PCs
  <2>2. Asked'
    BY <1>0, <1>4 DEF ReturnNoHandle, Leave, Asked, InCall
  <2> QED
    BY <1>4, <2>1, <2>2, FrameIInv DEF ReturnNoHandle
<1>5. ASSUME UNCHANGED <<locks, handles, next_handle, req, ret>>,
             pc' \in [Threads -> PCs], late' \in [Threads -> BOOLEAN],
             \A u \in Threads : pc'[u] \in InCall => pc[u] \in InCall
      PROVE  IInv'
  <2>1. IOTypeOK'
    BY <1>5 DEF IInv, IOTypeOK
  <2>2. Asked'
    BY <1>0, <1>5 DEF Asked
  <2> QED
    BY <1>5, <2>1, <2>2, FrameIInv
<1>6. ASSUME NEW t \in Threads, FastFail(t) \/ WaitTimesOut(t) \/ DeadlinePasses(t)
      PROVE  IInv'
  <2>1. pc' \in [Threads -> PCs] /\ late' \in [Threads -> BOOLEAN]
    BY <1>0, <1>6 DEF FastFail, WaitTimesOut, DeadlinePasses, PCs
  <2>2. \A u \in Threads : pc'[u] \in InCall => pc[u] \in InCall
    BY <1>0, <1>6 DEF FastFail, WaitTimesOut, DeadlinePasses, InCall
  <2> QED
    BY <1>5, <1>6, <2>1, <2>2 DEF FastFail, WaitTimesOut, DeadlinePasses
<1>7. ASSUME NEW t \in Threads, WaitOrGiveUp(t) \/ RetryFail(t), ~ ReturnNoHandle(t)
      PROVE  IInv'
  <2>1. pc' \in [Threads -> PCs] /\ late' \in [Threads -> BOOLEAN]
    BY <1>0, <1>7 DEF WaitOrGiveUp, RetryFail, PCs
  <2>2. \A u \in Threads : pc'[u] \in InCall => pc[u] \in InCall
    BY <1>0, <1>7 DEF WaitOrGiveUp, RetryFail, InCall
  <2> QED
    BY <1>5, <1>7, <2>1, <2>2 DEF WaitOrGiveUp, RetryFail
<1>8. ASSUME NEW t \in Threads, NotifyAll(t)
      PROVE  IInv'
  <2>1. pc' \in [Threads -> PCs] /\ late' \in [Threads -> BOOLEAN]
    BY <1>0, <1>8 DEF NotifyAll, PCs
  <2>2. \A u \in Threads : pc'[u] \in InCall => pc[u] \in InCall
    BY <1>0, <1>8 DEF NotifyAll, InCall
  <2> QED
    BY <1>5, <1>8, <2>1, <2>2 DEF NotifyAll
<1>9. CASE UNCHANGED iovars
  BY <1>0, <1>5, <1>9 DEF iovars
<1>10. CASE IONext
  <2>1. PICK t \in Threads :
            \/ \E raw \in RawPaths, mode \in Modes : CallAcquire(t, raw, mode)
            \/ \E h \in Handles : ReleaseLocked(t, h)
            \/ DeadlinePasses(t)
            \/ Inside(t)
    BY <1>10 DEF IONext
  <2> QED
    BY <2>1, <1>1, <1>2, <1>3, <1>4, <1>6, <1>7, <1>8 DEF Inside
<1> QED
  BY <1>9, <1>10

\* The invariant holds throughout.
THEOREM IOLockInvariant == IOSpec => []IInv
BY InitIInv, NextIInv, PTL DEF IOSpec

\* Type correctness of the lock manager's state: in particular io_readers
\* never goes below zero, so do_release's decrement never wraps.
THEOREM IOLockTypeOK == IOSpec => []IOTypeOK
<1>1. IInv => IOTypeOK
  BY DEF IInv
<1> QED
  BY <1>1, IOLockInvariant, PTL

\* The lock table and the handle map agree for ever.
THEOREM IOLockAccounting == IOSpec => []Accounting
<1>1. IInv => Accounting
  BY DEF IInv
<1> QED
  BY <1>1, IOLockInvariant, PTL

\* Writers exclude everyone on overlapping subtrees, for any number of
\* threads, any tree of paths and any client of the lock manager.
THEOREM IOLockExclusion == IOSpec => []HierarchyExclusion
<1>1. IInv => HierarchyExclusion
  BY DEF IInv
<1> QED
  BY <1>1, IOLockInvariant, PTL
=============================================================================
