------------------------- MODULE ZoneConsensusProofs -------------------------
(***************************************************************************)
(* ZoneConsensus: what holds of a raft zone of any size, with any number   *)
(* of crashes: the order of the indexes, one leader per term, one entry    *)
(* per index and term, and tables that are what the node's own log         *)
(* produces.  Agreement between nodes (ReplicasAgree, CommittedStays,      *)
(* ReadsLinearizable) needs more: the run ZoneStaleTail refutes it, and    *)
(* it is proved here of every behaviour without stale tails (NoStaleTail). *)
(***************************************************************************)
EXTENDS ZoneConsensus, SequenceTheorems, FiniteSetTheorems, WellFoundedInduction, TLAPS

\* What an entry's call adds to the metadata calls before it, and to the lock
\* table before it.
AfterMetadata(calls, c) == IF IsMetadata(c) THEN Append(calls, c) ELSE calls
AfterLock(tab, c) == IF IsLock(c) THEN ApplyLock(tab, Command[c]) ELSE tab

\* The types, as far as the proofs need them.
Types ==
    /\ voters \subseteq Nodes
    /\ log \in [Nodes -> Seq(Entry)]
    /\ term \in [Nodes -> 0 .. MaxTerm]
    /\ role \in [Nodes -> {"leader", "follower"}]
    /\ hs_commit \in [Nodes -> Nat]
    /\ commit \in [Nodes -> Nat]
    /\ applied \in [Nodes -> Nat]
    /\ last_applied \in [Nodes -> Nat]
    /\ saved_applied \in [Nodes -> Nat]
    /\ proposal_id \in [Nodes -> Nat]
    /\ DOMAIN meta = Nodes /\ DOMAIN advisory = Nodes /\ DOMAIN pending = Nodes
    /\ restarts \in 0 .. MaxRestarts

\* The order of a node's indexes.  Where other voters can send it entries, the
\* saved commit index is the one in memory and covers what was applied; in a
\* zone of one it may lag, but nobody can rewrite the log.
IndexesOK(n) ==
    /\ hs_commit[n] <= commit[n] /\ commit[n] <= LastIndex(n)
    /\ applied[n] <= commit[n] /\ applied[n] <= last_applied[n]
    /\ saved_applied[n] <= last_applied[n] /\ last_applied[n] <= LastIndex(n)
    /\ voters # {n} => hs_commit[n] = commit[n] /\ last_applied[n] <= commit[n]

\* Lock commands raise last_applied without saving it: what lies between the
\* saved and the other index is no metadata command.
GapIsLocks(n) ==
    \A i \in saved_applied[n] + 1 .. last_applied[n] : ~ IsMetadata(log[n][i].call)

PendingOK(n) == \A id \in DOMAIN pending[n] : pending[n][id] \in Calls

NodeOK(n) ==
    /\ IndexesOK(n)
    /\ GapIsLocks(n)
    /\ PendingOK(n)
    /\ meta[n] = MetadataOf(log[n])[last_applied[n]]
    /\ advisory[n] = LocksOf(log[n])[applied[n]]

\* A majority of the voters has reached term t.
Reached(t) == Majority({q \in voters : term[q] >= t})

\* A leader is a voter; its term, and the term of every entry, was voted for.
TermsReached ==
    /\ \A l \in Nodes : role[l] = "leader" => l \in voters /\ Reached(term[l])
    /\ \A n \in Nodes : \A i \in 1 .. LastIndex(n) : Reached(log[n][i].term)

\* Two nodes are never leaders of the same term, crashes included.
OneLeaderPerTerm ==
    \A l, m \in Nodes :
        role[l] = "leader" /\ role[m] = "leader" /\ term[l] = term[m] => l = m

\* Two logs that have an entry of the same term at the same index have the
\* same entry there, which is what raft-rs relies on when it compares terms
\* only; RaftStorage::append's stale tails do not break it.
EntriesIdentical ==
    \A n, m \in Nodes : \A i \in 1 .. LastIndex(n) :
        i <= LastIndex(m) /\ log[n][i].term = log[m][i].term => log[n][i] = log[m][i]

\* A leader has every entry of its term.
LeaderHasAll ==
    \A l, m \in Nodes : \A i \in 1 .. LastIndex(m) :
        role[l] = "leader" /\ log[m][i].term = term[l] => i <= LastIndex(l)

LogsOK == TermsReached /\ OneLeaderPerTerm /\ EntriesIdentical /\ LeaderHasAll

\* The inductive invariant.
ZInv == Types /\ (\A n \in Nodes : NodeOK(n)) /\ LogsOK

-----------------------------------------------------------------------------
\* The least-number principle: a set of naturals that is not empty has a least
\* element.  It stands in for induction in the lemmas about the two recursive
\* functions that follow.
LEMMA LeastNat ==
    ASSUME NEW S, S \subseteq Nat, S # {}
    PROVE  \E n \in S : \A m \in S : n <= m
<1>1. PICK x \in S : \A y \in S : ~ (<<y, x>> \in OpToRel(<, Nat))
  BY NatLessThanWellFounded, WFMin
<1>2. \A y \in S : y < x => <<y, x>> \in OpToRel(<, Nat)
  BY DEF OpToRel
<1>3. \A y \in S : ~ (y < x)
  BY <1>1, <1>2, Zenon
<1> QED
  BY <1>3

\* f is the function of metadata calls up to index k, by the definition's recursion.
IsMetadataOf(f, e, k) ==
    f = [i \in 0 .. k |-> IF i = 0 THEN <<>> ELSE AfterMetadata(f[i - 1], e[i].call)]

\* There is such a function for every k: a least k without one is not 0, and
\* one more value extends the function for k - 1.
LEMMA MetadataExists ==
    ASSUME NEW e, NEW L \in Nat
    PROVE  \E f : IsMetadataOf(f, e, L)
<1> DEFINE Bad == {k \in Nat : ~ \E f : IsMetadataOf(f, e, k)}
<1> SUFFICES ASSUME Bad # {} PROVE FALSE
  OBVIOUS
<1>1. PICK k \in Bad : \A m \in Bad : k <= m
  BY LeastNat
<1>2. CASE k = 0
  <2>1. IsMetadataOf([i \in 0 .. 0 |-> <<>>], e, 0)
    BY DEF IsMetadataOf
  <2> QED
    BY <1>2, <2>1
<1>3. CASE k # 0
  <2>1. k - 1 \in Nat /\ k - 1 \notin Bad
    BY <1>1, <1>3
  <2>2. PICK f : IsMetadataOf(f, e, k - 1)
    BY <2>1
  <2> DEFINE last == AfterMetadata(f[k - 1], e[k].call)
             g == [i \in 0 .. k |-> IF i = k THEN last ELSE f[i]]
  <2>3. \A i \in 0 .. k :
           g[i] = IF i = 0 THEN <<>> ELSE AfterMetadata(g[i - 1], e[i].call)
    <3> TAKE i \in 0 .. k
    <3>1. CASE i = k
      <4>1. g[i] = last /\ g[i - 1] = f[k - 1]
        BY <1>3, <2>1, <3>1
      <4> QED
        BY <1>3, <3>1, <4>1
    <3>2. CASE i # k
      <4>1. i \in 0 .. k - 1 /\ (i # 0 => i - 1 \in 0 .. k - 1)
        BY <2>1, <3>2
      <4>2. f[i] = IF i = 0 THEN <<>> ELSE AfterMetadata(f[i - 1], e[i].call)
        BY <2>2, <4>1 DEF IsMetadataOf
      <4>3. g[i] = f[i] /\ (i # 0 => g[i - 1] = f[i - 1])
        BY <2>1, <3>2, <4>1
      <4> QED
        BY <4>2, <4>3
    <3> QED
      BY <3>1, <3>2
  <2>4. IsMetadataOf(g, e, k)
    BY <2>3 DEF IsMetadataOf
  <2> QED
    BY <2>4
<1> QED
  BY <1>2, <1>3

\* So the recursive function computes what its definition says.
LEMMA MetadataEquation ==
    ASSUME NEW e, Len(e) \in Nat
    PROVE  /\ MetadataOf(e)[0] = <<>>
           /\ \A i \in 1 .. Len(e) :
                 MetadataOf(e)[i] = AfterMetadata(MetadataOf(e)[i - 1], e[i].call)
<1>1. MetadataOf(e) = CHOOSE f : IsMetadataOf(f, e, Len(e))
  BY Zenon DEF MetadataOf, IsMetadataOf, AfterMetadata
<1>2. \E f : IsMetadataOf(f, e, Len(e))
  BY MetadataExists
<1>3. IsMetadataOf(MetadataOf(e), e, Len(e))
  BY <1>1, <1>2, Zenon
<1> HIDE <1>1
<1>4. \A i \in 0 .. Len(e) :
        MetadataOf(e)[i] = IF i = 0 THEN <<>> ELSE AfterMetadata(MetadataOf(e)[i - 1], e[i].call)
  BY <1>3 DEF IsMetadataOf
<1> QED
  BY <1>4

\* Its value at k depends on the first k entries only.
LEMMA MetadataPrefix ==
    ASSUME NEW e, NEW d, Len(e) \in Nat, Len(d) \in Nat,
           NEW k \in Nat, k <= Len(e), k <= Len(d),
           \A i \in 1 .. k : e[i] = d[i]
    PROVE  MetadataOf(e)[k] = MetadataOf(d)[k]
<1> DEFINE Bad == {j \in 0 .. k : MetadataOf(e)[j] # MetadataOf(d)[j]}
<1> SUFFICES ASSUME Bad # {} PROVE FALSE
  OBVIOUS
<1>0. Bad \subseteq Nat
  OBVIOUS
<1>1. PICK j \in Bad : \A m \in Bad : j <= m
  <2> HIDE DEF Bad
  <2> QED
    BY <1>0, LeastNat
<1>2. j # 0
  BY MetadataEquation
<1>3. j - 1 \in 0 .. k /\ j - 1 \notin Bad /\ j \in 1 .. Len(e) /\ j \in 1 .. Len(d)
  BY <1>1, <1>2
<1>4. MetadataOf(e)[j - 1] = MetadataOf(d)[j - 1] /\ e[j] = d[j]
  BY <1>3
<1>5. MetadataOf(e)[j] = MetadataOf(d)[j]
  BY <1>3, <1>4, MetadataEquation
<1> QED
  BY <1>5

\* f is the function of lock tables up to index k, by the definition's recursion.
IsLocksOf(f, e, k) ==
    f = [i \in 0 .. k |-> IF i = 0 THEN EmptyTable(ZonePaths) ELSE AfterLock(f[i - 1], e[i].call)]

\* There is such a function for every k: a least k without one is not 0, and
\* one more value extends the function for k - 1.
LEMMA LocksExists ==
    ASSUME NEW e, NEW L \in Nat
    PROVE  \E f : IsLocksOf(f, e, L)
<1> DEFINE Bad == {k \in Nat : ~ \E f : IsLocksOf(f, e, k)}
<1> SUFFICES ASSUME Bad # {} PROVE FALSE
  OBVIOUS
<1>1. PICK k \in Bad : \A m \in Bad : k <= m
  BY LeastNat
<1>2. CASE k = 0
  <2>1. IsLocksOf([i \in 0 .. 0 |-> EmptyTable(ZonePaths)], e, 0)
    BY DEF IsLocksOf
  <2> QED
    BY <1>2, <2>1
<1>3. CASE k # 0
  <2>1. k - 1 \in Nat /\ k - 1 \notin Bad
    BY <1>1, <1>3
  <2>2. PICK f : IsLocksOf(f, e, k - 1)
    BY <2>1
  <2> DEFINE last == AfterLock(f[k - 1], e[k].call)
             g == [i \in 0 .. k |-> IF i = k THEN last ELSE f[i]]
  <2>3. \A i \in 0 .. k :
           g[i] = IF i = 0 THEN EmptyTable(ZonePaths) ELSE AfterLock(g[i - 1], e[i].call)
    <3> TAKE i \in 0 .. k
    <3>1. CASE i = k
      <4>1. g[i] = last /\ g[i - 1] = f[k - 1]
        BY <1>3, <2>1, <3>1
      <4> QED
        BY <1>3, <3>1, <4>1
    <3>2. CASE i # k
      <4>1. i \in 0 .. k - 1 /\ (i # 0 => i - 1 \in 0 .. k - 1)
        BY <2>1, <3>2
      <4>2. f[i] = IF i = 0 THEN EmptyTable(ZonePaths) ELSE AfterLock(f[i - 1], e[i].call)
        BY <2>2, <4>1 DEF IsLocksOf
      <4>3. g[i] = f[i] /\ (i # 0 => g[i - 1] = f[i - 1])
        BY <2>1, <3>2, <4>1
      <4> QED
        BY <4>2, <4>3
    <3> QED
      BY <3>1, <3>2
  <2>4. IsLocksOf(g, e, k)
    BY <2>3 DEF IsLocksOf
  <2> QED
    BY <2>4
<1> QED
  BY <1>2, <1>3

\* So the recursive function computes what its definition says.
LEMMA LocksEquation ==
    ASSUME NEW e, Len(e) \in Nat
    PROVE  /\ LocksOf(e)[0] = EmptyTable(ZonePaths)
           /\ \A i \in 1 .. Len(e) :
                 LocksOf(e)[i] = AfterLock(LocksOf(e)[i - 1], e[i].call)
<1>1. LocksOf(e) = CHOOSE f : IsLocksOf(f, e, Len(e))
  BY Zenon DEF LocksOf, IsLocksOf, AfterLock
<1>2. \E f : IsLocksOf(f, e, Len(e))
  BY LocksExists
<1>3. IsLocksOf(LocksOf(e), e, Len(e))
  BY <1>1, <1>2, Zenon
<1> HIDE <1>1
<1>4. \A i \in 0 .. Len(e) :
        LocksOf(e)[i] = IF i = 0 THEN EmptyTable(ZonePaths)
                        ELSE AfterLock(LocksOf(e)[i - 1], e[i].call)
  BY <1>3 DEF IsLocksOf
<1> QED
  BY <1>4

\* Its value at k depends on the first k entries only.
LEMMA LocksPrefix ==
    ASSUME NEW e, NEW d, Len(e) \in Nat, Len(d) \in Nat,
           NEW k \in Nat, k <= Len(e), k <= Len(d),
           \A i \in 1 .. k : e[i] = d[i]
    PROVE  LocksOf(e)[k] = LocksOf(d)[k]
<1> DEFINE Bad == {j \in 0 .. k : LocksOf(e)[j] # LocksOf(d)[j]}
<1> SUFFICES ASSUME Bad # {} PROVE FALSE
  OBVIOUS
<1>0. Bad \subseteq Nat
  OBVIOUS
<1>1. PICK j \in Bad : \A m \in Bad : j <= m
  <2> HIDE DEF Bad
  <2> QED
    BY <1>0, LeastNat
<1>2. j # 0
  BY LocksEquation
<1>3. j - 1 \in 0 .. k /\ j - 1 \notin Bad /\ j \in 1 .. Len(e) /\ j \in 1 .. Len(d)
  BY <1>1, <1>2
<1>4. LocksOf(e)[j - 1] = LocksOf(d)[j - 1] /\ e[j] = d[j]
  BY <1>3
<1>5. LocksOf(e)[j] = LocksOf(d)[j]
  BY <1>3, <1>4, LocksEquation
<1> QED
  BY <1>5

-----------------------------------------------------------------------------
\* What the types say of one node.
LEMMA NodeTypes ==
    ASSUME Types, NEW n \in Nodes
    PROVE  /\ log[n] \in Seq(Entry)
           /\ LastIndex(n) \in Nat
           /\ DOMAIN log[n] = 1 .. LastIndex(n)
           /\ \A i \in 1 .. LastIndex(n) :
                 log[n][i] \in Entry /\ log[n][i].term \in Nat
                 /\ log[n][i].call \in Calls \cup {NoCall}
           /\ term[n] \in Nat
<1>1. log[n] \in Seq(Entry)
  BY DEF Types
<1>2. LastIndex(n) \in Nat /\ DOMAIN log[n] = 1 .. LastIndex(n)
  BY <1>1, LenProperties DEF LastIndex
<1>3. \A i \in 1 .. LastIndex(n) : log[n][i] \in Entry
  BY <1>1, ElementOfSeq DEF LastIndex
<1>4. term[n] \in Nat
  BY ZoneAssumption DEF Types
<1> QED
  BY <1>1, <1>2, <1>3, <1>4 DEF Entry

\* A node whose applied entries stay in its log keeps its tables right.
LEMMA TablesStay ==
    ASSUME Types, Types', NEW n \in Nodes, NodeOK(n),
           meta'[n] = meta[n], advisory'[n] = advisory[n],
           applied'[n] = applied[n], last_applied'[n] = last_applied[n],
           saved_applied'[n] = saved_applied[n],
           LastIndex(n) <= LastIndex(n)',
           \A i \in 1 .. last_applied[n] : log'[n][i] = log[n][i],
           IndexesOK(n)', PendingOK(n)'
    PROVE  NodeOK(n)'
<1>1. LastIndex(n) \in Nat /\ LastIndex(n)' \in Nat
  <2>1. LastIndex(n) \in Nat
    BY NodeTypes
  <2>2. log'[n] \in Seq(Entry)
    BY DEF Types, Entry
  <2>3. Len(log'[n]) \in Nat
    BY <2>2, LenProperties
  <2> QED
    BY <2>1, <2>3 DEF LastIndex
<1>2. /\ applied[n] \in Nat /\ last_applied[n] \in Nat /\ saved_applied[n] \in Nat
      /\ applied[n] <= last_applied[n] /\ last_applied[n] <= LastIndex(n)
  BY DEF Types, NodeOK, IndexesOK
<1>3. Len(log[n]) = LastIndex(n) /\ Len(log'[n]) = LastIndex(n)'
  BY DEF LastIndex
<1>31. /\ Len(log[n]) \in Nat /\ Len(log'[n]) \in Nat
       /\ last_applied[n] <= Len(log[n]) /\ last_applied[n] <= Len(log'[n])
       /\ applied[n] <= Len(log[n]) /\ applied[n] <= Len(log'[n])
  BY <1>1, <1>2, <1>3
<1>32. \A i \in 1 .. applied[n] : log[n][i] = log'[n][i]
  BY <1>2
<1>4. MetadataOf(log[n])[last_applied[n]] = MetadataOf(log'[n])[last_applied[n]]
  <2> DEFINE k == last_applied[n]
             e == log[n]
             d == log'[n]
  <2>1. /\ Len(e) \in Nat /\ Len(d) \in Nat /\ k \in Nat /\ k <= Len(e) /\ k <= Len(d)
        /\ \A i \in 1 .. k : e[i] = d[i]
    BY <1>2, <1>31
  <2> HIDE DEF k, e, d
  <2>2. MetadataOf(e)[k] = MetadataOf(d)[k]
    BY <2>1, MetadataPrefix
  <2> QED
    BY <2>2 DEF k, e, d
<1>5. LocksOf(log[n])[applied[n]] = LocksOf(log'[n])[applied[n]]
  <2> DEFINE k == applied[n]
             e == log[n]
             d == log'[n]
  <2>1. /\ Len(e) \in Nat /\ Len(d) \in Nat /\ k \in Nat /\ k <= Len(e) /\ k <= Len(d)
        /\ \A i \in 1 .. k : e[i] = d[i]
    BY <1>2, <1>31, <1>32
  <2> HIDE DEF k, e, d
  <2>2. LocksOf(e)[k] = LocksOf(d)[k]
    BY <2>1, LocksPrefix
  <2> QED
    BY <2>2 DEF k, e, d
<1>6. GapIsLocks(n)'
  <2>1. \A i \in saved_applied[n] + 1 .. last_applied[n] : i \in 1 .. last_applied[n]
    BY <1>2
  <2> QED
    BY <2>1 DEF GapIsLocks, NodeOK
<1> QED
  BY <1>4, <1>5, <1>6 DEF NodeOK

\* The indexes of a node follow from those of another state if they and the
\* log's length are the same.
LEMMA IndexesStay ==
    ASSUME Types, NEW n \in Nodes, NodeOK(n), voters' = voters,
           hs_commit'[n] = hs_commit[n], commit'[n] = commit[n],
           applied'[n] = applied[n], last_applied'[n] = last_applied[n],
           saved_applied'[n] = saved_applied[n],
           LastIndex(n)' \in Nat, LastIndex(n) <= LastIndex(n)'
    PROVE  IndexesOK(n)'
<1>1. /\ commit[n] \in Nat /\ last_applied[n] \in Nat /\ LastIndex(n) \in Nat
  BY NodeTypes DEF Types
<1>2. commit[n] <= LastIndex(n) /\ last_applied[n] <= LastIndex(n)
  BY DEF NodeOK, IndexesOK
<1>3. commit[n] <= LastIndex(n)' /\ last_applied[n] <= LastIndex(n)'
  BY <1>1, <1>2
<1> QED
  BY <1>3 DEF NodeOK, IndexesOK

-----------------------------------------------------------------------------
\* Two majorities of the voters have a voter in common.
LEMMA MajoritiesMeet ==
    ASSUME Types, NEW A, NEW B, A \subseteq voters, B \subseteq voters,
           Majority(A), Majority(B)
    PROVE  \E q \in voters : q \in A /\ q \in B
<1>1. IsFiniteSet(voters)
  BY ZoneAssumption, FS_Subset DEF Types
<1>2. IsFiniteSet(A) /\ IsFiniteSet(B)
  BY <1>1, FS_Subset
<1>3. Cardinality(voters) \in Nat /\ Cardinality(A) \in Nat /\ Cardinality(B) \in Nat
  BY <1>1, <1>2, FS_CardinalityType
<1>4. Cardinality(A) + Cardinality(B) > Cardinality(voters)
  BY <1>3 DEF Majority
<1>5. A \cap B # {}
  BY <1>1, <1>4, FS_MajoritiesIntersect
<1> QED
  BY <1>5

\* A set of voters that contains a majority is one.
LEMMA MajorityGrows ==
    ASSUME Types, NEW A, NEW B, A \subseteq B, B \subseteq voters, Majority(A)
    PROVE  Majority(B)
<1>1. IsFiniteSet(voters)
  BY ZoneAssumption, FS_Subset DEF Types
<1>2. IsFiniteSet(A) /\ IsFiniteSet(B) /\ Cardinality(A) <= Cardinality(B)
  BY <1>1, FS_Subset
<1>3. Cardinality(voters) \in Nat /\ Cardinality(A) \in Nat /\ Cardinality(B) \in Nat
  BY <1>1, <1>2, FS_CardinalityType
<1> QED
  BY <1>2, <1>3 DEF Majority

\* Terms only grow, so a term that was reached stays reached.
LEMMA ReachedStays ==
    ASSUME Types, Types', voters' = voters,
           \A q \in voters : term[q] <= term'[q],
           NEW t \in Nat, Reached(t)
    PROVE  Reached(t)'
<1> DEFINE A == {q \in voters : term[q] >= t}
           B == {q \in voters : term'[q] >= t}
<1>1. \A q \in voters : term[q] \in Nat /\ term'[q] \in Nat
  BY ZoneAssumption DEF Types
<1>2. A \subseteq B
  BY <1>1
<1>3. Majority(B)
  <2>1. A \subseteq voters /\ B \subseteq voters /\ Majority(A)
    BY DEF Reached
  <2> HIDE DEF A, B
  <2> QED
    BY <1>2, <2>1, MajorityGrows
<1> QED
  BY <1>3 DEF Reached, Majority

\* The logs' invariant is kept where logs and terms are and nobody becomes leader.
LEMMA LogsStay ==
    ASSUME LogsOK, voters' = voters, log' = log, term' = term,
           \A l \in Nodes : role'[l] = "leader" => role[l] = "leader"
    PROVE  LogsOK'
<1>1. \A t : Reached(t)' <=> Reached(t)
  BY DEF Reached, Majority
<1>2. \A n : LastIndex(n)' = LastIndex(n)
  BY DEF LastIndex
<1>3. TermsReached'
  BY <1>1, <1>2 DEF LogsOK, TermsReached
<1>4. OneLeaderPerTerm'
  BY DEF LogsOK, OneLeaderPerTerm
<1>5. EntriesIdentical'
  BY <1>2 DEF LogsOK, EntriesIdentical
<1>6. LeaderHasAll'
  BY <1>2 DEF LogsOK, LeaderHasAll
<1> QED
  BY <1>3, <1>4, <1>5, <1>6 DEF LogsOK

\* It is kept where every entry of a log was in some log at the same index, and
\* leaders keep their terms.
LEMMA LogsFromOld ==
    ASSUME Types, Types', LogsOK, voters' = voters,
           \A q \in voters : term[q] <= term'[q],
           \A l \in Nodes : role'[l] = "leader" => role[l] = "leader" /\ term'[l] = term[l],
           \A n \in Nodes : LastIndex(n) <= LastIndex(n)' /\ LastIndex(n)' \in Nat,
           \A n \in Nodes : \A i \in 1 .. LastIndex(n)' :
               \E m \in Nodes : i \in 1 .. LastIndex(m) /\ log'[n][i] = log[m][i]
    PROVE  LogsOK'
<1>0. TermsReached /\ OneLeaderPerTerm /\ EntriesIdentical /\ LeaderHasAll
  BY DEF LogsOK
<1>1. \A t \in Nat : Reached(t) => Reached(t)'
  BY ReachedStays
<1>2. TermsReached'
  <2>1. ASSUME NEW l \in Nodes, role'[l] = "leader"
        PROVE  l \in voters' /\ Reached(term[l])'
    BY <1>0, <1>1, <2>1, NodeTypes DEF TermsReached
  <2>2. ASSUME NEW n \in Nodes, NEW i \in 1 .. LastIndex(n)'
        PROVE  Reached(log[n][i].term)'
    <3>1. PICK m \in Nodes : i \in 1 .. LastIndex(m) /\ log'[n][i] = log[m][i]
      BY <2>2
    <3> QED
      BY <1>0, <1>1, <3>1, NodeTypes DEF TermsReached
  <2> QED
    BY <2>1, <2>2 DEF TermsReached
<1>3. OneLeaderPerTerm'
  BY <1>0 DEF OneLeaderPerTerm
<1>4. EntriesIdentical'
  <2> SUFFICES ASSUME NEW n \in Nodes, NEW m \in Nodes, NEW i \in 1 .. LastIndex(n)',
                      i <= LastIndex(m)', log'[n][i].term = log'[m][i].term
               PROVE  log'[n][i] = log'[m][i]
    BY DEF EntriesIdentical
  <2>1. PICK a \in Nodes : i \in 1 .. LastIndex(a) /\ log'[n][i] = log[a][i]
    OBVIOUS
  <2>2. i \in 1 .. LastIndex(m)'
    OBVIOUS
  <2>3. PICK b \in Nodes : i \in 1 .. LastIndex(b) /\ log'[m][i] = log[b][i]
    BY <2>2
  <2>4. i <= LastIndex(b)
    BY <2>3, NodeTypes
  <2> QED
    BY <1>0, <2>1, <2>3, <2>4, SMTT(20) DEF EntriesIdentical
<1>5. LeaderHasAll'
  <2> SUFFICES ASSUME NEW l \in Nodes, NEW m \in Nodes, NEW i \in 1 .. LastIndex(m)',
                      role'[l] = "leader", log'[m][i].term = term'[l]
               PROVE  i <= LastIndex(l)'
    BY DEF LeaderHasAll
  <2>1. PICK a \in Nodes : i \in 1 .. LastIndex(a) /\ log'[m][i] = log[a][i]
    OBVIOUS
  <2>2. i <= LastIndex(l)
    BY <1>0, <2>1 DEF LeaderHasAll
  <2> QED
    BY <2>1, <2>2, NodeTypes
<1> QED
  BY <1>2, <1>3, <1>4, <1>5 DEF LogsOK

\* One entry is appended to the log of l.
Appends(l, e) == log' = [log EXCEPT ![l] = Append(log[l], e)]

\* The logs after an append: only the new entry is new.
LEMMA AppendedLogs ==
    ASSUME Types, NEW l \in Nodes, NEW e \in Entry, Appends(l, e)
    PROVE  /\ log' \in [Nodes -> Seq(Entry)]
           /\ \A n \in Nodes : LastIndex(n)' \in Nat /\ LastIndex(n) <= LastIndex(n)'
           /\ LastIndex(l)' = LastIndex(l) + 1
           /\ \A n \in Nodes : \A i \in 1 .. LastIndex(n) : log'[n][i] = log[n][i]
           /\ log'[l][LastIndex(l) + 1] = e
           /\ \A n \in Nodes : \A i \in 1 .. LastIndex(n)' :
                 \/ i \in 1 .. LastIndex(n) /\ log'[n][i] = log[n][i]
                 \/ n = l /\ i = LastIndex(l) + 1 /\ log'[n][i] = e
<1>1. log[l] \in Seq(Entry) /\ LastIndex(l) \in Nat
  BY NodeTypes
<1>2. log'[l] = Append(log[l], e) /\ \A n \in Nodes \ {l} : log'[n] = log[n]
  BY DEF Appends, Types
<1>3. /\ log'[l] \in Seq(Entry)
      /\ Len(log'[l]) = LastIndex(l) + 1
      /\ \A i \in 1 .. LastIndex(l) : log'[l][i] = log[l][i]
      /\ log'[l][LastIndex(l) + 1] = e
  BY <1>1, <1>2, AppendProperties DEF LastIndex
<1>4. log' \in [Nodes -> Seq(Entry)]
  BY <1>3 DEF Appends, Types
<1>5. \A n \in Nodes \ {l} : LastIndex(n)' = LastIndex(n) /\ LastIndex(n) \in Nat
  BY <1>2, NodeTypes DEF LastIndex
<1>6. LastIndex(l)' = LastIndex(l) + 1
  BY <1>3 DEF LastIndex
<1>7. \A n \in Nodes : LastIndex(n)' \in Nat /\ LastIndex(n) <= LastIndex(n)'
  BY <1>1, <1>5, <1>6
<1>8. \A n \in Nodes : \A i \in 1 .. LastIndex(n) : log'[n][i] = log[n][i]
  BY <1>2, <1>3
<1>9. ASSUME NEW n \in Nodes, NEW i \in 1 .. LastIndex(n)'
      PROVE  \/ i \in 1 .. LastIndex(n) /\ log'[n][i] = log[n][i]
             \/ n = l /\ i = LastIndex(l) + 1 /\ log'[n][i] = e
  <2>1. CASE n = l
    <3>1. i \in 1 .. LastIndex(l) \/ i = LastIndex(l) + 1
      BY <1>1, <1>6, <2>1
    <3> QED
      BY <1>3, <2>1, <3>1
  <2>2. CASE n # l
    BY <1>2, <1>5, <2>2
  <2> QED
    BY <2>1, <2>2
<1> QED
  BY <1>3, <1>4, <1>6, <1>7, <1>8, <1>9

\* A leader appends an entry of its term: no log has one at that index, because
\* the leader has every entry of its term and there is no other leader of it.
LEMMA LeaderAppends ==
    ASSUME Types, Types', LogsOK, NEW l \in Nodes, NEW e \in Entry,
           role[l] = "leader", e.term = term[l], Appends(l, e),
           UNCHANGED <<voters, term, role>>
    PROVE  LogsOK'
<1>0. TermsReached /\ OneLeaderPerTerm /\ EntriesIdentical /\ LeaderHasAll
  BY DEF LogsOK
<1> DEFINE N == LastIndex(l) + 1
<1>1. /\ \A n \in Nodes : LastIndex(n)' \in Nat /\ LastIndex(n) <= LastIndex(n)'
      /\ LastIndex(l)' = N
      /\ \A n \in Nodes : \A i \in 1 .. LastIndex(n)' :
            \/ i \in 1 .. LastIndex(n) /\ log'[n][i] = log[n][i]
            \/ n = l /\ i = N /\ log'[n][i] = e
  BY AppendedLogs
<1>2. \A n \in Nodes : LastIndex(n) \in Nat
  BY NodeTypes
<1> HIDE DEF N
<1>3. \A t : Reached(t)' <=> Reached(t)
  BY DEF Reached, Majority
<1>4. TermsReached'
  BY <1>0, <1>1, <1>3 DEF TermsReached
<1>5. OneLeaderPerTerm'
  BY <1>0 DEF OneLeaderPerTerm
<1>6. \A m \in Nodes : N \in 1 .. LastIndex(m) => log[m][N].term # term[l]
  <2> SUFFICES ASSUME NEW m \in Nodes, N \in 1 .. LastIndex(m), log[m][N].term = term[l]
               PROVE  FALSE
    OBVIOUS
  <2>1. N <= LastIndex(l)
    BY <1>0 DEF LeaderHasAll
  <2> QED
    BY <1>2, <2>1 DEF N
<1>7. EntriesIdentical'
  <2> SUFFICES ASSUME NEW n \in Nodes, NEW m \in Nodes, NEW i \in 1 .. LastIndex(n)',
                      i <= LastIndex(m)', log'[n][i].term = log'[m][i].term
               PROVE  log'[n][i] = log'[m][i]
    BY DEF EntriesIdentical
  <2>1. i \in 1 .. LastIndex(m)'
    BY <1>1
  <2>2. CASE i \in 1 .. LastIndex(n) /\ log'[n][i] = log[n][i]
             /\ i \in 1 .. LastIndex(m) /\ log'[m][i] = log[m][i]
    <3>1. i <= LastIndex(m)
      BY <1>2, <2>2
    <3> QED
      BY <1>0, <2>2, <3>1 DEF EntriesIdentical
  <2>3. CASE i = N /\ log'[n][i] = e /\ log'[m][i] = e
    BY <2>3
  <2>4. CASE i = N /\ log'[n][i] = e /\ i \in 1 .. LastIndex(m) /\ log'[m][i] = log[m][i]
    BY <1>6, <2>4
  <2>5. CASE i = N /\ log'[m][i] = e /\ i \in 1 .. LastIndex(n) /\ log'[n][i] = log[n][i]
    BY <1>6, <2>5
  <2> QED
    BY <1>1, <2>1, <2>2, <2>3, <2>4, <2>5
<1>8. LeaderHasAll'
  <2> SUFFICES ASSUME NEW r \in Nodes, NEW m \in Nodes, NEW i \in 1 .. LastIndex(m)',
                      role'[r] = "leader", log'[m][i].term = term'[r]
               PROVE  i <= LastIndex(r)'
    BY DEF LeaderHasAll
  <2>1. CASE i \in 1 .. LastIndex(m) /\ log'[m][i] = log[m][i]
    <3>1. i <= LastIndex(r)
      BY <1>0, <2>1 DEF LeaderHasAll
    <3> QED
      BY <1>1, <1>2, <3>1
  <2>2. CASE i = N /\ log'[m][i] = e
    <3>1. r = l
      BY <1>0, <2>2 DEF OneLeaderPerTerm
    <3> QED
      BY <1>1, <1>2, <2>2, <3>1
  <2> QED
    BY <1>1, <2>1, <2>2
<1> QED
  BY <1>4, <1>5, <1>7, <1>8 DEF LogsOK

\* What an election does to terms and roles.
LEMMA ElectTerms ==
    ASSUME Types, NEW n \in voters, NEW Q \in Quorums, NEW t \in 1 .. MaxTerm, Elect(n, Q, t)
    PROVE  /\ n \in Nodes /\ n \in Q /\ Q \subseteq voters /\ Majority(Q) /\ t \in Nat
           /\ \A q \in Q : term[q] < t /\ term'[q] = t
           /\ \A q \in Nodes \ Q : term'[q] = term[q]
           /\ term' \in [Nodes -> 0 .. MaxTerm]
           /\ role' \in [Nodes -> {"leader", "follower"}]
           /\ \A q \in Nodes : role'[q] = "leader" => q = n \/ (role[q] = "leader" /\ q \notin Q)
           /\ voters' = voters
           /\ [term |-> t, call |-> NoCall, id |-> 0] \in Entry
           /\ Appends(n, [term |-> t, call |-> NoCall, id |-> 0])
<1>1. n \in Nodes /\ n \in Q /\ Q \subseteq voters /\ Majority(Q) /\ t \in Nat
  <2>1. n \in Nodes
    BY DEF Types
  <2>2. n \in Q
    BY DEF Elect
  <2>3. Q \subseteq voters /\ Majority(Q)
    BY DEF Quorums
  <2>4. t \in Nat
    OBVIOUS
  <2> QED
    BY <2>1, <2>2, <2>3, <2>4
<1>2. /\ \A q \in Q : term[q] < t /\ term'[q] = t
      /\ \A q \in Nodes \ Q : term'[q] = term[q]
  BY <1>1 DEF Elect, Types
<1>3. term' \in [Nodes -> 0 .. MaxTerm]
  BY <1>1, ZoneAssumption DEF Elect, Types
<1>4. role' \in [Nodes -> {"leader", "follower"}]
  BY DEF Elect, Types
<1>5. \A q \in Nodes : role'[q] = "leader" => q = n \/ (role[q] = "leader" /\ q \notin Q)
  BY DEF Elect
<1> QED
  BY <1>1, <1>2, <1>3, <1>4, <1>5 DEF Elect, Entry, Appends

\* A term reached by a majority is older than the term of an election.
LEMMA ElectNewer ==
    ASSUME Types, NEW n \in voters, NEW Q \in Quorums, NEW t \in 1 .. MaxTerm, Elect(n, Q, t),
           NEW x \in Nat, Reached(x)
    PROVE  x < t
<1> DEFINE A == {q \in voters : term[q] >= x}
<1>0. Q \subseteq voters /\ Majority(Q) /\ t \in Nat /\ \A q \in Q : term[q] < t
  BY ElectTerms
<1>1. Majority(A) /\ A \subseteq voters
  BY DEF Reached
<1> HIDE DEF A
<1>2. PICK q \in voters : q \in A /\ q \in Q
  BY <1>0, <1>1, MajoritiesMeet
<1>3. q \in Nodes
  BY DEF Types
<1>4. term[q] >= x /\ term[q] < t /\ term[q] \in Nat
  BY <1>0, <1>2, <1>3, NodeTypes DEF A
<1> QED
  BY <1>0, <1>4

\* So every entry and every leader is of an older term.
LEMMA ElectFresh ==
    ASSUME Types, TermsReached,
           NEW n \in voters, NEW Q \in Quorums, NEW t \in 1 .. MaxTerm, Elect(n, Q, t)
    PROVE  /\ \A m \in Nodes : \A i \in 1 .. LastIndex(m) : log[m][i].term < t
           /\ \A l \in Nodes : role[l] = "leader" => term[l] < t
<1>1. ASSUME NEW m \in Nodes, NEW i \in 1 .. LastIndex(m) PROVE log[m][i].term < t
  <2>1. log[m][i].term \in Nat
    BY NodeTypes
  <2>2. Reached(log[m][i].term)
    BY DEF TermsReached
  <2> QED
    BY <2>1, <2>2, ElectNewer
<1>2. ASSUME NEW l \in Nodes, role[l] = "leader" PROVE term[l] < t
  <2>1. term[l] \in Nat /\ Reached(term[l])
    BY <1>2, NodeTypes DEF TermsReached
  <2> QED
    BY <2>1, ElectNewer
<1> QED
  BY <1>1, <1>2

\* An election is of a term that no leader and no entry had: the voters of both
\* majorities would have seen it.
LEMMA ElectLogs ==
    ASSUME Types, Types', LogsOK,
           NEW n \in voters, NEW Q \in Quorums, NEW t \in 1 .. MaxTerm, Elect(n, Q, t)
    PROVE  LogsOK'
<1> DEFINE e == [term |-> t, call |-> NoCall, id |-> 0]
           N == LastIndex(n) + 1
<1>0. TermsReached /\ OneLeaderPerTerm /\ EntriesIdentical /\ LeaderHasAll
  BY DEF LogsOK
<1>1. /\ n \in Nodes /\ n \in Q /\ Q \subseteq voters /\ Majority(Q) /\ t \in Nat
      /\ \A q \in Q : term[q] < t /\ term'[q] = t
      /\ \A q \in Nodes \ Q : term'[q] = term[q]
      /\ \A q \in Nodes : role'[q] = "leader" => q = n \/ (role[q] = "leader" /\ q \notin Q)
      /\ voters' = voters
      /\ e \in Entry /\ Appends(n, e) /\ e.term = t
  BY ElectTerms
<1>2. /\ \A m \in Nodes : LastIndex(m)' \in Nat /\ LastIndex(m) <= LastIndex(m)'
      /\ LastIndex(n)' = N
      /\ \A m \in Nodes : \A i \in 1 .. LastIndex(m)' :
            \/ i \in 1 .. LastIndex(m) /\ log'[m][i] = log[m][i]
            \/ m = n /\ i = N /\ log'[m][i] = e
  BY <1>1, AppendedLogs
<1> HIDE DEF e, N
<1>3. \A m \in Nodes : LastIndex(m) \in Nat /\ term[m] \in Nat
  BY NodeTypes
<1>4. \A q \in voters : q \in Nodes /\ term[q] <= term'[q]
  <2> TAKE q \in voters
  <2>1. q \in Nodes
    BY DEF Types
  <2>2. term[q] \in Nat
    BY <1>3, <2>1
  <2>3. CASE q \in Q
    BY <1>1, <2>1, <2>2, <2>3
  <2>4. CASE q \notin Q
    BY <1>1, <2>1, <2>2, <2>4
  <2> QED
    BY <2>1, <2>3, <2>4
<1>5. \A x \in Nat : Reached(x) => Reached(x)'
  BY <1>1, <1>4, ReachedStays
<1>6. ASSUME NEW x \in Nat, Reached(x) PROVE x < t
  BY <1>6, ElectNewer
<1>7. Reached(t)'
  <2> DEFINE B == {q \in voters : term'[q] >= t}
  <2>1. Q \subseteq B /\ B \subseteq voters
    BY <1>1
  <2>2. Majority(B)
    <3> HIDE DEF B
    <3> QED
      BY <1>1, <2>1, MajorityGrows
  <2> QED
    BY <1>1, <2>2 DEF Reached, Majority
<1>8. \A m \in Nodes : \A i \in 1 .. LastIndex(m) :
         /\ log[m][i].term \in Nat /\ log[m][i].term < t /\ Reached(log[m][i].term)
  BY <1>0, <1>6, NodeTypes DEF TermsReached
<1>9. \A r \in Nodes : role'[r] = "leader" /\ r # n =>
         /\ role[r] = "leader" /\ term'[r] = term[r] /\ term[r] < t
         /\ r \in voters /\ Reached(term[r])
  BY <1>0, <1>1, <1>3, <1>6 DEF TermsReached
<1>10. TermsReached'
  <2>1. ASSUME NEW l \in Nodes, role'[l] = "leader"
        PROVE  l \in voters' /\ Reached(term[l])'
    <3>1. CASE l = n
      BY <1>1, <1>7, <3>1
    <3>2. CASE l # n
      <4>1. Reached(term[l]) /\ term[l] \in Nat /\ term'[l] = term[l] /\ l \in voters
        BY <1>3, <1>9, <2>1, <3>2
      <4> QED
        BY <1>1, <1>5, <4>1
    <3> QED
      BY <3>1, <3>2
  <2>2. ASSUME NEW m \in Nodes, NEW i \in 1 .. LastIndex(m)'
        PROVE  Reached(log[m][i].term)'
    <3>1. CASE i \in 1 .. LastIndex(m) /\ log'[m][i] = log[m][i]
      BY <1>5, <1>8, <3>1
    <3>2. CASE log'[m][i] = e
      BY <1>1, <1>7, <3>2
    <3> QED
      BY <1>2, <3>1, <3>2
  <2> QED
    BY <2>1, <2>2 DEF TermsReached
<1>11. OneLeaderPerTerm'
  <2> SUFFICES ASSUME NEW l \in Nodes, NEW m \in Nodes, role'[l] = "leader",
                      role'[m] = "leader", term'[l] = term'[m]
               PROVE  l = m
    BY DEF OneLeaderPerTerm
  <2>1. term'[n] = t
    BY <1>1
  <2>2. CASE l # n /\ m # n
    BY <1>0, <1>9, <2>2 DEF OneLeaderPerTerm
  <2>3. CASE l = n /\ m # n
    BY <1>1, <1>3, <1>9, <2>1, <2>3
  <2>4. CASE m = n /\ l # n
    BY <1>1, <1>3, <1>9, <2>1, <2>4
  <2> QED
    BY <2>2, <2>3, <2>4
<1>12. EntriesIdentical'
  <2> SUFFICES ASSUME NEW l \in Nodes, NEW m \in Nodes, NEW i \in 1 .. LastIndex(l)',
                      i <= LastIndex(m)', log'[l][i].term = log'[m][i].term
               PROVE  log'[l][i] = log'[m][i]
    BY DEF EntriesIdentical
  <2>1. i \in 1 .. LastIndex(m)'
    BY <1>2
  <2>2. CASE i \in 1 .. LastIndex(l) /\ log'[l][i] = log[l][i]
             /\ i \in 1 .. LastIndex(m) /\ log'[m][i] = log[m][i]
    <3>1. i <= LastIndex(m)
      BY <1>3, <2>2
    <3> QED
      BY <1>0, <2>2, <3>1 DEF EntriesIdentical
  <2>3. CASE log'[l][i] = e /\ log'[m][i] = e
    BY <2>3
  <2>4. CASE log'[l][i] = e /\ i \in 1 .. LastIndex(m) /\ log'[m][i] = log[m][i]
    BY <1>1, <1>8, <2>4
  <2>5. CASE log'[m][i] = e /\ i \in 1 .. LastIndex(l) /\ log'[l][i] = log[l][i]
    BY <1>1, <1>8, <2>5
  <2> QED
    BY <1>2, <2>1, <2>2, <2>3, <2>4, <2>5
<1>13. LeaderHasAll'
  <2> SUFFICES ASSUME NEW r \in Nodes, NEW m \in Nodes, NEW i \in 1 .. LastIndex(m)',
                      role'[r] = "leader", log'[m][i].term = term'[r]
               PROVE  i <= LastIndex(r)'
    BY DEF LeaderHasAll
  <2>1. CASE i \in 1 .. LastIndex(m) /\ log'[m][i] = log[m][i]
    <3>1. r # n
      BY <1>1, <1>8, <2>1
    <3>2. i <= LastIndex(r)
      BY <1>0, <1>9, <2>1, <3>1 DEF LeaderHasAll
    <3> QED
      BY <1>2, <1>3, <3>2
  <2>2. CASE i = N /\ log'[m][i] = e
    <3>1. r = n
      BY <1>1, <1>3, <1>9, <2>2
    <3> QED
      BY <1>2, <2>2, <3>1
  <2> QED
    BY <1>2, <2>1, <2>2
<1> QED
  BY <1>10, <1>11, <1>12, <1>13 DEF LogsOK

\* RaftStorage::append: the part below p is kept, every entry is an old one or
\* the sender's at the same index, and the table never shrinks.
LEMMA AppendEntriesFacts ==
    ASSUME NEW old \in Seq(Entry), NEW new \in Seq(Entry), NEW p \in Nat, NEW k \in Nat,
           p <= k, k <= Len(new), p <= Len(old)
    PROVE  LET res == AppendEntries(old, new, p, k)
           IN  /\ res \in Seq(Entry)
               /\ Len(res) \in Nat
               /\ Len(old) <= Len(res) /\ k <= Len(res)
               /\ \A i \in 1 .. p : res[i] = old[i]
               /\ \A i \in 1 .. Len(res) :
                     \/ i \in 1 .. Len(old) /\ res[i] = old[i]
                     \/ i \in 1 .. Len(new) /\ res[i] = new[i]
<1> DEFINE L == IF k > Len(old) THEN k ELSE Len(old)
           missing(i) == i > Len(old) \/ old[i].term # new[i].term
           res == [i \in 1 .. L |->
                     IF i <= k /\ \E j \in p + 1 .. i : missing(j) THEN new[i] ELSE old[i]]
<1>1. AppendEntries(old, new, p, k) = res
  BY DEF AppendEntries
<1>2. L \in Nat /\ Len(old) <= L /\ k <= L /\ Len(old) \in Nat /\ Len(new) \in Nat
  BY LenProperties
<1>3. \A i \in 1 .. Len(old) : old[i] \in Entry
  BY ElementOfSeq
<1>4. \A i \in 1 .. Len(new) : new[i] \in Entry
  BY ElementOfSeq
<1>5. ASSUME NEW i \in 1 .. L
      PROVE  \/ i \in 1 .. Len(old) /\ res[i] = old[i]
             \/ i \in 1 .. Len(new) /\ res[i] = new[i]
  <2>1. CASE i \in 1 .. Len(old)
    <3>1. i <= k => i \in 1 .. Len(new)
      BY <1>2
    <3> QED
      BY <2>1, <3>1
  <2>2. CASE i \notin 1 .. Len(old)
    <3>1. i <= k /\ i > Len(old) /\ i \in p + 1 .. i /\ i \in 1 .. Len(new)
      BY <1>2, <2>2
    <3> QED
      BY <3>1
  <2> QED
    BY <2>1, <2>2
<1>6. \A i \in 1 .. p : i \in 1 .. L /\ res[i] = old[i]
  <2> TAKE i \in 1 .. p
  <2>1. i \in 1 .. L /\ p + 1 .. i = {}
    BY <1>2
  <2> QED
    BY <2>1
<1> HIDE DEF L
<1>7. \A i \in 1 .. L : res[i] \in Entry
  <2> HIDE DEF res
  <2> QED
    BY <1>3, <1>4, <1>5
<1>8. res \in [1 .. L -> Entry]
  BY <1>7
<1>9. res \in Seq(Entry) /\ Len(res) = L
  <2> HIDE DEF res
  <2> QED
    BY <1>2, <1>8
<1> HIDE DEF res
<1> QED
  BY <1>1, <1>2, <1>5, <1>6, <1>9

-----------------------------------------------------------------------------
\* An election keeps the invariant: the winner's log grows by one entry, and the
\* saved commit indexes of the voters catch up.
LEMMA ElectZInv ==
    ASSUME ZInv, NEW n \in voters, NEW Q \in Quorums, NEW t \in 1 .. MaxTerm, Elect(n, Q, t)
    PROVE  ZInv'
<1>0. Types /\ LogsOK /\ \A m \in Nodes : NodeOK(m)
  BY DEF ZInv
<1> DEFINE e == [term |-> t, call |-> NoCall, id |-> 0]
<1>1. /\ n \in Nodes /\ e \in Entry /\ Appends(n, e) /\ voters' = voters
      /\ term' \in [Nodes -> 0 .. MaxTerm]
      /\ role' \in [Nodes -> {"leader", "follower"}]
  BY <1>0, ElectTerms
<1>2. UNCHANGED <<commit, meta, saved_applied, last_applied, advisory, applied,
                  proposal_id, pending, restarts>>
  BY DEF Elect, machine, driver
<1>3. /\ log' \in [Nodes -> Seq(Entry)]
      /\ \A m \in Nodes : LastIndex(m)' \in Nat /\ LastIndex(m) <= LastIndex(m)'
      /\ \A m \in Nodes : \A i \in 1 .. LastIndex(m) : log'[m][i] = log[m][i]
  BY <1>0, <1>1, AppendedLogs
<1>4. /\ hs_commit' \in [Nodes -> Nat]
      /\ \A m \in Nodes : hs_commit'[m] \in {commit[m], hs_commit[m]}
  BY <1>0 DEF Elect, Types
<1> HIDE DEF e
<1>5. Types'
  BY <1>0, <1>1, <1>2, <1>3, <1>4 DEF Types, Entry
<1>6. ASSUME NEW m \in Nodes PROVE NodeOK(m)'
  <2>1. /\ IndexesOK(m) /\ commit[m] \in Nat /\ last_applied[m] \in Nat
        /\ hs_commit[m] \in Nat /\ LastIndex(m) \in Nat
    BY <1>0, NodeTypes DEF NodeOK, Types
  <2>2. /\ commit[m] <= LastIndex(m)' /\ last_applied[m] <= LastIndex(m)'
        /\ hs_commit'[m] <= commit[m]
        /\ voters # {m} => hs_commit'[m] = commit[m]
    BY <1>3, <1>4, <2>1 DEF IndexesOK
  <2>3. IndexesOK(m)'
    BY <1>1, <1>2, <2>1, <2>2 DEF IndexesOK
  <2>4. PendingOK(m)'
    BY <1>0, <1>2 DEF PendingOK, NodeOK
  <2>5. \A i \in 1 .. last_applied[m] : log'[m][i] = log[m][i]
    BY <1>3, <2>1 DEF IndexesOK
  <2> QED
    BY <1>0, <1>2, <1>3, <1>5, <2>3, <2>4, <2>5, TablesStay
<1>7. LogsOK'
  BY <1>0, <1>5, ElectLogs
<1> QED
  BY <1>5, <1>6, <1>7 DEF ZInv

\* An append keeps the invariant: it touches nothing the follower has applied.
LEMMA SendAppendZInv ==
    ASSUME ZInv, NEW l \in Nodes, NEW f \in Nodes, NEW k \in 0 .. LastIndex(l),
           NEW p \in 0 .. k, SendAppend(l, f, p, k)
    PROVE  ZInv'
<1>0. Types /\ LogsOK /\ \A m \in Nodes : NodeOK(m)
  BY DEF ZInv
<1> DEFINE res == AppendEntries(log[f], log[l], p, k)
           seen == IF commit[l] < k THEN commit[l] ELSE k
           known == IF seen > commit[f] THEN seen ELSE commit[f]
<1>1. /\ l # f /\ f \in voters /\ role[l] = "leader" /\ term[f] <= term[l]
      /\ commit[f] <= p /\ p <= k /\ p <= LastIndex(f)
      /\ log' = [log EXCEPT ![f] = res]
      /\ term' = [term EXCEPT ![f] = term[l]]
      /\ role' = [role EXCEPT ![f] = "follower"]
      /\ commit' = [commit EXCEPT ![f] = known]
      /\ hs_commit' = [hs_commit EXCEPT ![f] = known]
      /\ voters' = voters
      /\ UNCHANGED <<meta, saved_applied, last_applied, advisory, applied,
                     proposal_id, pending, restarts>>
  BY DEF SendAppend, machine, driver
<1>2. /\ k \in Nat /\ p \in Nat /\ k <= LastIndex(l)
      /\ LastIndex(l) \in Nat /\ LastIndex(f) \in Nat
      /\ log[l] \in Seq(Entry) /\ log[f] \in Seq(Entry)
  BY <1>0, NodeTypes
<1>3. /\ res \in Seq(Entry)
      /\ Len(res) \in Nat
      /\ Len(log[f]) <= Len(res) /\ k <= Len(res)
      /\ \A i \in 1 .. p : res[i] = log[f][i]
      /\ \A i \in 1 .. Len(res) :
            \/ i \in 1 .. Len(log[f]) /\ res[i] = log[f][i]
            \/ i \in 1 .. Len(log[l]) /\ res[i] = log[l][i]
  BY <1>1, <1>2, AppendEntriesFacts, SMTT(20) DEF LastIndex
<1> HIDE DEF res
<1>4. /\ commit[l] \in Nat /\ commit[f] \in Nat /\ known \in Nat
      /\ commit[f] <= known /\ (known <= k \/ known = commit[f])
  <2>1. commit[l] \in Nat /\ commit[f] \in Nat
    BY <1>0 DEF Types
  <2>2. seen \in Nat /\ seen <= k
    BY <1>2, <2>1
  <2> HIDE DEF seen
  <2> QED
    BY <2>1, <2>2
<1> HIDE DEF known
<1>5. Types'
  <2>1. log' \in [Nodes -> Seq(Entry)]
    BY <1>0, <1>1, <1>3 DEF Types
  <2>2. term' \in [Nodes -> 0 .. MaxTerm] /\ role' \in [Nodes -> {"leader", "follower"}]
    BY <1>0, <1>1 DEF Types
  <2>3. commit' \in [Nodes -> Nat] /\ hs_commit' \in [Nodes -> Nat]
    BY <1>0, <1>1, <1>4 DEF Types
  <2> QED
    BY <1>0, <1>1, <2>1, <2>2, <2>3 DEF Types, Entry
<1>6. /\ log'[f] = res /\ commit'[f] = known /\ hs_commit'[f] = known
      /\ term'[f] = term[l] /\ role'[f] = "follower"
      /\ \A m \in Nodes \ {f} :
            /\ log'[m] = log[m] /\ commit'[m] = commit[m] /\ hs_commit'[m] = hs_commit[m]
            /\ term'[m] = term[m] /\ role'[m] = role[m]
  BY <1>0, <1>1 DEF Types
<1>7. LastIndex(f)' = Len(res) /\ \A m \in Nodes \ {f} : LastIndex(m)' = LastIndex(m)
  BY <1>6 DEF LastIndex
<1>8. \A m \in Nodes : LastIndex(m) <= LastIndex(m)' /\ LastIndex(m)' \in Nat
  <2> TAKE m \in Nodes
  <2>1. LastIndex(m) \in Nat
    BY <1>0, NodeTypes
  <2>2. LastIndex(f) <= Len(res)
    BY <1>3 DEF LastIndex
  <2> QED
    BY <1>3, <1>7, <2>1, <2>2
<1>9. voters # {f}
  BY <1>0, <1>1 DEF LogsOK, TermsReached
<1>10. ASSUME NEW m \in Nodes PROVE NodeOK(m)'
  <2>1. PendingOK(m)'
    BY <1>0, <1>1 DEF PendingOK, NodeOK
  <2>2. CASE m = f
    <3>1. /\ IndexesOK(f) /\ last_applied[f] \in Nat /\ applied[f] \in Nat
          /\ last_applied[f] <= commit[f] /\ commit[f] <= LastIndex(f)
      BY <1>0, <1>9 DEF NodeOK, IndexesOK, Types
    <3>2. /\ last_applied[f] <= p /\ last_applied[f] <= known /\ applied[f] <= known
          /\ known <= LastIndex(f)' /\ last_applied[f] <= LastIndex(f)'
      <4>1. last_applied[f] <= p /\ last_applied[f] <= known
        BY <1>1, <1>2, <1>4, <3>1
      <4>2. applied[f] <= known
        BY <1>4, <3>1, <4>1 DEF IndexesOK
      <4>3. LastIndex(f)' \in Nat /\ k <= LastIndex(f)' /\ LastIndex(f) <= LastIndex(f)'
        BY <1>3, <1>7, <1>8
      <4>4. known <= LastIndex(f)'
        BY <1>2, <1>4, <3>1, <4>3
      <4> QED
        BY <1>4, <3>1, <4>1, <4>2, <4>3, <4>4
    <3>3. IndexesOK(f)'
      BY <1>1, <1>4, <1>6, <3>1, <3>2 DEF IndexesOK
    <3>4. \A i \in 1 .. last_applied[f] : log'[f][i] = log[f][i]
      BY <1>2, <1>3, <1>6, <3>1, <3>2
    <3> QED
      BY <1>0, <1>1, <1>5, <1>8, <2>1, <2>2, <3>3, <3>4, TablesStay
  <2>3. CASE m # f
    <3>1. IndexesOK(m)'
      BY <1>0, <1>1, <1>6, <1>8, <2>3, IndexesStay
    <3>2. log'[m] = log[m]
      BY <1>6, <2>3
    <3> QED
      BY <1>0, <1>1, <1>5, <1>8, <2>1, <3>1, <3>2, TablesStay
  <2> QED
    BY <2>2, <2>3
<1>11. LogsOK'
  <2>1. \A q \in voters : term[q] <= term'[q]
    <3> TAKE q \in voters
    <3>1. q \in Nodes
      BY <1>0 DEF Types
    <3>2. term[q] \in Nat
      BY <1>0, <3>1, NodeTypes
    <3> QED
      BY <1>1, <1>6, <3>1, <3>2
  <2>2. \A m \in Nodes : role'[m] = "leader" => role[m] = "leader" /\ term'[m] = term[m]
    BY <1>6
  <2>3. ASSUME NEW m \in Nodes, NEW i \in 1 .. LastIndex(m)'
        PROVE  \E o \in Nodes : i \in 1 .. LastIndex(o) /\ log'[m][i] = log[o][i]
    BY <1>3, <1>6, <1>7 DEF LastIndex
  <2> QED
    BY <1>0, <1>1, <1>5, <1>8, <2>1, <2>2, <2>3, LogsFromOld
<1> QED
  BY <1>5, <1>10, <1>11 DEF ZInv

\* A leader's commit index moves within its log.
LEMMA AdvanceCommitZInv ==
    ASSUME ZInv, NEW l \in Nodes, NEW i \in 1 .. LastIndex(l), AdvanceCommit(l, i)
    PROVE  ZInv'
<1>0. Types /\ LogsOK /\ \A m \in Nodes : NodeOK(m)
  BY DEF ZInv
<1>1. /\ commit[l] < i /\ i <= LastIndex(l) /\ applied[l] = commit[l]
      /\ commit' = [commit EXCEPT ![l] = i]
      /\ hs_commit' = IF voters = {l} THEN hs_commit ELSE [hs_commit EXCEPT ![l] = i]
      /\ UNCHANGED <<voters, log, term, role, meta, saved_applied, last_applied, advisory,
                     applied, proposal_id, pending, restarts>>
  BY DEF AdvanceCommit, Settled, machine, driver
<1>2. i \in Nat /\ \A m \in Nodes : LastIndex(m)' = LastIndex(m) /\ LastIndex(m) \in Nat
  BY <1>0, <1>1, NodeTypes DEF LastIndex
<1>3. Types'
  <2>1. commit' \in [Nodes -> Nat] /\ hs_commit' \in [Nodes -> Nat]
    BY <1>0, <1>1, <1>2 DEF Types
  <2> QED
    BY <1>0, <1>1, <2>1 DEF Types, Entry
<1>4. /\ commit'[l] = i
      /\ hs_commit'[l] = IF voters = {l} THEN hs_commit[l] ELSE i
      /\ \A m \in Nodes \ {l} : commit'[m] = commit[m] /\ hs_commit'[m] = hs_commit[m]
  BY <1>0, <1>1 DEF Types
<1>5. ASSUME NEW m \in Nodes PROVE NodeOK(m)'
  <2>1. PendingOK(m)' /\ log'[m] = log[m]
    BY <1>0, <1>1 DEF PendingOK, NodeOK
  <2>2. CASE m = l
    <3>1. /\ IndexesOK(l) /\ commit[l] \in Nat /\ hs_commit[l] \in Nat /\ applied[l] \in Nat
          /\ last_applied[l] \in Nat
      BY <1>0 DEF NodeOK, Types
    <3>2. /\ hs_commit[l] <= i /\ applied[l] <= i
          /\ voters # {l} => last_applied[l] <= i
      BY <1>1, <1>2, <3>1 DEF IndexesOK
    <3>3. IndexesOK(l)'
      BY <1>1, <1>2, <1>4, <3>1, <3>2 DEF IndexesOK
    <3> QED
      BY <1>0, <1>1, <1>2, <1>3, <2>1, <2>2, <3>3, TablesStay
  <2>3. CASE m # l
    <3>1. IndexesOK(m)'
      BY <1>0, <1>1, <1>2, <1>4, <2>3, IndexesStay
    <3> QED
      BY <1>0, <1>1, <1>2, <1>3, <2>1, <3>1, TablesStay
  <2> QED
    BY <2>2, <2>3
<1>6. LogsOK'
  BY <1>0, <1>1, LogsStay
<1> QED
  BY <1>3, <1>5, <1>6 DEF ZInv

\* Steps of callers and readers leave the zone alone.
LEMMA FrameZInv ==
    ASSUME ZInv, proposal_id' \in [Nodes -> Nat],
           UNCHANGED <<raft, machine, pending, restarts>>
    PROVE  ZInv'
<1>0. Types /\ LogsOK /\ \A m \in Nodes : NodeOK(m)
  BY DEF ZInv
<1>1. UNCHANGED <<voters, log, term, hs_commit, role, commit, meta, saved_applied,
                  last_applied, advisory, applied, pending, restarts>>
  BY DEF raft, machine
<1>2. Types'
  BY <1>0, <1>1 DEF Types, Entry
<1>3. ASSUME NEW m \in Nodes PROVE NodeOK(m)'
  <2>1. PendingOK(m)' /\ log'[m] = log[m]
    BY <1>0, <1>1 DEF PendingOK, NodeOK
  <2>2. LastIndex(m)' = LastIndex(m) /\ LastIndex(m) \in Nat
    BY <1>0, <1>1, NodeTypes DEF LastIndex
  <2>3. IndexesOK(m)'
    BY <1>0, <1>1, <2>2, IndexesStay
  <2> QED
    BY <1>0, <1>1, <1>2, <2>1, <2>2, <2>3, TablesStay
<1>4. LogsOK'
  BY <1>0, <1>1, LogsStay
<1> QED
  BY <1>2, <1>3, <1>4 DEF ZInv

\* The driver hands a proposal to raft-rs, which appends it at the leader, here
\* or elsewhere, or loses it.
LEMMA DriverProposeZInv ==
    ASSUME ZInv, NEW c \in Calls, NEW n \in Nodes, NEW l \in Nodes \cup {NoNode},
           DriverPropose(c, n, l)
    PROVE  ZInv'
<1>0. Types /\ LogsOK /\ \A m \in Nodes : NodeOK(m)
  BY DEF ZInv
<1>1. /\ proposal_id' = [proposal_id EXCEPT ![n] = @ + 1]
      /\ UNCHANGED <<voters, term, hs_commit, role, commit, meta, saved_applied,
                     last_applied, advisory, applied, restarts>>
  BY DEF DriverPropose, TakeNumber, machine
<1>2. \A m \in Nodes : PendingOK(m)'
  <2> TAKE m \in Nodes
  <2>1. PendingOK(m) /\ DOMAIN pending = Nodes
    BY <1>0 DEF NodeOK, Types
  <2>2. pending'[m] = IF m # n THEN pending[m]
                      ELSE [id \in DOMAIN pending[n] \cup {proposal_id[n]} |->
                               IF id = proposal_id[n] THEN c ELSE pending[n][id]]
    BY <2>1 DEF DriverPropose, Enqueue
  <2> QED
    BY <2>1, <2>2 DEF PendingOK
<1>3. DOMAIN pending' = Nodes /\ proposal_id' \in [Nodes -> Nat]
  BY <1>0, <1>1, SMTT(20) DEF DriverPropose, Enqueue, Types
<1>4. ASSUME Types', \A m \in Nodes : LastIndex(m)' \in Nat /\ LastIndex(m) <= LastIndex(m)',
             \A m \in Nodes : \A i \in 1 .. LastIndex(m) : log'[m][i] = log[m][i]
      PROVE  \A m \in Nodes : NodeOK(m)'
  <2> TAKE m \in Nodes
  <2>1. IndexesOK(m)'
    BY <1>0, <1>1, <1>4, IndexesStay
  <2>2. \A i \in 1 .. last_applied[m] : i \in 1 .. LastIndex(m)
    <3>1. last_applied[m] \in Nat /\ LastIndex(m) \in Nat
      BY <1>0, NodeTypes DEF Types
    <3>2. last_applied[m] <= LastIndex(m)
      BY <1>0 DEF NodeOK, IndexesOK
    <3> QED
      BY <3>1, <3>2
  <2>3. \A i \in 1 .. last_applied[m] : log'[m][i] = log[m][i]
    BY <1>4, <2>2
  <2> QED
    BY <1>0, <1>1, <1>2, <1>4, <2>1, <2>3, TablesStay
<1>5. CASE log' = log
  <2>1. Types'
    BY <1>0, <1>1, <1>3, <1>5 DEF Types, Entry
  <2>2. \A m \in Nodes : LastIndex(m)' = LastIndex(m) /\ LastIndex(m) \in Nat
    BY <1>0, <1>5, NodeTypes DEF LastIndex
  <2>3. LogsOK'
    BY <1>0, <1>1, <1>5, LogsStay
  <2> QED
    BY <1>4, <1>5, <2>1, <2>2, <2>3 DEF ZInv
<1>6. CASE log' # log
  <2> DEFINE e == [term |-> term[l], call |-> c, id |-> proposal_id[n]]
  <2>1. l \in Nodes /\ role[l] = "leader" /\ Appends(l, e) /\ e.term = term[l]
    BY <1>6 DEF DriverPropose, Appends
  <2>2. e \in Entry
    BY <1>0, <2>1, NodeTypes DEF Entry, Types
  <2> HIDE DEF e
  <2>3. /\ log' \in [Nodes -> Seq(Entry)]
        /\ \A m \in Nodes : LastIndex(m)' \in Nat /\ LastIndex(m) <= LastIndex(m)'
        /\ \A m \in Nodes : \A i \in 1 .. LastIndex(m) : log'[m][i] = log[m][i]
    BY <1>0, <2>1, <2>2, AppendedLogs
  <2>4. Types'
    BY <1>0, <1>1, <1>3, <2>3 DEF Types, Entry
  <2>5. LogsOK'
    BY <1>0, <1>1, <2>1, <2>2, <2>4, LeaderAppends
  <2> QED
    BY <1>4, <2>3, <2>4, <2>5 DEF ZInv
<1> QED
  BY <1>5, <1>6

\* The caller of an entry is told; the waiting calls stay calls.
LEMMA ResolvePending ==
    ASSUME Types, \A m \in Nodes : PendingOK(m), NEW n \in Nodes, NEW e, Resolve(n, e)
    PROVE  DOMAIN pending' = Nodes /\ \A m \in Nodes : PendingOK(m)'
<1>1. CASE pending' = pending
  BY <1>1 DEF Types, PendingOK
<1>2. CASE pending' = [pending EXCEPT ![n] = Restrict(@, DOMAIN @ \ {e.id})]
  <2>1. DOMAIN pending' = Nodes /\ DOMAIN pending = Nodes
    BY <1>2 DEF Types
  <2>2. ASSUME NEW m \in Nodes PROVE PendingOK(m)'
    <3>1. CASE m # n
      BY <1>2, <2>1, <3>1 DEF PendingOK
    <3>2. CASE m = n
      <4>1. pending'[n] = [x \in DOMAIN pending[n] \ {e.id} |-> pending[n][x]]
        BY <1>2, <2>1 DEF Restrict
      <4> QED
        BY <3>2, <4>1 DEF PendingOK
    <3> QED
      BY <3>1, <3>2
  <2> QED
    BY <2>1, <2>2
<1> QED
  BY <1>1, <1>2 DEF Resolve

\* The entry applied next: the recursive functions at its index.
LEMMA NextEntry ==
    ASSUME Types, NEW n \in Nodes, NodeOK(n), applied[n] + 1 <= commit[n]
    PROVE  LET i == applied[n] + 1
               c == log[n][i].call
           IN  /\ i \in 1 .. LastIndex(n) /\ i - 1 = applied[n]
               /\ i > last_applied[n] => i = last_applied[n] + 1
               /\ LocksOf(log[n])[i] = AfterLock(advisory[n], c)
               /\ i > last_applied[n] => MetadataOf(log[n])[i] = AfterMetadata(meta[n], c)
               /\ IsLock(c) => ~ IsMetadata(c)
<1> DEFINE i == applied[n] + 1
           c == log[n][i].call
           e == log[n]
           h == last_applied[n]
<1>1. /\ applied[n] \in Nat /\ commit[n] \in Nat /\ h \in Nat
      /\ LastIndex(n) \in Nat /\ Len(e) \in Nat /\ Len(e) = LastIndex(n)
  BY NodeTypes DEF Types, LastIndex
<1>2. applied[n] <= h /\ commit[n] <= LastIndex(n)
  BY DEF NodeOK, IndexesOK
<1>3. /\ i \in 1 .. Len(e) /\ i - 1 = applied[n]
      /\ i > h => i = h + 1 /\ i - 1 = h
  BY <1>1, <1>2
<1>4. /\ advisory[n] = LocksOf(e)[applied[n]]
      /\ meta[n] = MetadataOf(e)[h]
  BY DEF NodeOK
<1>5. IsLock(c) => ~ IsMetadata(c)
  BY DEF IsLock, IsMetadata, LockOps
<1>6. LocksOf(e)[i] = AfterLock(LocksOf(e)[i - 1], e[i].call)
  <2> HIDE DEF i, e
  <2> QED
    BY <1>1, <1>3, LocksEquation
<1>7. MetadataOf(e)[i] = AfterMetadata(MetadataOf(e)[i - 1], e[i].call)
  <2> HIDE DEF i, e
  <2> QED
    BY <1>1, <1>3, MetadataEquation
<1>8. LocksOf(e)[i] = AfterLock(advisory[n], c)
  BY <1>3, <1>4, <1>6
<1>9. i > h => MetadataOf(e)[i] = AfterMetadata(meta[n], c)
  BY <1>3, <1>4, <1>7
<1> QED
  BY <1>1, <1>3, <1>5, <1>8, <1>9

\* A lock command is applied: it changes the lock table only, and raises
\* last_applied over an entry that is no metadata command.
LEMMA ApplyLockZInv ==
    ASSUME ZInv, NEW n \in Nodes, Apply(n), IsLock(log[n][applied[n] + 1].call)
    PROVE  NodeOK(n)' /\ Types'
<1>0. Types /\ NodeOK(n)
  BY DEF ZInv
<1> DEFINE i == applied[n] + 1
           c == log[n][i].call
           h == last_applied[n]
           h2 == IF i > h THEN i ELSE h
<1>1. /\ i <= commit[n]
      /\ applied' = [applied EXCEPT ![n] = i]
      /\ advisory' = [advisory EXCEPT ![n] = ApplyLock(@, Command[c])]
      /\ last_applied' = [last_applied EXCEPT ![n] = IF i > @ THEN i ELSE @]
      /\ Resolve(n, log[n][i])
      /\ UNCHANGED <<voters, log, term, hs_commit, role, commit, meta, saved_applied,
                     proposal_id, restarts>>
  BY DEF Apply, ApplyLockEntry, raft
<1>2. /\ i \in 1 .. LastIndex(n)
      /\ i > h => i = h + 1
      /\ LocksOf(log[n])[i] = AfterLock(advisory[n], c)
      /\ i > h => MetadataOf(log[n])[i] = AfterMetadata(meta[n], c)
      /\ IsLock(c) => ~ IsMetadata(c)
  BY <1>0, <1>1, NextEntry
<1>3. /\ applied'[n] = i /\ last_applied'[n] = h2
      /\ advisory'[n] = ApplyLock(advisory[n], Command[c])
  BY <1>0, <1>1 DEF Types
<1>4. /\ applied[n] \in Nat /\ h \in Nat /\ saved_applied[n] \in Nat /\ commit[n] \in Nat
      /\ LastIndex(n) \in Nat /\ LastIndex(n)' = LastIndex(n)
  BY <1>0, <1>1, NodeTypes DEF Types, LastIndex
<1>5. i \in Nat /\ h2 \in Nat /\ (h2 = h \/ (h2 = i /\ i = h + 1)) /\ i <= h2
  BY <1>2, <1>4
<1>6. Types' /\ PendingOK(n)'
  <2>1. DOMAIN pending' = Nodes /\ PendingOK(n)'
    BY <1>1, ResolvePending DEF ZInv, NodeOK
  <2>2. applied' \in [Nodes -> Nat]
    BY <1>0, <1>1, <1>5 DEF Types
  <2>3. last_applied' \in [Nodes -> Nat]
    BY <1>0, <1>1, <1>5 DEF Types
  <2>4. DOMAIN advisory' = Nodes
    BY <1>0, <1>1 DEF Types
  <2> QED
    BY <1>0, <1>1, <2>1, <2>2, <2>3, <2>4 DEF Types, Entry
<1>7. advisory'[n] = LocksOf(log'[n])[applied'[n]]
  BY <1>1, <1>2, <1>3 DEF AfterLock
<1>8. meta'[n] = MetadataOf(log'[n])[last_applied'[n]]
  <2>1. CASE i > h
    <3>1. MetadataOf(log[n])[i] = meta[n]
      BY <1>2, <2>1 DEF AfterMetadata
    <3> QED
      BY <1>1, <1>3, <2>1, <3>1
  <2>2. CASE ~ (i > h)
    BY <1>0, <1>1, <1>3, <2>2 DEF NodeOK
  <2> QED
    BY <2>1, <2>2
<1> HIDE DEF h2
<1>9. GapIsLocks(n)'
  <2> SUFFICES ASSUME NEW j \in saved_applied[n] + 1 .. h2
               PROVE  ~ IsMetadata(log[n][j].call)
    BY <1>1, <1>3 DEF GapIsLocks
  <2>1. CASE j = i
    BY <1>2, <2>1
  <2>2. CASE j # i
    <3>1. j \in saved_applied[n] + 1 .. h
      BY <1>4, <1>5, <2>2
    <3> QED
      BY <1>0, <3>1 DEF NodeOK, GapIsLocks
  <2> QED
    BY <2>1, <2>2
<1>10. IndexesOK(n)'
  <2>1. IndexesOK(n)
    BY <1>0 DEF NodeOK
  <2>2. saved_applied[n] <= h2 /\ h2 <= LastIndex(n) /\ i <= h2
    <3>1. saved_applied[n] <= h /\ h <= LastIndex(n) /\ i <= LastIndex(n)
      BY <1>2, <1>4, <2>1 DEF IndexesOK
    <3> QED
      BY <1>4, <1>5, <3>1
  <2>3. voters # {n} => h2 <= commit[n]
    <3>1. voters # {n} => h <= commit[n]
      BY <2>1 DEF IndexesOK
    <3> QED
      BY <1>1, <1>5, <3>1
  <2> QED
    BY <1>1, <1>3, <1>4, <2>1, <2>2, <2>3 DEF IndexesOK
<1> QED
  BY <1>6, <1>7, <1>8, <1>9, <1>10 DEF NodeOK

\* A metadata command or an empty entry is applied: once, in its turn, and
\* together with the saved index.
LEMMA ApplyGuardedZInv ==
    ASSUME ZInv, NEW n \in Nodes, Apply(n), ~ IsLock(log[n][applied[n] + 1].call)
    PROVE  NodeOK(n)' /\ Types'
<1>0. Types /\ NodeOK(n)
  BY DEF ZInv
<1> DEFINE i == applied[n] + 1
           c == log[n][i].call
           h == last_applied[n]
<1>1. /\ i <= commit[n]
      /\ applied' = [applied EXCEPT ![n] = i]
      /\ Resolve(n, log[n][i])
      /\ UNCHANGED <<voters, log, term, hs_commit, role, commit, advisory,
                     proposal_id, restarts>>
      /\ ApplyGuardedEntry(n, i, c)
  BY DEF Apply, ApplyGuardedEntry, raft
<1>2. /\ i \in 1 .. LastIndex(n)
      /\ i > h => i = h + 1
      /\ LocksOf(log[n])[i] = AfterLock(advisory[n], c)
      /\ i > h => MetadataOf(log[n])[i] = AfterMetadata(meta[n], c)
  BY <1>0, <1>1, NextEntry
<1>3. applied'[n] = i
  BY <1>0, <1>1 DEF Types
<1>4. /\ applied[n] \in Nat /\ h \in Nat /\ saved_applied[n] \in Nat /\ commit[n] \in Nat
      /\ LastIndex(n) \in Nat /\ LastIndex(n)' = LastIndex(n) /\ i \in Nat
  BY <1>0, <1>1, NodeTypes DEF Types, LastIndex
<1>5. DOMAIN pending' = Nodes /\ PendingOK(n)'
  BY <1>1, ResolvePending DEF ZInv, NodeOK
<1>6. applied' \in [Nodes -> Nat]
  BY <1>0, <1>1, <1>4 DEF Types
<1>7. advisory'[n] = LocksOf(log'[n])[applied'[n]]
  BY <1>1, <1>2, <1>3 DEF AfterLock
<1>8. IndexesOK(n)
  BY <1>0 DEF NodeOK
<1>9. CASE i <= h
  <2>1. UNCHANGED <<meta, saved_applied, last_applied>>
    BY <1>1, <1>9 DEF ApplyGuardedEntry
  <2>2. Types'
    BY <1>0, <1>1, <1>5, <1>6, <2>1 DEF Types, Entry
  <2>3. IndexesOK(n)'
    BY <1>1, <1>3, <1>4, <1>8, <1>9, <2>1 DEF IndexesOK
  <2>4. GapIsLocks(n)' /\ meta'[n] = MetadataOf(log'[n])[last_applied'[n]]
    BY <1>0, <1>1, <2>1 DEF NodeOK, GapIsLocks
  <2> QED
    BY <1>5, <1>7, <2>2, <2>3, <2>4 DEF NodeOK
<1>10. CASE i > h
  <2>1. /\ meta' = [meta EXCEPT ![n] = IF IsMetadata(c) THEN Append(@, c) ELSE @]
        /\ saved_applied' = [saved_applied EXCEPT ![n] = i]
        /\ last_applied' = [last_applied EXCEPT ![n] = i]
    BY <1>1, <1>4, <1>10 DEF ApplyGuardedEntry
  <2>2. /\ meta'[n] = AfterMetadata(meta[n], c)
        /\ saved_applied'[n] = i /\ last_applied'[n] = i
    BY <1>0, <2>1 DEF Types, AfterMetadata
  <2>3. Types'
    <3>1. saved_applied' \in [Nodes -> Nat] /\ last_applied' \in [Nodes -> Nat]
      BY <1>0, <1>4, <2>1 DEF Types
    <3>2. DOMAIN meta' = Nodes
      BY <1>0, <2>1 DEF Types
    <3> QED
      BY <1>0, <1>1, <1>5, <1>6, <3>1, <3>2 DEF Types, Entry
  <2>4. IndexesOK(n)'
    <3>1. i <= LastIndex(n)
      BY <1>2, <1>4
    <3> QED
      BY <1>1, <1>3, <1>4, <1>8, <2>2, <3>1 DEF IndexesOK
  <2>5. GapIsLocks(n)'
    <3>1. i + 1 .. i = {}
      BY <1>4
    <3> QED
      BY <2>2, <3>1 DEF GapIsLocks
  <2>6. meta'[n] = MetadataOf(log'[n])[last_applied'[n]]
    BY <1>1, <1>2, <1>10, <2>2
  <2> QED
    BY <1>5, <1>7, <2>3, <2>4, <2>5, <2>6 DEF NodeOK
<1> QED
  BY <1>4, <1>9, <1>10

\* An entry is applied: the invariant of the other nodes is not concerned.
LEMMA ApplyZInv ==
    ASSUME ZInv, NEW n \in Nodes, Apply(n)
    PROVE  ZInv'
<1>0. Types /\ LogsOK /\ \A m \in Nodes : NodeOK(m)
  BY DEF ZInv
<1>1. NodeOK(n)' /\ Types'
  BY ApplyLockZInv, ApplyGuardedZInv
<1>2. UNCHANGED <<voters, log, term, hs_commit, role, commit>>
  BY DEF Apply, raft
<1>3. LogsOK'
  BY <1>0, <1>2, LogsStay
<1>4. \A m \in Nodes \ {n} :
        /\ meta'[m] = meta[m] /\ advisory'[m] = advisory[m] /\ applied'[m] = applied[m]
        /\ last_applied'[m] = last_applied[m] /\ saved_applied'[m] = saved_applied[m]
  BY <1>0 DEF Apply, ApplyLockEntry, ApplyGuardedEntry, Types
<1>5. \A m \in Nodes : PendingOK(m)'
  BY <1>0, ResolvePending DEF NodeOK, Apply
<1>6. ASSUME NEW m \in Nodes \ {n} PROVE NodeOK(m)'
  <2>1. LastIndex(m)' = LastIndex(m) /\ LastIndex(m) \in Nat /\ log'[m] = log[m]
    BY <1>0, <1>2, NodeTypes DEF LastIndex
  <2>2. IndexesOK(m)'
    BY <1>0, <1>2, <1>4, <2>1, IndexesStay
  <2> QED
    BY <1>0, <1>1, <1>4, <1>5, <2>1, <2>2, TablesStay
<1> QED
  BY <1>1, <1>3, <1>6 DEF ZInv

-----------------------------------------------------------------------------
\* Entries that are no metadata commands leave the metadata calls as they are.
LEMMA MetadataGap ==
    ASSUME NEW e, Len(e) \in Nat, NEW a \in Nat, NEW b \in Nat, a <= b, b <= Len(e),
           \A i \in a + 1 .. b : ~ IsMetadata(e[i].call)
    PROVE  MetadataOf(e)[b] = MetadataOf(e)[a]
<1> DEFINE Bad == {j \in a .. b : MetadataOf(e)[j] # MetadataOf(e)[a]}
<1> SUFFICES ASSUME Bad # {} PROVE FALSE
  OBVIOUS
<1>0. Bad \subseteq Nat
  OBVIOUS
<1>1. PICK j \in Bad : \A m \in Bad : j <= m
  <2> HIDE DEF Bad
  <2> QED
    BY <1>0, LeastNat
<1>2. j # a
  OBVIOUS
<1>3. j - 1 \in a .. b /\ j - 1 \notin Bad /\ j \in 1 .. Len(e) /\ j \in a + 1 .. b
  BY <1>1, <1>2
<1>4. MetadataOf(e)[j - 1] = MetadataOf(e)[a] /\ ~ IsMetadata(e[j].call)
  BY <1>3
<1>5. MetadataOf(e)[j] = AfterMetadata(MetadataOf(e)[j - 1], e[j].call)
  BY <1>3, MetadataEquation
<1> QED
  BY <1>4, <1>5 DEF AfterMetadata

\* A crash and a restart: the tables on disk are those of the saved index,
\* because only lock commands lie between it and the index lost, and the lock
\* table starts again with the replay.
LEMMA RestartZInv ==
    ASSUME ZInv, NEW n \in Nodes, Restart(n)
    PROVE  ZInv'
<1>0. Types /\ LogsOK /\ \A m \in Nodes : NodeOK(m)
  BY DEF ZInv
<1>1. /\ restarts < MaxRestarts /\ restarts' = restarts + 1
      /\ role' = [role EXCEPT ![n] = "follower"]
      /\ commit' = [commit EXCEPT ![n] = hs_commit[n]]
      /\ applied' = [applied EXCEPT ![n] = 0]
      /\ last_applied' = [last_applied EXCEPT ![n] = saved_applied[n]]
      /\ advisory' = [advisory EXCEPT ![n] = EmptyTable(ZonePaths)]
      /\ proposal_id' = [proposal_id EXCEPT ![n] = 0]
      /\ pending' = [pending EXCEPT ![n] = <<>>]
      /\ UNCHANGED <<voters, log, term, hs_commit, meta, saved_applied>>
  BY DEF Restart, disk
<1>2. Types'
  <2>1. /\ role' \in [Nodes -> {"leader", "follower"}] /\ commit' \in [Nodes -> Nat]
        /\ applied' \in [Nodes -> Nat] /\ last_applied' \in [Nodes -> Nat]
        /\ proposal_id' \in [Nodes -> Nat]
    BY <1>0, <1>1 DEF Types
  <2>2. DOMAIN advisory' = Nodes /\ DOMAIN pending' = Nodes
    BY <1>0, <1>1 DEF Types
  <2>3. restarts' \in 0 .. MaxRestarts
    BY <1>0, <1>1, ZoneAssumption DEF Types
  <2> QED
    BY <1>0, <1>1, <2>1, <2>2, <2>3 DEF Types, Entry
<1>3. \A m \in Nodes : LastIndex(m)' = LastIndex(m) /\ LastIndex(m) \in Nat
  BY <1>0, <1>1, NodeTypes DEF LastIndex
<1>4. /\ commit'[n] = hs_commit[n] /\ applied'[n] = 0
      /\ last_applied'[n] = saved_applied[n] /\ advisory'[n] = EmptyTable(ZonePaths)
      /\ pending'[n] = <<>>
      /\ \A m \in Nodes \ {n} :
            /\ commit'[m] = commit[m] /\ applied'[m] = applied[m]
            /\ last_applied'[m] = last_applied[m] /\ advisory'[m] = advisory[m]
            /\ pending'[m] = pending[m]
  BY <1>0, <1>1 DEF Types
<1>5. NodeOK(n)'
  <2>1. /\ IndexesOK(n) /\ GapIsLocks(n)
        /\ meta[n] = MetadataOf(log[n])[last_applied[n]]
        /\ saved_applied[n] \in Nat /\ last_applied[n] \in Nat
        /\ hs_commit[n] \in Nat /\ commit[n] \in Nat
    BY <1>0 DEF NodeOK, Types
  <2>2. IndexesOK(n)'
    BY <1>1, <1>3, <1>4, <2>1 DEF IndexesOK
  <2>3. GapIsLocks(n)'
    <3>1. saved_applied[n] + 1 .. saved_applied[n] = {}
      BY <2>1
    <3> QED
      BY <1>1, <1>4, <3>1 DEF GapIsLocks
  <2>4. PendingOK(n)'
    BY <1>4 DEF PendingOK
  <2>5. Len(log[n]) \in Nat /\ saved_applied[n] <= last_applied[n] /\ last_applied[n] <= Len(log[n])
    BY <1>3, <2>1 DEF IndexesOK, LastIndex
  <2>6. MetadataOf(log[n])[last_applied[n]] = MetadataOf(log[n])[saved_applied[n]]
    <3> DEFINE e == log[n]
               a == saved_applied[n]
               b == last_applied[n]
    <3>1. /\ Len(e) \in Nat /\ a \in Nat /\ b \in Nat /\ a <= b /\ b <= Len(e)
          /\ \A i \in a + 1 .. b : ~ IsMetadata(e[i].call)
      BY <2>1, <2>5 DEF GapIsLocks
    <3> HIDE DEF e, a, b
    <3>2. MetadataOf(e)[b] = MetadataOf(e)[a]
      BY <3>1, MetadataGap
    <3> QED
      BY <3>2 DEF e, a, b
  <2>7. meta'[n] = MetadataOf(log'[n])[last_applied'[n]]
    BY <1>1, <1>4, <2>1, <2>6
  <2>8. LocksOf(log[n])[0] = EmptyTable(ZonePaths)
    BY <2>5, LocksEquation
  <2>9. advisory'[n] = LocksOf(log'[n])[applied'[n]]
    BY <1>1, <1>4, <2>8
  <2> QED
    BY <2>2, <2>3, <2>4, <2>7, <2>9 DEF NodeOK
<1>6. ASSUME NEW m \in Nodes \ {n} PROVE NodeOK(m)'
  <2>1. PendingOK(m)' /\ log'[m] = log[m]
    BY <1>0, <1>1, <1>4 DEF PendingOK, NodeOK
  <2>2. IndexesOK(m)'
    BY <1>0, <1>1, <1>3, <1>4, IndexesStay
  <2> QED
    BY <1>0, <1>1, <1>2, <1>3, <1>4, <2>1, <2>2, TablesStay
<1>7. LogsOK'
  <2>1. \A l \in Nodes : role'[l] = "leader" => role[l] = "leader"
    BY <1>0, <1>1 DEF Types
  <2> QED
    BY <1>0, <1>1, <2>1, LogsStay
<1> QED
  BY <1>2, <1>5, <1>6, <1>7 DEF ZInv

\* An empty zone satisfies the invariant.
LEMMA InitZInv ==
    ASSUME Init PROVE ZInv
<1>1. Types
  <2>1. <<>> \in Seq(Entry)
    OBVIOUS
  <2>2. 0 \in 0 .. MaxTerm /\ 0 \in 0 .. MaxRestarts
    BY ZoneAssumption
  <2> QED
    BY <2>1, <2>2 DEF Init, Types, Entry
<1>2. \A n \in Nodes : log[n] = <<>> /\ LastIndex(n) = 0 /\ Len(log[n]) = 0
  BY DEF Init, LastIndex
<1>3. ASSUME NEW n \in Nodes PROVE NodeOK(n)
  <2>1. IndexesOK(n)
    BY <1>2 DEF Init, IndexesOK
  <2>2. GapIsLocks(n)
    BY DEF Init, GapIsLocks
  <2>3. PendingOK(n)
    BY DEF Init, PendingOK
  <2>4. MetadataOf(log[n])[0] = <<>> /\ LocksOf(log[n])[0] = EmptyTable(ZonePaths)
    BY <1>2, MetadataEquation, LocksEquation
  <2>5. /\ meta[n] = <<>> /\ advisory[n] = EmptyTable(ZonePaths)
        /\ last_applied[n] = 0 /\ applied[n] = 0
    BY DEF Init
  <2> QED
    BY <2>1, <2>2, <2>3, <2>4, <2>5 DEF NodeOK
<1>4. LogsOK
  <2>1. \A n \in Nodes : role[n] # "leader"
    BY DEF Init
  <2>2. \A n \in Nodes : 1 .. LastIndex(n) = {}
    BY <1>2
  <2> QED
    BY <2>1, <2>2 DEF LogsOK, TermsReached, OneLeaderPerTerm, EntriesIdentical, LeaderHasAll
<1> QED
  BY <1>1, <1>3, <1>4 DEF ZInv

\* Every step keeps it.
LEMMA NextZInv ==
    ASSUME ZInv, [Next]_vars PROVE ZInv'
<1>0. proposal_id \in [Nodes -> Nat]
  BY DEF ZInv, Types
<1>1. ASSUME NEW n \in voters, NEW Q \in Quorums, NEW t \in 1 .. MaxTerm, Elect(n, Q, t)
      PROVE  ZInv'
  BY <1>1, ElectZInv
<1>2. ASSUME NEW l \in Nodes, NEW f \in Nodes, NEW k \in 0 .. LastIndex(l), NEW p \in 0 .. k,
             SendAppend(l, f, p, k)
      PROVE  ZInv'
  BY <1>2, SendAppendZInv
<1>3. ASSUME NEW l \in Nodes, NEW i \in 1 .. LastIndex(l), AdvanceCommit(l, i)
      PROVE  ZInv'
  BY <1>3, AdvanceCommitZInv
<1>4. ASSUME NEW c \in Calls, NEW n \in Nodes, Submit(c, n) PROVE ZInv'
  BY <1>0, <1>4, FrameZInv DEF Submit, driver
<1>5. ASSUME NEW c \in Calls, NEW n \in Nodes, NEW l \in Nodes \cup {NoNode},
             DriverPropose(c, n, l)
      PROVE  ZInv'
  BY <1>5, DriverProposeZInv
<1>6. ASSUME NEW c \in Calls, NEW n \in Nodes, DriverRefuse(c, n) PROVE ZInv'
  <2>1. proposal_id' \in [Nodes -> Nat]
    BY <1>0, <1>6 DEF DriverRefuse, TakeNumber
  <2> QED
    BY <1>6, <2>1, FrameZInv DEF DriverRefuse
<1>7. ASSUME NEW n \in Nodes, Apply(n) PROVE ZInv'
  BY <1>7, ApplyZInv
<1>8. ASSUME NEW n \in Nodes, NEW l \in Nodes, ReadIndex(n, l) PROVE ZInv'
  BY <1>0, <1>8, FrameZInv DEF ReadIndex, driver
<1>9. ASSUME NEW n \in Nodes, ResolveRead(n) PROVE ZInv'
  BY <1>0, <1>9, FrameZInv DEF ResolveRead, driver
<1>10. ASSUME NEW n \in Nodes, Restart(n) PROVE ZInv'
  BY <1>10, RestartZInv
<1>11. CASE UNCHANGED vars
  BY <1>0, <1>11, FrameZInv DEF vars, driver
<1> QED
  BY <1>1, <1>2, <1>3, <1>4, <1>5, <1>6, <1>7, <1>8, <1>9, <1>10, <1>11 DEF Next

-----------------------------------------------------------------------------
\* The invariant holds in every reachable state of a zone, whatever its size
\* and however many crashes and elections there were.
THEOREM ZoneInvariant == Spec => []ZInv
<1>1. Init => ZInv
  BY InitZInv
<1>2. ZInv /\ [Next]_vars => ZInv'
  BY NextZInv
<1> QED
  BY <1>1, <1>2, PTL DEF Spec

\* The indexes of RaftStorage, of raft-rs and of the state machine keep their
\* order: saved below known, known within the log.
THEOREM ZoneTypeOK == Spec => []TypeOK
<1>1. ZInv => TypeOK
  <2> SUFFICES ASSUME ZInv PROVE TypeOK
    OBVIOUS
  <2>1. Types /\ \A n \in Nodes : IndexesOK(n) /\ PendingOK(n)
    BY DEF ZInv, NodeOK
  <2>2. \A n \in Nodes : ToSet(pending[n]) \subseteq Calls
    BY <2>1 DEF PendingOK, ToSet
  <2> QED
    BY <2>1, <2>2 DEF TypeOK, Types, IndexesOK
<1> QED
  BY <1>1, ZoneInvariant, PTL

\* FullStateMachine::apply: the redb tables hold every metadata command of the
\* log up to last_applied, once and in order, in every zone and over every
\* sequence of crashes.
THEOREM ZoneAppliedOnce == Spec => []AppliedOnce
<1>1. ZInv => AppliedOnce
  BY DEF ZInv, NodeOK, AppliedOnce
<1> QED
  BY <1>1, ZoneInvariant, PTL

\* The lock table in memory is the one the replayed part of the log produces,
\* although lock commands are applied without the last_applied guard.
THEOREM ZoneLocksRebuilt == Spec => []LocksRebuilt
<1>1. ZInv => LocksRebuilt
  BY DEF ZInv, NodeOK, LocksRebuilt
<1> QED
  BY <1>1, ZoneInvariant, PTL

\* The terms on disk (save_hard_state) suffice for one leader per term.
THEOREM ZoneOneLeaderPerTerm == Spec => []OneLeaderPerTerm
<1>1. ZInv => OneLeaderPerTerm
  BY DEF ZInv, LogsOK
<1> QED
  BY <1>1, ZoneInvariant, PTL

\* Comparing terms is comparing entries, even over the stale tails that
\* RaftStorage::append leaves behind.
THEOREM ZoneEntriesIdentical == Spec => []EntriesIdentical
<1>1. ZInv => EntriesIdentical
  BY DEF ZInv, LogsOK
<1> QED
  BY <1>1, ZoneInvariant, PTL

\* What a step may never do to the log of node n: change an entry that n knows
\* to be committed or has applied.
KeepsLog(n) ==
    \A i \in 1 .. LastIndex(n) :
        i <= commit[n] \/ i <= last_applied[n] => log'[n][i] = log[n][i]

\* RaftStorage::append overwrites entries, but none that its node has applied
\* or knows to be committed.
AppliedIsKept == [][\A n \in Nodes : KeepsLog(n)]_vars

\* Every step keeps them: a leader only appends to its own log, and an append
\* to a follower starts behind the follower's commit index, which covers what
\* it applied wherever there is another voter to send it entries.
LEMMA NextKeepsLogs ==
    ASSUME ZInv, Next PROVE \A n \in Nodes : KeepsLog(n)
<1>0. Types /\ LogsOK /\ \A m \in Nodes : NodeOK(m)
  BY DEF ZInv
<1>1. ASSUME log' = log PROVE \A n \in Nodes : KeepsLog(n)
  BY <1>1 DEF KeepsLog
<1>2. ASSUME NEW l \in Nodes, NEW e \in Entry, Appends(l, e)
      PROVE  \A n \in Nodes : KeepsLog(n)
  BY <1>0, <1>2, AppendedLogs DEF KeepsLog
<1>3. ASSUME NEW n \in voters, NEW Q \in Quorums, NEW t \in 1 .. MaxTerm, Elect(n, Q, t)
      PROVE  \A m \in Nodes : KeepsLog(m)
  <2> DEFINE e == [term |-> t, call |-> NoCall, id |-> 0]
  <2>1. n \in Nodes /\ e \in Entry /\ Appends(n, e)
    BY <1>0, <1>3, ElectTerms
  <2> HIDE DEF e
  <2> QED
    BY <1>2, <2>1
<1>4. ASSUME NEW l \in Nodes, NEW f \in Nodes, NEW k \in 0 .. LastIndex(l), NEW p \in 0 .. k,
             SendAppend(l, f, p, k)
      PROVE  \A m \in Nodes : KeepsLog(m)
  <2> DEFINE res == AppendEntries(log[f], log[l], p, k)
  <2>1. /\ l # f /\ f \in voters /\ role[l] = "leader"
        /\ commit[f] <= p /\ p <= k /\ p <= LastIndex(f)
        /\ log' = [log EXCEPT ![f] = res]
    BY <1>4 DEF SendAppend
  <2>2. /\ k \in Nat /\ p \in Nat /\ k <= LastIndex(l)
        /\ log[l] \in Seq(Entry) /\ log[f] \in Seq(Entry)
        /\ LastIndex(l) \in Nat /\ LastIndex(f) \in Nat
    BY <1>0, NodeTypes
  <2>3. \A i \in 1 .. p : res[i] = log[f][i]
    BY <2>1, <2>2, AppendEntriesFacts DEF LastIndex
  <2> HIDE DEF res
  <2>4. log'[f] = res /\ \A m \in Nodes \ {f} : log'[m] = log[m]
    BY <1>0, <2>1 DEF Types
  <2>5. voters # {f}
    BY <1>0, <2>1 DEF LogsOK, TermsReached
  <2>6. commit[f] \in Nat /\ last_applied[f] \in Nat /\ last_applied[f] <= commit[f]
    BY <1>0, <2>5 DEF NodeOK, IndexesOK, Types
  <2>7. KeepsLog(f)
    BY <2>1, <2>2, <2>3, <2>4, <2>6 DEF KeepsLog
  <2> QED
    BY <2>4, <2>7 DEF KeepsLog
<1>5. ASSUME NEW c \in Calls, NEW n \in Nodes, NEW l \in Nodes \cup {NoNode},
             DriverPropose(c, n, l)
      PROVE  \A m \in Nodes : KeepsLog(m)
  <2>1. CASE log' = log
    BY <1>1, <2>1
  <2>2. CASE log' # log
    <3> DEFINE e == [term |-> term[l], call |-> c, id |-> proposal_id[n]]
    <3>1. l \in Nodes /\ Appends(l, e)
      BY <1>5, <2>2 DEF DriverPropose, Appends
    <3>2. e \in Entry
      BY <1>0, <3>1, NodeTypes DEF Entry, Types
    <3> HIDE DEF e
    <3> QED
      BY <1>2, <3>1, <3>2
  <2> QED
    BY <2>1, <2>2
<1>6. ASSUME NEW l \in Nodes, NEW i \in 1 .. LastIndex(l), AdvanceCommit(l, i)
      PROVE  log' = log
  BY <1>6 DEF AdvanceCommit
<1>7. ASSUME NEW c \in Calls, NEW n \in Nodes, Submit(c, n) \/ DriverRefuse(c, n)
      PROVE  log' = log
  BY <1>7 DEF Submit, DriverRefuse, raft
<1>8. ASSUME NEW n \in Nodes, NEW l \in Nodes,
             Apply(n) \/ ReadIndex(n, l) \/ ResolveRead(n) \/ Restart(n)
      PROVE  log' = log
  BY <1>8 DEF Apply, ReadIndex, ResolveRead, Restart, raft, disk
<1> QED
  BY <1>1, <1>3, <1>4, <1>5, <1>6, <1>7, <1>8 DEF Next

\* No step of a zone changes an entry that its node has applied or knows to be
\* committed.
THEOREM ZoneAppliedIsKept == Spec => AppliedIsKept
<1>1. ZInv /\ [Next]_vars => [\A n \in Nodes : KeepsLog(n)]_vars
  BY NextKeepsLogs
<1> QED
  BY <1>1, ZoneInvariant, PTL DEF Spec, AppliedIsKept

-----------------------------------------------------------------------------
\* Agreement.  AppendEntries may leave old entries behind the ones it writes,
\* and then committed entries can be lost (the run ZoneStaleTail).  The rest of
\* the module shows that this is the only way to lose them: in a behaviour
\* where no append leaves such a tail, whatever else happens, replicas agree,
\* leaders have what is committed and reads are linearizable.

\* Node n has an entry of term t at index i.
Has(n, i, t) == i \in 1 .. LastIndex(n) /\ log[n][i].term = t

\* The table res has no entry of the table old behind one that it changed.
WholeTail(old, res) ==
    \A i, j \in 1 .. Len(old) : j < i /\ res[j] # old[j] => res[i] # old[i]

\* A step leaves no stale tail in any log.
CleanTails == \A n \in Nodes : WholeTail(log[n], log'[n])

\* No append of RaftStorage ever leaves a stale tail.
NoStaleTail == [][CleanTails]_vars

\* Two logs with an entry of the same term at an index are the same up to it.
LogMatching ==
    \A n, m \in Nodes : \A i \in 1 .. LastIndex(n) :
        i <= LastIndex(m) /\ log[n][i].term = log[m][i].term =>
            \A j \in 1 .. i : log[n][j] = log[m][j]

\* A log with an entry of a term has every earlier entry of that term.
TermsContiguous ==
    \A n, m \in Nodes : \A j \in 1 .. LastIndex(n), k \in 1 .. LastIndex(m) :
        j <= k /\ log[n][j].term = log[m][k].term => log[m][j].term = log[m][k].term

\* Terms never fall along a log.
TermsOrdered ==
    \A n \in Nodes : \A i, j \in 1 .. LastIndex(n) :
        i <= j => log[n][i].term <= log[n][j].term

\* What is said of the order of entries.
OrderOK == LogMatching /\ TermsContiguous /\ TermsOrdered

\* A node has seen the terms of its entries.
TermsKnown == \A n \in Nodes : \A i \in 1 .. LastIndex(n) : log[n][i].term <= term[n]

\* The last entry of a leader is of its term.
LeaderOwn == \A l \in Nodes : role[l] = "leader" => Has(l, LastIndex(l), term[l])

\* Every log after the step is, up to any index, a log before the step.
PrefixesOld ==
    \A n \in Nodes : \A j \in 1 .. LastIndex(n)' :
        \E m \in Nodes : j \in 1 .. LastIndex(m) /\ \A i \in 1 .. j : log'[n][i] = log[m][i]

\* Some log went past term t without the entry that this term had at index i.
Lost(i, t) ==
    \E m \in Nodes : \E k \in 1 .. LastIndex(m) : log[m][k].term > t /\ ~ Has(m, i, t)

\* The types behind an entry.
LEMMA HasTypes ==
    ASSUME Types, NEW n \in Nodes, NEW i, NEW t, Has(n, i, t)
    PROVE  /\ i \in Nat /\ i >= 1 /\ i <= LastIndex(n) /\ LastIndex(n) \in Nat
           /\ t \in Nat /\ log[n][i].term = t /\ i \in 1 .. LastIndex(n)
  BY NodeTypes DEF Has

\* LogMatching, as it is used.
LEMMA MatchPrefix ==
    ASSUME Types, LogMatching, NEW n \in Nodes, NEW m \in Nodes, NEW i, NEW t,
           Has(n, i, t), Has(m, i, t)
    PROVE  \A j \in 1 .. i : log[n][j] = log[m][j]
<1>1. i \in 1 .. LastIndex(n) /\ i <= LastIndex(m) /\ log[n][i].term = log[m][i].term
  BY HasTypes
<1> QED
  BY <1>1 DEF LogMatching

\* TermsContiguous, as it is used.
LEMMA TermFilled ==
    ASSUME Types, TermsContiguous, NEW n \in Nodes, NEW m \in Nodes, NEW i, NEW j, NEW t,
           Has(n, i, t), Has(m, j, t), i <= j
    PROVE  Has(m, i, t)
<1>1. /\ i \in 1 .. LastIndex(n) /\ j \in 1 .. LastIndex(m) /\ log[n][i].term = log[m][j].term
      /\ i \in Nat /\ j \in Nat /\ i >= 1 /\ j <= LastIndex(m) /\ LastIndex(m) \in Nat
      /\ log[m][j].term = t
  BY HasTypes
<1>2. log[m][i].term = t
  BY <1>1 DEF TermsContiguous
<1> QED
  BY <1>1, <1>2 DEF Has

\* A leader has every entry of its term.
LEMMA LeaderHas ==
    ASSUME Types, LeaderHasAll, TermsContiguous, LeaderOwn, NEW l \in Nodes, role[l] = "leader",
           NEW m \in Nodes, NEW i, Has(m, i, term[l])
    PROVE  Has(l, i, term[l])
<1>1. Has(l, LastIndex(l), term[l])
  BY DEF LeaderOwn
<1>2. i <= LastIndex(l)
  BY DEF LeaderHasAll, Has
<1> QED
  BY <1>1, <1>2, TermFilled

\* Two logs agree up to p and wherever their terms do.
AgreeTo(old, new, p) ==
    /\ \A i \in 1 .. p : old[i] = new[i]
    /\ \A i \in 1 .. Len(old) :
          i <= Len(new) /\ old[i].term = new[i].term => old[i] = new[i]

\* RaftStorage::append without a stale tail: the new table is the sender's up
\* to k, and up to any index it is the old table or the sender's.
LEMMA WholeAppend ==
    ASSUME NEW old \in Seq(Entry), NEW new \in Seq(Entry), NEW p \in Nat, NEW k \in Nat,
           p <= k, k <= Len(new), p <= Len(old),
           AgreeTo(old, new, p),
           NEW res, res = AppendEntries(old, new, p, k), WholeTail(old, res)
    PROVE  /\ \A i \in 1 .. k : res[i] = new[i]
           /\ \A j \in 1 .. Len(res) :
                 \/ j \in 1 .. Len(old) /\ \A i \in 1 .. j : res[i] = old[i]
                 \/ j \in 1 .. Len(new) /\ \A i \in 1 .. j : res[i] = new[i]
<1> DEFINE L == IF k > Len(old) THEN k ELSE Len(old)
           missing(i) == i > Len(old) \/ old[i].term # new[i].term
           rewritten(i) == \E j \in p + 1 .. i : missing(j)
<1>1. res = [i \in 1 .. L |-> IF i <= k /\ rewritten(i) THEN new[i] ELSE old[i]]
  BY DEF AppendEntries
<1>2. L \in Nat /\ Len(old) <= L /\ k <= L /\ Len(old) \in Nat /\ Len(new) \in Nat
  BY LenProperties
<1>3. Len(res) = L /\ \A i \in 1 .. L : res[i] = IF i <= k /\ rewritten(i) THEN new[i] ELSE old[i]
  <2>1. \A i \in 1 .. L : res[i] = IF i <= k /\ rewritten(i) THEN new[i] ELSE old[i]
    BY <1>1
  <2>2. Len(res) = L
    <3> HIDE DEF rewritten, L
    <3>1. DOMAIN res = 1 .. L
      BY <1>1
    <3>2. res \in Seq(Entry)
      BY AppendEntriesFacts
    <3> QED
      BY <1>2, <3>1, <3>2, LenProperties
  <2> QED
    BY <2>1, <2>2
<1>4. ASSUME NEW i \in 1 .. k PROVE res[i] = new[i]
  <2>1. i \in 1 .. L /\ i <= k /\ i <= Len(new) /\ i \in Nat
    BY <1>2
  <2>2. CASE rewritten(i)
    BY <1>3, <2>1, <2>2
  <2>3. CASE ~ rewritten(i) /\ i <= p
    <3>1. old[i] = new[i]
      BY <2>3 DEF AgreeTo
    <3> HIDE DEF rewritten
    <3> QED
      BY <1>3, <2>1, <2>3, <3>1
  <2>4. CASE ~ rewritten(i) /\ i > p
    <3>1. ~ missing(i)
      BY <2>1, <2>4
    <3>2. old[i] = new[i]
      BY <1>2, <2>1, <3>1 DEF AgreeTo
    <3> HIDE DEF rewritten
    <3> QED
      BY <1>3, <2>1, <2>4, <3>2
  <2> QED
    BY <2>1, <2>2, <2>3, <2>4
<1>5. ASSUME NEW j \in 1 .. L, j > k
      PROVE  /\ j \in 1 .. Len(old)
             /\ \A i \in 1 .. j : res[i] = old[i]
  <2>1. j \in 1 .. Len(old) /\ k < Len(old) /\ L = Len(old)
    BY <1>2, <1>5
  <2>2. res[j] = old[j]
    BY <1>2, <1>3, <1>5
  <2>3. ASSUME NEW i \in 1 .. j PROVE res[i] = old[i]
    <3>1. i \in 1 .. Len(old) /\ j \in 1 .. Len(old)
      BY <1>2, <2>1
    <3>2. i < j => res[i] = old[i]
      BY <2>2, <3>1 DEF WholeTail
    <3> QED
      BY <2>2, <2>3, <3>2
  <2> QED
    BY <2>1, <2>3
<1>6. ASSUME NEW j \in 1 .. L, j <= k
      PROVE  j \in 1 .. Len(new) /\ \A i \in 1 .. j : res[i] = new[i]
  BY <1>2, <1>4, <1>6
<1> QED
  BY <1>2, <1>3, <1>4, <1>5, <1>6

\* What is said of the logs' order is said of prefixes of logs.
LEMMA OrderFromOld ==
    ASSUME Types, Types', OrderOK, PrefixesOld
    PROVE  OrderOK'
<1>0. LogMatching /\ TermsContiguous /\ TermsOrdered
  BY DEF OrderOK
<1>1. \A n \in Nodes : LastIndex(n) \in Nat /\ LastIndex(n)' \in Nat
  <2> TAKE n \in Nodes
  <2>1. log'[n] \in Seq(Entry)
    BY DEF Types, Entry
  <2> QED
    BY <2>1, NodeTypes, LenProperties DEF LastIndex
<1>2. LogMatching'
  <2> SUFFICES ASSUME NEW n \in Nodes, NEW m \in Nodes, NEW i \in 1 .. LastIndex(n)',
                      i <= LastIndex(m)', log'[n][i].term = log'[m][i].term,
                      NEW j \in 1 .. i
               PROVE  log'[n][j] = log'[m][j]
    BY DEF LogMatching
  <2>1. PICK a \in Nodes : i \in 1 .. LastIndex(a) /\ \A x \in 1 .. i : log'[n][x] = log[a][x]
    BY DEF PrefixesOld
  <2>2. i \in 1 .. LastIndex(m)' /\ i \in 1 .. i
    OBVIOUS
  <2>3. PICK b \in Nodes : i \in 1 .. LastIndex(b) /\ \A x \in 1 .. i : log'[m][x] = log[b][x]
    BY <2>2 DEF PrefixesOld
  <2>4. i <= LastIndex(b) /\ log[a][i].term = log[b][i].term
    BY <1>1, <2>1, <2>2, <2>3
  <2>5. log[a][j] = log[b][j]
    BY <1>0, <2>1, <2>4 DEF LogMatching
  <2> QED
    BY <2>1, <2>3, <2>5
<1>3. TermsContiguous'
  <2> SUFFICES ASSUME NEW n \in Nodes, NEW m \in Nodes, NEW j \in 1 .. LastIndex(n)',
                      NEW k \in 1 .. LastIndex(m)', j <= k, log'[n][j].term = log'[m][k].term
               PROVE  log'[m][j].term = log'[m][k].term
    BY DEF TermsContiguous
  <2>1. PICK a \in Nodes : j \in 1 .. LastIndex(a) /\ \A x \in 1 .. j : log'[n][x] = log[a][x]
    BY DEF PrefixesOld
  <2>2. PICK b \in Nodes : k \in 1 .. LastIndex(b) /\ \A x \in 1 .. k : log'[m][x] = log[b][x]
    BY DEF PrefixesOld
  <2>3. j \in 1 .. j /\ j \in 1 .. k /\ k \in 1 .. k
    OBVIOUS
  <2>4. log[a][j].term = log[b][k].term
    BY <2>1, <2>2, <2>3
  <2>5. log[b][j].term = log[b][k].term
    BY <1>0, <2>1, <2>2, <2>4 DEF TermsContiguous
  <2> QED
    BY <2>2, <2>3, <2>5
<1>4. TermsOrdered'
  <2> SUFFICES ASSUME NEW n \in Nodes, NEW i \in 1 .. LastIndex(n)',
                      NEW j \in 1 .. LastIndex(n)', i <= j
               PROVE  log'[n][i].term <= log'[n][j].term
    BY DEF TermsOrdered
  <2>1. PICK b \in Nodes : j \in 1 .. LastIndex(b) /\ \A x \in 1 .. j : log'[n][x] = log[b][x]
    BY DEF PrefixesOld
  <2>2. i \in 1 .. j /\ j \in 1 .. j /\ i \in 1 .. LastIndex(b)
    BY <1>1, <2>1
  <2>3. log[b][i].term <= log[b][j].term
    BY <1>0, <2>1, <2>2 DEF TermsOrdered
  <2> QED
    BY <2>1, <2>2, <2>3
<1> QED
  BY <1>2, <1>3, <1>4 DEF OrderOK

\* An entry that is not lost is not lost where logs are only copied.
LEMMA LostFromOld ==
    ASSUME Types, Types', TermsOrdered, PrefixesOld, NEW i, NEW t, t \in Nat, Lost(i, t)'
    PROVE  Lost(i, t)
<1>1. \A n \in Nodes : LastIndex(n) \in Nat /\ LastIndex(n)' \in Nat
  <2> TAKE n \in Nodes
  <2>1. log'[n] \in Seq(Entry)
    BY DEF Types, Entry
  <2> QED
    BY <2>1, NodeTypes, LenProperties DEF LastIndex
<1>2. PICK m \in Nodes : \E k \in 1 .. LastIndex(m)' : log'[m][k].term > t /\ ~ Has(m, i, t)'
  BY DEF Lost
<1>3. PICK k \in 1 .. LastIndex(m)' : log'[m][k].term > t /\ ~ Has(m, i, t)'
  BY <1>2
<1>4. PICK a \in Nodes : k \in 1 .. LastIndex(a) /\ \A x \in 1 .. k : log'[m][x] = log[a][x]
  BY DEF PrefixesOld
<1>5. k \in 1 .. k /\ log[a][k].term > t /\ log[a][k].term \in Nat
  BY <1>3, <1>4, NodeTypes
<1>6. ~ Has(a, i, t)
  <2> SUFFICES ASSUME Has(a, i, t) PROVE FALSE
    OBVIOUS
  <2>1. i \in 1 .. LastIndex(a) /\ log[a][i].term = t
    BY DEF Has
  <2>2. i <= k
    <3> SUFFICES ASSUME i > k PROVE FALSE
      BY <1>1, <1>4, <2>1
    <3>1. log[a][k].term <= log[a][i].term
      BY <1>4, <2>1, <1>1 DEF TermsOrdered
    <3> QED
      BY <1>5, <2>1, <3>1
  <2>3. i \in 1 .. k /\ i \in 1 .. LastIndex(m)'
    BY <1>1, <1>3, <1>4, <2>1, <2>2
  <2>4. log'[m][i].term = t
    BY <1>4, <2>1, <2>3
  <2> QED
    BY <1>3, <2>3, <2>4 DEF Has
<1> QED
  BY <1>4, <1>5, <1>6 DEF Lost

\* The order after the append of an entry whose term is the newest of its log
\* and whose log has every entry of that term.
LEMMA OrderAppends ==
    ASSUME Types, OrderOK, NEW l \in Nodes, NEW e \in Entry, Appends(l, e),
           \A m \in Nodes : \A i \in 1 .. LastIndex(m) :
               log[m][i].term = e.term => Has(l, i, e.term),
           \A i \in 1 .. LastIndex(l) : log[l][i].term <= e.term
    PROVE  OrderOK'
<1>0. LogMatching /\ TermsContiguous /\ TermsOrdered
  BY DEF OrderOK
<1> DEFINE N == LastIndex(l) + 1
<1>1. /\ \A n \in Nodes : LastIndex(n)' \in Nat /\ LastIndex(n) <= LastIndex(n)'
      /\ LastIndex(l)' = N
      /\ \A n \in Nodes : \A i \in 1 .. LastIndex(n) : log'[n][i] = log[n][i]
      /\ log'[l][N] = e
      /\ \A n \in Nodes : \A i \in 1 .. LastIndex(n)' :
            \/ i \in 1 .. LastIndex(n) /\ log'[n][i] = log[n][i]
            \/ n = l /\ i = N /\ log'[n][i] = e
  BY AppendedLogs
<1>2. \A n \in Nodes : LastIndex(n) \in Nat
  BY NodeTypes
<1>3. N \in Nat /\ N > LastIndex(l) /\ e.term \in Nat
  BY <1>2 DEF Entry
<1>4. \A m \in Nodes : \A i \in 1 .. LastIndex(m) :
        log[m][i].term = e.term => i < N /\ i \in 1 .. LastIndex(l) /\ log[l][i].term = e.term
  BY <1>2, <1>3 DEF Has
<1> HIDE DEF N
<1>5. LogMatching'
  <2> SUFFICES ASSUME NEW n \in Nodes, NEW m \in Nodes, NEW i \in 1 .. LastIndex(n)',
                      i <= LastIndex(m)', log'[n][i].term = log'[m][i].term
               PROVE  \A j \in 1 .. i : log'[n][j] = log'[m][j]
    BY DEF LogMatching
  <2>1. i \in 1 .. LastIndex(m)'
    BY <1>1
  <2>2. CASE i \in 1 .. LastIndex(n) /\ i \in 1 .. LastIndex(m)
    <3>1. i <= LastIndex(m) /\ log[n][i].term = log[m][i].term
      BY <1>1, <1>2, <2>2
    <3>2. \A j \in 1 .. i : log[n][j] = log[m][j]
      BY <1>0, <2>2, <3>1 DEF LogMatching
    <3>3. \A j \in 1 .. i : j \in 1 .. LastIndex(n) /\ j \in 1 .. LastIndex(m)
      BY <1>2, <2>2
    <3> QED
      BY <1>1, <3>2, <3>3
  <2>3. CASE n = m
    BY <2>3
  <2>4. CASE n = l /\ i = N /\ log'[n][i] = e /\ i \in 1 .. LastIndex(m) /\ n # m
    <3>1. log[m][i].term = e.term
      BY <1>1, <2>4
    <3> QED
      BY <1>3, <1>4, <2>4, <3>1
  <2>5. CASE m = l /\ i = N /\ log'[m][i] = e /\ i \in 1 .. LastIndex(n) /\ n # m
    <3>1. log[n][i].term = e.term
      BY <1>1, <2>5
    <3> QED
      BY <1>3, <1>4, <2>5, <3>1
  <2> QED
    BY <1>1, <2>1, <2>2, <2>3, <2>4, <2>5
<1>6. TermsContiguous'
  <2> SUFFICES ASSUME NEW n \in Nodes, NEW m \in Nodes, NEW j \in 1 .. LastIndex(n)',
                      NEW k \in 1 .. LastIndex(m)', j <= k, log'[n][j].term = log'[m][k].term
               PROVE  log'[m][j].term = log'[m][k].term
    BY DEF TermsContiguous
  <2>1. CASE j \in 1 .. LastIndex(n) /\ log'[n][j] = log[n][j]
             /\ k \in 1 .. LastIndex(m) /\ log'[m][k] = log[m][k]
    <3>1. log[n][j].term = log[m][k].term
      BY <2>1
    <3>2. log[m][j].term = log[m][k].term /\ j \in 1 .. LastIndex(m)
      BY <1>0, <1>2, <2>1, <3>1 DEF TermsContiguous
    <3> QED
      BY <1>1, <2>1, <3>2
  <2>2. CASE j \in 1 .. LastIndex(n) /\ log'[n][j] = log[n][j] /\ m = l /\ log'[m][k] = e
    <3>1. log[n][j].term = e.term
      BY <2>2
    <3> QED
      BY <1>1, <1>4, <2>2, <3>1
  <2>3. CASE n = l /\ j = N /\ log'[n][j] = e
             /\ k \in 1 .. LastIndex(m) /\ log'[m][k] = log[m][k]
    <3>1. log[m][k].term = e.term
      BY <2>3
    <3>2. k < N /\ k \in Nat
      BY <1>4, <2>3, <3>1
    <3> QED
      BY <1>3, <2>3, <3>2
  <2>4. CASE n = l /\ m = l /\ j = N /\ k = N
    BY <2>4
  <2> QED
    BY <1>1, <2>1, <2>2, <2>3, <2>4
<1>7. TermsOrdered'
  <2> SUFFICES ASSUME NEW n \in Nodes, NEW i \in 1 .. LastIndex(n)',
                      NEW j \in 1 .. LastIndex(n)', i <= j
               PROVE  log'[n][i].term <= log'[n][j].term
    BY DEF TermsOrdered
  <2>1. CASE i \in 1 .. LastIndex(n) /\ j \in 1 .. LastIndex(n)
    <3>1. log[n][i].term <= log[n][j].term
      BY <1>0, <2>1 DEF TermsOrdered
    <3> QED
      BY <1>1, <2>1, <3>1
  <2>2. CASE n = l /\ j = N /\ log'[n][j] = e /\ i \in 1 .. LastIndex(n)
    BY <1>1, <2>2
  <2>3. CASE n = l /\ i = N /\ j = N /\ log'[n][i] = e
    BY <1>3, <2>3
  <2>4. CASE n = l /\ i = N /\ j \in 1 .. LastIndex(n)
    BY <1>2, <1>3, <2>4
  <2> QED
    BY <1>1, <2>1, <2>2, <2>3, <2>4
<1> QED
  BY <1>5, <1>6, <1>7 DEF OrderOK

\* What a leader knows of the other voters' logs is about its own log.
MatchOK ==
    /\ match \in [Nodes -> [Nodes -> Nat]]
    /\ \A l, m \in Nodes : role[l] = "leader" => match[l][m] <= LastIndex(l)

\* The voters that a leader counts for index i.
Acked(l, i) == {m \in voters : m = l \/ match[l][m] >= i}

\* A majority is in newer terms and did not acknowledge index i: it never will.
Blocked(l, i) == Majority({q \in voters : term[q] > term[l] /\ q \notin Acked(l, i)})

\* As long as a leader can still commit an entry of its term, the voters it
\* counts have the entry and no log went on without it.
AcksOK ==
    \A l \in Nodes : role[l] = "leader" => \A i \in 1 .. LastIndex(l) :
        log[l][i].term = term[l] =>
            \/ Blocked(l, i)
            \/ ~ Lost(i, term[l]) /\ \A m \in Acked(l, i) : Has(m, i, term[l])

\* The raft part of the invariant.
RaftOK == OrderOK /\ TermsKnown /\ LeaderOwn /\ MatchOK /\ AcksOK

\* The entry of term t at index j is on a majority and in every log that went
\* past this term.
Chosen(j, t) == Majority({m \in voters : Has(m, j, t)}) /\ ~ Lost(j, t)

\* A step keeps every chosen entry where it is, with all entries before it.
ChosenStays ==
    \A j, t \in Nat : Chosen(j, t) =>
        /\ Chosen(j, t)'
        /\ \A q \in Nodes : Has(q, j, t) =>
              Has(q, j, t)' /\ \A i \in 1 .. j : log'[q][i] = log[q][i]

\* A majority that is gone to newer terms is gone for good: an acknowledgement
\* brings its voter to the leader's term, never one of a newer term.
LEMMA BlockedStays ==
    ASSUME Types, Types', voters' = voters, \A q \in voters : term[q] <= term'[q],
           NEW l \in Nodes, term'[l] = term[l], NEW i,
           \A q \in voters : term[q] > term[l] /\ q \in Acked(l, i)' => q \in Acked(l, i),
           Blocked(l, i)
    PROVE  Blocked(l, i)'
<1> DEFINE A == {q \in voters : term[q] > term[l] /\ q \notin Acked(l, i)}
           B == {q \in voters : term'[q] > term[l] /\ q \notin Acked(l, i)'}
<1>1. \A q \in voters : term[q] \in Nat /\ term'[q] \in Nat
  BY ZoneAssumption DEF Types
<1>2. term[l] \in Nat
  BY NodeTypes
<1>3. A \subseteq B
  BY <1>1, <1>2
<1>4. Majority(B)
  <2>1. A \subseteq voters /\ B \subseteq voters /\ Majority(A)
    BY DEF Blocked
  <2> HIDE DEF A, B
  <2> QED
    BY <1>3, <2>1, MajorityGrows
<1> QED
  BY <1>4 DEF Blocked, Majority

\* The winner has what a voter has, unless it is lost.
LEMMA ElectHas ==
    ASSUME Types, OrderOK,
           NEW n \in voters, NEW Q \in Quorums, NEW t \in 1 .. MaxTerm, Elect(n, Q, t),
           NEW q \in Q, NEW j, NEW T, Has(q, j, T), ~ Lost(j, T)
    PROVE  Has(n, j, T)
<1>0. n \in Nodes /\ Q \subseteq voters
  BY ElectTerms
<1>1. n \in Nodes /\ q \in Nodes /\ UpToDate(n, q)
  BY <1>0 DEF Elect, Types
<1>2. /\ j \in Nat /\ j >= 1 /\ j <= LastIndex(q) /\ LastIndex(q) \in Nat /\ T \in Nat
      /\ log[q][j].term = T /\ j \in 1 .. LastIndex(q)
  BY <1>1, HasTypes
<1>3. LastIndex(n) \in Nat
  BY <1>1, NodeTypes
<1>4. /\ LastIndex(q) \in 1 .. LastIndex(q)
      /\ LastTerm(q) = log[q][LastIndex(q)].term /\ LastTerm(q) >= T /\ LastTerm(q) \in Nat
  <2>1. LastIndex(q) \in 1 .. LastIndex(q) /\ LastIndex(q) # 0
    BY <1>2
  <2>2. LastTerm(q) = log[q][LastIndex(q)].term
    BY <2>1 DEF LastTerm, TermAt
  <2>3. T <= log[q][LastIndex(q)].term
    BY <1>1, <1>2, <2>1 DEF OrderOK, TermsOrdered
  <2>4. log[q][LastIndex(q)].term \in Nat
    BY <1>1, <2>1, NodeTypes
  <2> QED
    BY <1>2, <2>1, <2>2, <2>3, <2>4
<1>5. LastIndex(n) # 0
  <2> SUFFICES ASSUME LastIndex(n) = 0 PROVE FALSE
    OBVIOUS
  <2>1. LastTerm(n) = 0
    BY DEF LastTerm, TermAt
  <2> QED
    BY <1>1, <1>2, <1>4, <2>1 DEF UpToDate
<1>6. /\ LastIndex(n) \in 1 .. LastIndex(n) /\ LastTerm(n) = log[n][LastIndex(n)].term
      /\ LastTerm(n) \in Nat
  BY <1>1, <1>3, <1>5, NodeTypes DEF LastTerm, TermAt
<1>7. CASE LastTerm(n) > T
  BY <1>1, <1>6, <1>7 DEF Lost
<1>8. CASE ~ (LastTerm(n) > T)
  <2>1. LastTerm(n) = T /\ LastIndex(n) >= LastIndex(q)
    BY <1>1, <1>2, <1>4, <1>6, <1>8 DEF UpToDate
  <2>2. Has(n, LastIndex(n), T) /\ j <= LastIndex(n)
    BY <1>2, <1>3, <1>6, <2>1 DEF Has
  <2> QED
    BY <1>1, <2>2, TermFilled DEF OrderOK
<1> QED
  BY <1>7, <1>8

\* What an append without a stale tail does to the logs.
LEMMA SendLogs ==
    ASSUME Types, OrderOK, EntriesIdentical,
           NEW l \in Nodes, NEW f \in Nodes, NEW k \in 0 .. LastIndex(l), NEW p \in 0 .. k,
           SendAppend(l, f, p, k), WholeTail(log[f], log'[f])
    PROVE  /\ l # f /\ k \in Nat /\ k <= LastIndex(l)
           /\ \A m \in Nodes \ {f} : log'[m] = log[m]
           /\ \A m \in Nodes : LastIndex(m)' \in Nat /\ LastIndex(m) <= LastIndex(m)'
           /\ k <= LastIndex(f)' /\ \A i \in 1 .. k : log'[f][i] = log[l][i]
           /\ \A j \in 1 .. LastIndex(f)' :
                 \/ j \in 1 .. LastIndex(f) /\ \A i \in 1 .. j : log'[f][i] = log[f][i]
                 \/ j \in 1 .. LastIndex(l) /\ \A i \in 1 .. j : log'[f][i] = log[l][i]
<1> DEFINE old == log[f]
           new == log[l]
           res == AppendEntries(old, new, p, k)
<1>1. /\ l # f /\ p <= k /\ p <= LastIndex(f) /\ TermAt(l, p) = TermAt(f, p)
      /\ log' = [log EXCEPT ![f] = res]
  BY DEF SendAppend
<1>2. /\ k \in Nat /\ p \in Nat /\ k <= LastIndex(l)
      /\ LastIndex(l) \in Nat /\ LastIndex(f) \in Nat
      /\ new \in Seq(Entry) /\ old \in Seq(Entry)
      /\ Len(old) = LastIndex(f) /\ Len(new) = LastIndex(l)
  BY NodeTypes DEF LastIndex
<1>3. log'[f] = res /\ \A m \in Nodes \ {f} : log'[m] = log[m]
  BY <1>1 DEF Types
<1>4. \A i \in 1 .. p : old[i] = new[i]
  <2>1. CASE p = 0
    BY <2>1
  <2>2. CASE p # 0
    <3>1. Has(f, p, log[f][p].term) /\ Has(l, p, log[f][p].term)
      BY <1>1, <1>2, <2>2 DEF Has, TermAt
    <3> QED
      BY <3>1, MatchPrefix DEF OrderOK
  <2> QED
    BY <2>1, <2>2
<1>5. \A i \in 1 .. Len(old) : i <= Len(new) /\ old[i].term = new[i].term => old[i] = new[i]
  BY <1>2 DEF EntriesIdentical
<1>6. AgreeTo(old, new, p) /\ WholeTail(old, res)
  BY <1>3, <1>4, <1>5 DEF AgreeTo
<1>7. LastIndex(f)' = Len(res)
  BY <1>3 DEF LastIndex
<1>8. p <= Len(old) /\ k <= Len(new) /\ p <= k
  BY <1>1, <1>2
<1>9. Len(res) \in Nat /\ Len(old) <= Len(res) /\ k <= Len(res)
  <2> HIDE DEF old, new
  <2> QED
    BY <1>2, <1>8, AppendEntriesFacts
<1>10. /\ \A i \in 1 .. k : res[i] = new[i]
       /\ \A j \in 1 .. Len(res) :
             \/ j \in 1 .. Len(old) /\ \A i \in 1 .. j : res[i] = old[i]
             \/ j \in 1 .. Len(new) /\ \A i \in 1 .. j : res[i] = new[i]
  <2> DEFINE r == res
  <2>1. r = AppendEntries(old, new, p, k) /\ WholeTail(old, r)
    BY <1>6
  <2> HIDE DEF old, new, r
  <2>2. /\ \A i \in 1 .. k : r[i] = new[i]
        /\ \A j \in 1 .. Len(r) :
             \/ j \in 1 .. Len(old) /\ \A i \in 1 .. j : r[i] = old[i]
             \/ j \in 1 .. Len(new) /\ \A i \in 1 .. j : r[i] = new[i]
    BY <1>2, <1>6, <1>8, <2>1, WholeAppend
  <2> QED
    BY <2>2 DEF r
<1> HIDE DEF res
<1>11. \A m \in Nodes : LastIndex(m)' \in Nat /\ LastIndex(m) <= LastIndex(m)'
  <2> TAKE m \in Nodes
  <2>1. CASE m = f
    BY <1>2, <1>7, <1>9, <2>1
  <2>2. CASE m # f
    <3>1. LastIndex(m)' = LastIndex(m)
      BY <1>3, <2>2 DEF LastIndex
    <3> QED
      BY <3>1, NodeTypes
  <2> QED
    BY <2>1, <2>2
<1> QED
  BY <1>1, <1>2, <1>3, <1>7, <1>9, <1>10, <1>11

\* Nothing changes where logs, terms and acknowledgements stay and nobody
\* becomes leader.
LEMMA RaftStays ==
    ASSUME RaftOK, voters' = voters, log' = log, term' = term,
           match' \in [Nodes -> [Nodes -> Nat]],
           \A l \in Nodes : role'[l] = "leader" => role[l] = "leader" /\ match'[l] = match[l]
    PROVE  RaftOK' /\ ChosenStays
<1>1. \A n, i, t : LastIndex(n)' = LastIndex(n) /\ (Has(n, i, t)' <=> Has(n, i, t))
  BY DEF LastIndex, Has
<1>2. \A i, t : Lost(i, t)' <=> Lost(i, t)
  BY <1>1 DEF Lost
<1>3. OrderOK'
  BY <1>1 DEF RaftOK, OrderOK, LogMatching, TermsContiguous, TermsOrdered
<1>4. TermsKnown' /\ LeaderOwn' /\ MatchOK'
  <2>1. TermsKnown /\ LeaderOwn /\ MatchOK
    BY DEF RaftOK
  <2> QED
    BY <1>1, <2>1 DEF TermsKnown, LeaderOwn, MatchOK
<1>5. AcksOK'
  <2> SUFFICES ASSUME NEW l \in Nodes, role'[l] = "leader", NEW i \in 1 .. LastIndex(l)',
                      log'[l][i].term = term'[l]
               PROVE  \/ Blocked(l, i)'
                      \/ ~ Lost(i, term[l])' /\ \A m \in Acked(l, i)' : Has(m, i, term[l])'
    BY DEF AcksOK
  <2>1. Acked(l, i)' = Acked(l, i)
    BY DEF Acked
  <2>2. Blocked(l, i)' <=> Blocked(l, i)
    BY <2>1 DEF Blocked, Majority
  <2>3. \/ Blocked(l, i)
        \/ ~ Lost(i, term[l]) /\ \A m \in Acked(l, i) : Has(m, i, term[l])
    BY <1>1 DEF RaftOK, AcksOK
  <2> QED
    BY <1>1, <1>2, <2>1, <2>2, <2>3
<1>6. ChosenStays
  <2>1. \A j, t : Chosen(j, t)' <=> Chosen(j, t)
    BY <1>1, <1>2 DEF Chosen, Majority
  <2> QED
    BY <1>1, <2>1 DEF ChosenStays
<1> QED
  BY <1>3, <1>4, <1>5, <1>6 DEF RaftOK

\* What is on a majority and kept by each of its holders stays chosen.
LEMMA ChosenKept ==
    ASSUME Types, voters' = voters, NEW j, NEW t, Chosen(j, t), ~ Lost(j, t)',
           \A q \in voters : Has(q, j, t) => Has(q, j, t)'
    PROVE  Chosen(j, t)'
<1> DEFINE A == {m \in voters : Has(m, j, t)}
           B == {m \in voters : Has(m, j, t)'}
<1>1. A \subseteq B /\ A \subseteq voters /\ B \subseteq voters /\ Majority(A)
  BY DEF Chosen
<1>2. Majority(B)
  <2> HIDE DEF A, B
  <2> QED
    BY <1>1, MajorityGrows
<1> QED
  BY <1>2 DEF Chosen, Majority

\* An append does not take an entry that is not lost from the follower: the
\* sender has it.
LEMMA SendKeeps ==
    ASSUME Types, LogsOK, RaftOK,
           NEW l \in Nodes, NEW f \in Nodes, NEW k \in 0 .. LastIndex(l), NEW p \in 0 .. k,
           SendAppend(l, f, p, k), WholeTail(log[f], log'[f]),
           NEW m \in Nodes, NEW j, NEW t, Has(m, j, t), ~ Lost(j, t)
    PROVE  Has(m, j, t)' /\ \A i \in 1 .. j : log'[m][i] = log[m][i]
<1>0. /\ OrderOK /\ TermsKnown /\ LeaderOwn /\ EntriesIdentical /\ LeaderHasAll
      /\ LogMatching /\ TermsContiguous
  BY DEF RaftOK, LogsOK, OrderOK
<1>1. /\ l # f
      /\ \A o \in Nodes \ {f} : log'[o] = log[o]
      /\ \A o \in Nodes : LastIndex(o)' \in Nat /\ LastIndex(o) <= LastIndex(o)'
      /\ \A x \in 1 .. LastIndex(f)' :
            \/ x \in 1 .. LastIndex(f) /\ \A i \in 1 .. x : log'[f][i] = log[f][i]
            \/ x \in 1 .. LastIndex(l) /\ \A i \in 1 .. x : log'[f][i] = log[l][i]
  BY <1>0, SendLogs
<1>2. /\ j \in Nat /\ j >= 1 /\ j <= LastIndex(m) /\ LastIndex(m) \in Nat /\ t \in Nat
      /\ log[m][j].term = t /\ j \in 1 .. LastIndex(m) /\ j \in 1 .. j
  BY HasTypes
<1>3. CASE m # f
  <2>1. log'[m] = log[m]
    BY <1>1, <1>3
  <2> QED
    BY <2>1 DEF Has, LastIndex
<1>4. CASE m = f
  <2>1. role[l] = "leader" /\ term[f] <= term[l] /\ term[f] \in Nat /\ term[l] \in Nat
    BY NodeTypes DEF SendAppend
  <2>2. t <= term[l]
    <3>1. t <= term[f]
      BY <1>0, <1>2, <1>4 DEF TermsKnown
    <3> QED
      BY <1>2, <2>1, <3>1
  <2>3. Has(l, j, t)
    <3>1. CASE t = term[l]
      BY <1>0, <2>1, <3>1, LeaderHas
    <3>2. CASE t < term[l]
      <4>1. Has(l, LastIndex(l), term[l])
        BY <1>0, <2>1 DEF LeaderOwn
      <4> QED
        BY <3>2, <4>1 DEF Lost, Has
    <3> QED
      BY <1>2, <2>1, <2>2, <3>1, <3>2
  <2>4. \A i \in 1 .. j : log[l][i] = log[f][i]
    BY <1>0, <1>4, <2>3, MatchPrefix
  <2>5. j \in 1 .. LastIndex(f)'
    BY <1>1, <1>2, <1>4
  <2>6. \A i \in 1 .. j : log'[f][i] = log[f][i]
    BY <1>1, <2>4, <2>5
  <2>7. log'[f][j].term = t
    BY <1>2, <1>4, <2>6
  <2> QED
    BY <1>4, <2>5, <2>6, <2>7 DEF Has
<1> QED
  BY <1>3, <1>4

\* The leader notes what the follower acknowledged.
LEMMA SendMatch ==
    ASSUME Types, MatchOK, NEW l \in Nodes, NEW f \in Nodes, l # f, NEW k \in Nat,
           k <= LastIndex(l), LastIndex(l)' = LastIndex(l),
           \A o \in Nodes \ {f} : LastIndex(o)' = LastIndex(o),
           role' = [role EXCEPT ![f] = "follower"],
           match' = [match EXCEPT ![l][f] = IF k > @ THEN k ELSE @, ![f] = NoMatch]
    PROVE  /\ MatchOK'
           /\ \A o \in Nodes : o # f /\ o # l => match'[o] = match[o]
           /\ \A m \in Nodes : m # f => match'[l][m] = match[l][m]
           /\ \A i : match'[l][f] >= i => match[l][f] >= i \/ k >= i
<1>0. match \in [Nodes -> [Nodes -> Nat]] /\ NoMatch \in [Nodes -> Nat]
  BY DEF MatchOK, NoMatch
<1>1. \A o \in Nodes : o # f /\ o # l => match'[o] = match[o]
  BY <1>0
<1>2. match'[l] = [match[l] EXCEPT ![f] = IF k > match[l][f] THEN k ELSE match[l][f]]
  BY <1>0
<1>3. match'[f] = NoMatch
  BY <1>0
<1>4. match[l] \in [Nodes -> Nat] /\ match[l][f] \in Nat
  BY <1>0
<1>5. match'[l] \in [Nodes -> Nat]
  BY <1>2, <1>4
<1>6. \A m \in Nodes : m # f => match'[l][m] = match[l][m]
  BY <1>2, <1>4
<1>7. match'[l][f] = IF k > match[l][f] THEN k ELSE match[l][f]
  BY <1>2, <1>4
<1>8. match' \in [Nodes -> [Nodes -> Nat]]
  BY <1>0
<1>9. ASSUME NEW o \in Nodes, NEW m \in Nodes, role'[o] = "leader"
      PROVE  match'[o][m] <= LastIndex(o)'
  <2>1. o # f /\ role[o] = "leader" /\ LastIndex(o)' = LastIndex(o)
    BY <1>9 DEF Types
  <2>2. match[o][m] <= LastIndex(o)
    BY <2>1 DEF MatchOK
  <2>3. CASE o # l
    BY <1>1, <2>1, <2>2, <2>3
  <2>4. CASE o = l /\ m # f
    BY <1>6, <2>1, <2>2, <2>4
  <2>5. CASE o = l /\ m = f
    BY <1>7, <2>1, <2>2, <2>5
  <2> QED
    BY <2>3, <2>4, <2>5
<1> QED
  BY <1>1, <1>4, <1>6, <1>7, <1>8, <1>9 DEF MatchOK

\* An append without a stale tail keeps the order of the logs, what leaders
\* count and what is chosen.
LEMMA RaftSends ==
    ASSUME Types, Types', LogsOK, RaftOK,
           NEW l \in Nodes, NEW f \in Nodes, NEW k \in 0 .. LastIndex(l), NEW p \in 0 .. k,
           SendAppend(l, f, p, k), WholeTail(log[f], log'[f])
    PROVE  RaftOK' /\ ChosenStays
<1>0. /\ OrderOK /\ TermsKnown /\ LeaderOwn /\ MatchOK /\ AcksOK
      /\ EntriesIdentical /\ LeaderHasAll /\ TermsOrdered
  BY DEF RaftOK, LogsOK, OrderOK
<1>1. /\ l # f /\ f \in voters /\ role[l] = "leader" /\ term[f] <= term[l]
      /\ term' = [term EXCEPT ![f] = term[l]]
      /\ role' = [role EXCEPT ![f] = "follower"]
      /\ match' = [match EXCEPT ![l][f] = IF k > @ THEN k ELSE @, ![f] = NoMatch]
      /\ voters' = voters
  BY DEF SendAppend
<1>2. /\ k \in Nat /\ k <= LastIndex(l)
      /\ \A m \in Nodes \ {f} : log'[m] = log[m]
      /\ \A m \in Nodes : LastIndex(m)' \in Nat /\ LastIndex(m) <= LastIndex(m)'
      /\ k <= LastIndex(f)' /\ \A i \in 1 .. k : log'[f][i] = log[l][i]
      /\ \A j \in 1 .. LastIndex(f)' :
            \/ j \in 1 .. LastIndex(f) /\ \A i \in 1 .. j : log'[f][i] = log[f][i]
            \/ j \in 1 .. LastIndex(l) /\ \A i \in 1 .. j : log'[f][i] = log[l][i]
  BY <1>0, SendLogs
<1>3. \A m \in Nodes \ {f} : LastIndex(m)' = LastIndex(m)
  BY <1>2 DEF LastIndex
<1>4. /\ term'[f] = term[l] /\ role'[f] = "follower"
      /\ \A m \in Nodes \ {f} : term'[m] = term[m] /\ role'[m] = role[m]
  BY <1>1 DEF Types
<1>5. \A m \in Nodes : term[m] \in Nat /\ term[m] <= term'[m]
  <2> TAKE m \in Nodes
  <2>1. term[m] \in Nat
    BY NodeTypes
  <2> QED
    BY <1>1, <1>4, <2>1
<1>6. PrefixesOld
  <2> SUFFICES ASSUME NEW n \in Nodes, NEW j \in 1 .. LastIndex(n)'
               PROVE  \E m \in Nodes : j \in 1 .. LastIndex(m)
                                       /\ \A i \in 1 .. j : log'[n][i] = log[m][i]
    BY DEF PrefixesOld
  <2>1. CASE n = f
    BY <1>2, <2>1
  <2>2. CASE n # f
    BY <1>2, <1>3, <2>2
  <2> QED
    BY <2>1, <2>2
<1>7. OrderOK'
  BY <1>0, <1>6, OrderFromOld
<1>8. \A i : \A t \in Nat : ~ Lost(i, t) => ~ Lost(i, t)'
  BY <1>0, <1>6, LostFromOld
<1>9. TermsKnown'
  <2> SUFFICES ASSUME NEW n \in Nodes, NEW i \in 1 .. LastIndex(n)'
               PROVE  log'[n][i].term <= term'[n]
    BY DEF TermsKnown
  <2>1. CASE n # f
    BY <1>0, <1>2, <1>3, <1>4, <2>1 DEF TermsKnown
  <2>2. CASE n = f
    <3>1. i \in 1 .. i
      BY <1>2
    <3>2. CASE i \in 1 .. LastIndex(f) /\ log'[f][i] = log[f][i]
      <4>1. log[f][i].term <= term[f] /\ log[f][i].term \in Nat
        BY <1>0, <3>2, NodeTypes DEF TermsKnown
      <4> QED
        BY <1>1, <1>4, <1>5, <2>2, <3>2, <4>1
    <3>3. CASE i \in 1 .. LastIndex(l) /\ log'[f][i] = log[l][i]
      BY <1>0, <1>4, <2>2, <3>3 DEF TermsKnown
    <3> QED
      BY <1>2, <2>2, <3>1, <3>2, <3>3
  <2> QED
    BY <2>1, <2>2
<1>10. LeaderOwn'
  <2> SUFFICES ASSUME NEW r \in Nodes, role'[r] = "leader"
               PROVE  Has(r, LastIndex(r), term[r])'
    BY DEF LeaderOwn
  <2>1. r # f /\ role[r] = "leader"
    BY <1>4
  <2>2. log'[r] = log[r] /\ LastIndex(r)' = LastIndex(r) /\ term'[r] = term[r]
    BY <1>2, <1>3, <1>4, <2>1
  <2>3. Has(r, LastIndex(r), term[r])
    BY <1>0, <2>1 DEF LeaderOwn
  <2> QED
    BY <2>2, <2>3 DEF Has
<1>11. /\ MatchOK'
       /\ \A o \in Nodes : o # f /\ o # l => match'[o] = match[o]
       /\ \A m \in Nodes : m # f => match'[l][m] = match[l][m]
       /\ \A i : match'[l][f] >= i => match[l][f] >= i \/ k >= i
  <2>1. LastIndex(l)' = LastIndex(l)
    BY <1>1, <1>3
  <2> QED
    BY <1>0, <1>1, <1>2, <1>3, <2>1, SendMatch
<1>12. AcksOK'
  <2> SUFFICES ASSUME NEW r \in Nodes, role'[r] = "leader", NEW i \in 1 .. LastIndex(r)',
                      log'[r][i].term = term'[r], ~ Blocked(r, i)'
               PROVE  ~ Lost(i, term[r])' /\ \A m \in Acked(r, i)' : Has(m, i, term[r])'
    BY DEF AcksOK
  <2>1. r # f /\ role[r] = "leader" /\ term'[r] = term[r] /\ log'[r] = log[r]
        /\ i \in 1 .. LastIndex(r) /\ term[r] \in Nat
    BY <1>2, <1>3, <1>4, <1>5
  <2>2. ASSUME NEW m \in voters, m \in Acked(r, i)'
        PROVE  m \in Acked(r, i) \/ (m = f /\ r = l /\ k >= i)
    <3>0. m \in Nodes
      BY DEF Types
    <3>1. m = r \/ match'[r][m] >= i
      BY <2>2 DEF Acked
    <3>2. CASE m = r
      BY <3>2 DEF Acked
    <3>3. CASE m # r /\ r # l
      <4>1. match'[r] = match[r]
        BY <1>11, <2>1, <3>3
      <4> QED
        BY <3>1, <3>3, <4>1 DEF Acked
    <3>4. CASE m # r /\ r = l /\ m # f
      <4>1. match'[l][m] = match[l][m]
        BY <1>11, <3>0, <3>4
      <4> QED
        BY <3>1, <3>4, <4>1 DEF Acked
    <3>5. CASE m # r /\ r = l /\ m = f
      <4>1. match[l][f] >= i \/ k >= i
        BY <1>11, <3>1, <3>5
      <4> QED
        BY <3>5, <4>1 DEF Acked
    <3> QED
      BY <3>2, <3>3, <3>4, <3>5
  <2>3. ~ Blocked(r, i)
    <3> SUFFICES ASSUME Blocked(r, i) PROVE FALSE
      OBVIOUS
    <3>1. \A q \in voters : term[q] > term[r] /\ q \in Acked(r, i)' => q \in Acked(r, i)
      BY <1>1, <1>5, <2>1, <2>2
    <3>2. \A q \in voters : term[q] <= term'[q]
      BY <1>5 DEF Types
    <3> QED
      BY <1>1, <2>1, <3>1, <3>2, BlockedStays
  <2>4. ~ Lost(i, term[r]) /\ \A m \in Acked(r, i) : Has(m, i, term[r])
    BY <1>0, <2>1, <2>3 DEF AcksOK
  <2>5. ~ Lost(i, term[r])'
    BY <1>8, <2>1, <2>4
  <2>6. ASSUME NEW m \in Acked(r, i)' PROVE Has(m, i, term[r])'
    <3>0. m \in voters /\ m \in Nodes
      BY <1>1, <2>6 DEF Acked, Types
    <3>1. CASE m \in Acked(r, i)
      <4>0. PICK t \in Nat : t = term[r]
        BY <2>1
      <4>1. Has(m, i, t) /\ ~ Lost(i, t)
        BY <2>4, <3>1, <4>0
      <4>2. Has(m, i, t)'
        BY <3>0, <4>1, SendKeeps
      <4> QED
        BY <2>1, <4>0, <4>2
    <3>2. CASE m = f /\ r = l /\ k >= i
      <4>1. i \in 1 .. k /\ i \in 1 .. LastIndex(f)'
        BY <1>2, <2>1, <3>2
      <4>2. log'[f][i] = log[l][i] /\ log[l][i].term = term[l]
        BY <1>2, <2>1, <3>2, <4>1
      <4> QED
        BY <2>1, <3>2, <4>1, <4>2 DEF Has
    <3> QED
      BY <2>2, <2>6, <3>0, <3>1, <3>2
  <2> QED
    BY <2>5, <2>6
<1>13. ChosenStays
  <2> SUFFICES ASSUME NEW j \in Nat, NEW t \in Nat, Chosen(j, t)
               PROVE  /\ Chosen(j, t)'
                      /\ \A q \in Nodes : Has(q, j, t) =>
                            Has(q, j, t)' /\ \A i \in 1 .. j : log'[q][i] = log[q][i]
    BY DEF ChosenStays
  <2>1. ~ Lost(j, t) /\ ~ Lost(j, t)'
    BY <1>8 DEF Chosen
  <2>2. \A q \in Nodes : Has(q, j, t) =>
           Has(q, j, t)' /\ \A i \in 1 .. j : log'[q][i] = log[q][i]
    BY <2>1, SendKeeps
  <2>3. \A q \in voters : Has(q, j, t) => Has(q, j, t)'
    BY <2>2 DEF Types
  <2> QED
    BY <1>1, <2>1, <2>2, <2>3, ChosenKept
<1> QED
  BY <1>7, <1>9, <1>10, <1>11, <1>12, <1>13 DEF RaftOK

\* An append of one entry takes no entry away.
LEMMA HasAppends ==
    ASSUME Types, NEW l \in Nodes, NEW e \in Entry, Appends(l, e)
    PROVE  /\ \A n \in Nodes : \A i, t : Has(n, i, t) =>
                 Has(n, i, t)' /\ \A j \in 1 .. i : log'[n][j] = log[n][j]
           /\ LastIndex(l)' = LastIndex(l) + 1 /\ Has(l, LastIndex(l), e.term)'
           /\ \A n \in Nodes : \A i, t : Has(n, i, t)' =>
                 \/ Has(n, i, t)
                 \/ n = l /\ i = LastIndex(l) + 1 /\ t = e.term
<1>1. /\ \A n \in Nodes : LastIndex(n)' \in Nat /\ LastIndex(n) <= LastIndex(n)'
      /\ LastIndex(l)' = LastIndex(l) + 1
      /\ \A n \in Nodes : \A i \in 1 .. LastIndex(n) : log'[n][i] = log[n][i]
      /\ log'[l][LastIndex(l) + 1] = e
      /\ \A n \in Nodes : \A i \in 1 .. LastIndex(n)' :
            \/ i \in 1 .. LastIndex(n) /\ log'[n][i] = log[n][i]
            \/ n = l /\ i = LastIndex(l) + 1 /\ log'[n][i] = e
  BY AppendedLogs
<1>2. \A n \in Nodes : LastIndex(n) \in Nat
  BY NodeTypes
<1>3. ASSUME NEW n \in Nodes, NEW i, NEW t, Has(n, i, t)
      PROVE  Has(n, i, t)' /\ \A j \in 1 .. i : log'[n][j] = log[n][j]
  <2>1. i \in 1 .. LastIndex(n) /\ log[n][i].term = t
    BY <1>3 DEF Has
  <2>2. i \in 1 .. LastIndex(n)' /\ \A j \in 1 .. i : j \in 1 .. LastIndex(n)
    BY <1>1, <1>2, <2>1
  <2> QED
    BY <1>1, <2>1, <2>2 DEF Has
<1>4. Has(l, LastIndex(l), e.term)'
  <2>1. LastIndex(l)' \in 1 .. LastIndex(l)'
    BY <1>1, <1>2
  <2>2. log'[l][LastIndex(l) + 1].term = e.term
    BY <1>1
  <2> QED
    BY <1>1, <2>1, <2>2 DEF Has
<1>5. ASSUME NEW n \in Nodes, NEW i, NEW t, Has(n, i, t)'
      PROVE  \/ Has(n, i, t)
             \/ n = l /\ i = LastIndex(l) + 1 /\ t = e.term
  BY <1>1, <1>5 DEF Has
<1> QED
  BY <1>1, <1>3, <1>4, <1>5

\* A leader appends an entry of its term.  What other leaders count is not
\* concerned; the new entry is lost already if a newer term was reached.
LEMMA RaftAppends ==
    ASSUME Types, Types', LogsOK, RaftOK, NEW l \in Nodes, NEW e \in Entry,
           role[l] = "leader", e.term = term[l], Appends(l, e),
           UNCHANGED <<voters, term, role, match>>
    PROVE  RaftOK' /\ ChosenStays
<1>0. /\ OrderOK /\ TermsKnown /\ LeaderOwn /\ MatchOK /\ AcksOK
      /\ LeaderHasAll /\ TermsContiguous /\ OneLeaderPerTerm /\ TermsReached
  BY DEF RaftOK, LogsOK, OrderOK
<1>1. /\ \A n \in Nodes : \A i, t : Has(n, i, t) =>
            Has(n, i, t)' /\ \A j \in 1 .. i : log'[n][j] = log[n][j]
      /\ LastIndex(l)' = LastIndex(l) + 1 /\ Has(l, LastIndex(l), e.term)'
      /\ \A n \in Nodes : \A i, t : Has(n, i, t)' =>
            \/ Has(n, i, t)
            \/ n = l /\ i = LastIndex(l) + 1 /\ t = e.term
  BY HasAppends
<1>2. \A n \in Nodes : /\ LastIndex(n) \in Nat /\ term[n] \in Nat
                       /\ n # l => LastIndex(n)' = LastIndex(n)
  <2>1. \A n \in Nodes : n # l => log'[n] = log[n]
    BY DEF Appends, Types
  <2> QED
    BY <2>1, NodeTypes DEF LastIndex
<1>3. OrderOK'
  <2>1. \A m \in Nodes : \A i \in 1 .. LastIndex(m) :
           log[m][i].term = e.term => Has(l, i, e.term)
    BY <1>0, LeaderHas DEF Has
  <2>2. \A i \in 1 .. LastIndex(l) : log[l][i].term <= e.term
    BY <1>0 DEF TermsKnown
  <2> QED
    BY <1>0, <2>1, <2>2, OrderAppends
<1>4. TermsKnown'
  <2> SUFFICES ASSUME NEW n \in Nodes, NEW i \in 1 .. LastIndex(n)'
               PROVE  log'[n][i].term <= term'[n]
    BY DEF TermsKnown
  <2>1. PICK t : t = log'[n][i].term
    OBVIOUS
  <2>2. Has(n, i, t)'
    BY <2>1 DEF Has
  <2>3. CASE Has(n, i, t)
    BY <1>0, <2>1, <2>3 DEF TermsKnown, Has
  <2>4. CASE n = l /\ t = e.term
    BY <1>2, <2>1, <2>4
  <2> QED
    BY <1>1, <2>2, <2>3, <2>4
<1>5. LeaderOwn'
  <2> SUFFICES ASSUME NEW r \in Nodes, role'[r] = "leader"
               PROVE  Has(r, LastIndex(r), term[r])'
    BY DEF LeaderOwn
  <2>1. CASE r = l
    BY <1>1, <2>1
  <2>2. CASE r # l
    <3>1. Has(r, LastIndex(r), term[r])
      BY <1>0 DEF LeaderOwn
    <3>2. LastIndex(r)' = LastIndex(r) /\ log'[r] = log[r]
      BY <1>2, <2>2 DEF Appends, Types
    <3> QED
      BY <3>1, <3>2 DEF Has
  <2> QED
    BY <2>1, <2>2
<1>6. MatchOK'
  <2> SUFFICES ASSUME NEW r \in Nodes, NEW m \in Nodes, role[r] = "leader"
               PROVE  match[r][m] <= LastIndex(r)'
    BY <1>0 DEF MatchOK
  <2>1. match[r][m] <= LastIndex(r) /\ match[r][m] \in Nat
    BY <1>0 DEF MatchOK
  <2> QED
    BY <1>1, <1>2, <2>1
<1>7. ASSUME NEW i, NEW t \in Nat, ~ Lost(i, t) PROVE ~ Lost(i, t)'
  <2> SUFFICES ASSUME NEW m \in Nodes, NEW k \in 1 .. LastIndex(m)', log'[m][k].term > t,
                      ~ Has(m, i, t)'
               PROVE  FALSE
    BY DEF Lost
  <2>1. ~ Has(m, i, t)
    BY <1>1
  <2>2. PICK u : u = log'[m][k].term
    OBVIOUS
  <2>3. Has(m, k, u)'
    BY <2>2 DEF Has
  <2>4. CASE Has(m, k, u)
    BY <1>7, <2>1, <2>2, <2>4 DEF Lost, Has
  <2>5. CASE m = l /\ u = e.term
    <3>1. Has(l, LastIndex(l), u)
      BY <1>0, <2>5 DEF LeaderOwn
    <3> QED
      BY <1>7, <2>1, <2>2, <2>5, <3>1 DEF Lost, Has
  <2> QED
    BY <1>1, <2>3, <2>4, <2>5
<1>8. AcksOK'
  <2> SUFFICES ASSUME NEW r \in Nodes, role[r] = "leader", NEW i \in 1 .. LastIndex(r)',
                      log'[r][i].term = term[r], ~ Blocked(r, i)'
               PROVE  ~ Lost(i, term[r])' /\ \A m \in Acked(r, i)' : Has(m, i, term[r])'
    BY DEF AcksOK
  <2>0. PICK t \in Nat : t = term[r] /\ t = term'[r]
    BY <1>2
  <2>1. Acked(r, i)' = Acked(r, i)
    BY DEF Acked
  <2>2. ~ Blocked(r, i)
    BY <2>1 DEF Blocked, Majority
  <2>3. Has(r, i, t)'
    BY <2>0 DEF Has
  <2>4. CASE Has(r, i, t)
    <3>1. ~ Lost(i, t) /\ \A m \in Acked(r, i) : Has(m, i, t)
      BY <1>0, <2>0, <2>2, <2>4 DEF AcksOK, Has
    <3>2. \A m \in Acked(r, i) : m \in Nodes
      BY DEF Acked, Types
    <3> QED
      BY <1>1, <1>7, <2>0, <2>1, <3>1, <3>2
  <2>5. CASE r = l /\ i = LastIndex(l) + 1
    <3>1. \A m \in Acked(r, i) : m = l
      <4> SUFFICES ASSUME NEW m \in voters, match[l][m] >= i PROVE FALSE
        BY <2>5 DEF Acked
      <4>1. m \in Nodes
        BY DEF Types
      <4>2. match[l][m] <= LastIndex(l) /\ match[l][m] \in Nat
        BY <1>0, <4>1 DEF MatchOK
      <4> QED
        BY <1>2, <2>5, <4>2
    <3>2. ~ Lost(i, t)'
      <4> SUFFICES ASSUME Lost(i, t)' PROVE FALSE
        OBVIOUS
      <4>1. Lost(i, t)
        BY <1>7
      <4>2. PICK m \in Nodes : \E k \in 1 .. LastIndex(m) : log[m][k].term > t
        BY <4>1 DEF Lost
      <4>3. PICK k \in 1 .. LastIndex(m) : log[m][k].term > t
        BY <4>2
      <4>4. Reached(log[m][k].term) /\ log[m][k].term \in Nat
        BY <1>0, NodeTypes DEF TermsReached
      <4> DEFINE A == {q \in voters : term[q] >= log[m][k].term}
                 B == {q \in voters : term[q] > term[r] /\ q \notin Acked(r, i)}
      <4>5. \A q \in voters : term[q] \in Nat
        BY <1>2 DEF Types
      <4>6. A \subseteq B
        <5> SUFFICES ASSUME NEW q \in voters, term[q] >= log[m][k].term
                     PROVE  term[q] > term[r] /\ q \notin Acked(r, i)
          OBVIOUS
        <5>1. term[q] > t
          BY <4>3, <4>4, <4>5
        <5> QED
          BY <2>0, <2>5, <3>1, <4>5, <5>1
      <4>7. Majority(A) /\ A \subseteq voters /\ B \subseteq voters
        BY <4>4 DEF Reached
      <4>8. Majority(B)
        <5> HIDE DEF A, B
        <5> QED
          BY <4>6, <4>7, MajorityGrows
      <4> QED
        BY <2>2, <4>8 DEF Blocked
    <3> QED
      BY <2>0, <2>1, <2>3, <2>5, <3>1, <3>2
  <2> QED
    BY <1>1, <2>3, <2>4, <2>5
<1>9. ChosenStays
  <2> SUFFICES ASSUME NEW j \in Nat, NEW t \in Nat, Chosen(j, t)
               PROVE  /\ Chosen(j, t)'
                      /\ \A q \in Nodes : Has(q, j, t) =>
                            Has(q, j, t)' /\ \A i \in 1 .. j : log'[q][i] = log[q][i]
    BY DEF ChosenStays
  <2>1. ~ Lost(j, t)'
    BY <1>7 DEF Chosen
  <2>2. \A q \in voters : Has(q, j, t) => Has(q, j, t)'
    BY <1>1 DEF Types
  <2> QED
    BY <1>1, <2>1, <2>2, ChosenKept
<1> QED
  BY <1>3, <1>4, <1>5, <1>6, <1>8, <1>9 DEF RaftOK

\* An election: a voter of the winner's majority that counts for an older
\* leader's entry has the entry, so the winner has it; without such a voter
\* the majority itself keeps the older leader from committing it.
LEMMA RaftElects ==
    ASSUME Types, Types', LogsOK, RaftOK,
           NEW n \in voters, NEW Q \in Quorums, NEW t \in 1 .. MaxTerm, Elect(n, Q, t)
    PROVE  RaftOK' /\ ChosenStays
<1>0. /\ OrderOK /\ TermsKnown /\ LeaderOwn /\ MatchOK /\ AcksOK /\ TermsReached
  BY DEF RaftOK, LogsOK
<1> DEFINE e == [term |-> t, call |-> NoCall, id |-> 0]
<1>1. /\ n \in Nodes /\ n \in Q /\ Q \subseteq voters /\ Majority(Q) /\ t \in Nat
      /\ \A q \in Q : term[q] < t /\ term'[q] = t
      /\ \A q \in Nodes \ Q : term'[q] = term[q]
      /\ \A q \in Nodes : role'[q] = "leader" => q = n \/ (role[q] = "leader" /\ q \notin Q)
      /\ voters' = voters
      /\ e \in Entry /\ Appends(n, e) /\ e.term = t
  BY ElectTerms
<1> HIDE DEF e
<1>2. /\ \A m \in Nodes : \A i \in 1 .. LastIndex(m) : log[m][i].term < t
      /\ \A l \in Nodes : role[l] = "leader" => term[l] < t
  BY <1>0, ElectFresh
<1>3. /\ \A m \in Nodes : \A i, u : Has(m, i, u) =>
            Has(m, i, u)' /\ \A j \in 1 .. i : log'[m][j] = log[m][j]
      /\ LastIndex(n)' = LastIndex(n) + 1 /\ Has(n, LastIndex(n), e.term)'
      /\ \A m \in Nodes : \A i, u : Has(m, i, u)' =>
            \/ Has(m, i, u)
            \/ m = n /\ i = LastIndex(n) + 1 /\ u = e.term
  BY <1>1, HasAppends
<1>4. \A m \in Nodes : /\ LastIndex(m) \in Nat /\ term[m] \in Nat /\ term'[m] \in Nat
                       /\ m # n => LastIndex(m)' = LastIndex(m) /\ log'[m] = log[m]
  <2>1. \A m \in Nodes : m # n => log'[m] = log[m]
    BY <1>1 DEF Appends, Types
  <2>2. \A m \in Nodes : term'[m] \in Nat
    BY ZoneAssumption DEF Types
  <2> QED
    BY <2>1, <2>2, NodeTypes DEF LastIndex
<1>5. \A m \in Nodes : term[m] <= term'[m]
  <2> TAKE m \in Nodes
  <2>1. CASE m \in Q
    BY <1>1, <1>4, <2>1
  <2>2. CASE m \notin Q
    BY <1>1, <1>4, <2>2
  <2> QED
    BY <2>1, <2>2
<1>6. OrderOK'
  <2>1. \A m \in Nodes : \A i \in 1 .. LastIndex(m) :
           log[m][i].term = e.term => Has(n, i, e.term)
    BY <1>1, <1>2
  <2>2. \A i \in 1 .. LastIndex(n) : log[n][i].term <= e.term
    <3> TAKE i \in 1 .. LastIndex(n)
    <3>1. log[n][i].term \in Nat /\ log[n][i].term < t
      BY <1>1, <1>2, NodeTypes
    <3> QED
      BY <1>1, <3>1
  <2> QED
    BY <1>0, <1>1, <2>1, <2>2, OrderAppends
<1>7. TermsKnown'
  <2> SUFFICES ASSUME NEW m \in Nodes, NEW i \in 1 .. LastIndex(m)'
               PROVE  log'[m][i].term <= term'[m]
    BY DEF TermsKnown
  <2>1. PICK u : u = log'[m][i].term
    OBVIOUS
  <2>2. Has(m, i, u)'
    BY <2>1 DEF Has
  <2>3. CASE Has(m, i, u)
    <3>1. u <= term[m] /\ u \in Nat
      BY <1>0, <2>3, HasTypes DEF TermsKnown
    <3> QED
      BY <1>4, <1>5, <2>1, <3>1
  <2>4. CASE m = n /\ u = e.term
    BY <1>1, <2>1, <2>4
  <2> QED
    BY <1>3, <2>2, <2>3, <2>4
<1>8. LeaderOwn'
  <2> SUFFICES ASSUME NEW r \in Nodes, role'[r] = "leader"
               PROVE  Has(r, LastIndex(r), term[r])'
    BY DEF LeaderOwn
  <2>1. CASE r = n
    BY <1>1, <1>3, <2>1
  <2>2. CASE r # n
    <3>1. role[r] = "leader" /\ term'[r] = term[r]
      BY <1>1, <2>2
    <3>2. Has(r, LastIndex(r), term[r])
      BY <1>0, <3>1 DEF LeaderOwn
    <3>3. LastIndex(r)' = LastIndex(r) /\ log'[r] = log[r]
      BY <1>4, <2>2
    <3> QED
      BY <3>1, <3>2, <3>3 DEF Has
  <2> QED
    BY <2>1, <2>2
<1>9. /\ match' \in [Nodes -> [Nodes -> Nat]]
      /\ \A q \in Nodes : match'[q] = IF q \in Q THEN NoMatch ELSE match[q]
      /\ NoMatch \in [Nodes -> Nat] /\ \A m \in Nodes : NoMatch[m] = 0
  <2>1. NoMatch \in [Nodes -> Nat] /\ \A m \in Nodes : NoMatch[m] = 0
    BY DEF NoMatch
  <2>2. match' = [q \in Nodes |-> IF q \in Q THEN NoMatch ELSE match[q]]
    BY DEF Elect
  <2>3. match \in [Nodes -> [Nodes -> Nat]]
    BY <1>0 DEF MatchOK
  <2> QED
    BY <2>1, <2>2, <2>3
<1>10. MatchOK'
  <2> SUFFICES ASSUME NEW r \in Nodes, NEW m \in Nodes, role'[r] = "leader"
               PROVE  match'[r][m] <= LastIndex(r)'
    BY <1>9 DEF MatchOK
  <2>1. CASE r = n
    <3>1. match'[r][m] = 0
      BY <1>1, <1>9, <2>1
    <3> QED
      BY <1>3, <1>4, <2>1, <3>1
  <2>2. CASE r # n
    <3>1. role[r] = "leader" /\ match'[r] = match[r] /\ LastIndex(r)' = LastIndex(r)
      BY <1>1, <1>4, <1>9, <2>2
    <3> QED
      BY <1>0, <3>1 DEF MatchOK
  <2> QED
    BY <2>1, <2>2
<1>11. ASSUME NEW i, NEW u \in Nat, ~ Lost(i, u), u >= t \/ Has(n, i, u) PROVE ~ Lost(i, u)'
  <2> SUFFICES ASSUME NEW m \in Nodes, NEW k \in 1 .. LastIndex(m)', log'[m][k].term > u,
                      ~ Has(m, i, u)'
               PROVE  FALSE
    BY DEF Lost
  <2>1. ~ Has(m, i, u)
    BY <1>3
  <2>2. PICK x : x = log'[m][k].term
    OBVIOUS
  <2>3. Has(m, k, x)'
    BY <2>2 DEF Has
  <2>4. CASE Has(m, k, x)
    BY <1>11, <2>1, <2>2, <2>4 DEF Lost, Has
  <2>5. CASE m = n /\ x = e.term
    BY <1>1, <1>11, <2>1, <2>2, <2>5
  <2> QED
    BY <1>3, <2>3, <2>4, <2>5
<1>12. AcksOK'
  <2> SUFFICES ASSUME NEW r \in Nodes, role'[r] = "leader", NEW i \in 1 .. LastIndex(r)',
                      log'[r][i].term = term'[r], ~ Blocked(r, i)'
               PROVE  ~ Lost(i, term[r])' /\ \A m \in Acked(r, i)' : Has(m, i, term[r])'
    BY DEF AcksOK
  <2>1. CASE r = n
    <3>0. term'[n] = t
      BY <1>1
    <3>1. Has(n, i, t)' /\ term'[n] = t
      BY <2>1, <3>0 DEF Has
    <3>2. ~ Has(n, i, t)
      <4>1. i \in 1 .. LastIndex(n) => log[n][i].term < t /\ log[n][i].term \in Nat
        BY <1>1, <1>2, NodeTypes
      <4> QED
        BY <1>1, <4>1 DEF Has
    <3>3. i = LastIndex(n) + 1
      BY <1>1, <1>3, <3>1, <3>2
    <3>4. \A m \in Acked(n, i)' : m = n
      <4> SUFFICES ASSUME NEW m \in voters, match'[n][m] >= i PROVE FALSE
        BY <1>1 DEF Acked
      <4>1. m \in Nodes
        BY DEF Types
      <4>2. match'[n][m] = 0
        BY <1>1, <1>9, <4>1
      <4> QED
        BY <1>1, <1>4, <3>3, <4>2
    <3>5. ~ Lost(i, t)
      <4> SUFFICES ASSUME NEW m \in Nodes, NEW k \in 1 .. LastIndex(m), log[m][k].term > t
                   PROVE  FALSE
        BY DEF Lost
      <4>1. log[m][k].term < t /\ log[m][k].term \in Nat
        BY <1>2, NodeTypes
      <4> QED
        BY <1>1, <4>1
    <3>6. ~ Lost(i, t)'
      BY <1>1, <1>11, <3>5
    <3> QED
      BY <2>1, <3>1, <3>4, <3>6
  <2>2. CASE r # n
    <3>1. /\ role[r] = "leader" /\ r \notin Q /\ term'[r] = term[r] /\ term[r] < t
          /\ log'[r] = log[r] /\ LastIndex(r)' = LastIndex(r) /\ match'[r] = match[r]
      BY <1>1, <1>2, <1>4, <1>9, <2>2
    <3>2. PICK u \in Nat : u = term[r] /\ u = term'[r]
      BY <1>4, <3>1
    <3>3. Acked(r, i)' = Acked(r, i)
      BY <1>1, <3>1 DEF Acked
    <3>4. ~ Blocked(r, i)
      <4> SUFFICES ASSUME Blocked(r, i) PROVE FALSE
        OBVIOUS
      <4>1. \A q \in voters : term[q] <= term'[q]
        BY <1>5 DEF Types
      <4>2. \A q \in voters : term[q] > term[r] /\ q \in Acked(r, i)' => q \in Acked(r, i)
        BY <3>3
      <4> QED
        BY <1>1, <3>1, <4>1, <4>2, BlockedStays
    <3>5. ~ Lost(i, u) /\ \A m \in Acked(r, i) : Has(m, i, u)
      BY <1>0, <3>1, <3>2, <3>4 DEF AcksOK
    <3>6. \E q \in Q : q \in Acked(r, i)
      <4> SUFFICES ASSUME \A q \in Q : q \notin Acked(r, i) PROVE FALSE
        OBVIOUS
      <4> DEFINE B == {q \in voters : term'[q] > term'[r] /\ q \notin Acked(r, i)'}
      <4>1. Q \subseteq B
        BY <1>1, <1>4, <3>1, <3>3
      <4>2. B \subseteq voters
        OBVIOUS
      <4>3. Majority(B)
        <5> HIDE DEF B
        <5> QED
          BY <1>1, <4>1, <4>2, MajorityGrows
      <4> QED
        BY <1>1, <4>3 DEF Blocked, Majority
    <3>7. PICK q \in Q : q \in Acked(r, i)
      BY <3>6
    <3>8. Has(n, i, u)
      BY <1>0, <3>5, <3>7, ElectHas
    <3>9. ~ Lost(i, u)'
      BY <1>11, <3>5, <3>8
    <3>10. \A m \in Acked(r, i) : Has(m, i, u)'
      <4>1. \A m \in Acked(r, i) : m \in Nodes
        BY DEF Acked, Types
      <4> QED
        BY <1>3, <3>5, <4>1
    <3> QED
      BY <3>2, <3>3, <3>9, <3>10
  <2> QED
    BY <2>1, <2>2
<1>13. ChosenStays
  <2> SUFFICES ASSUME NEW j \in Nat, NEW u \in Nat, Chosen(j, u)
               PROVE  /\ Chosen(j, u)'
                      /\ \A q \in Nodes : Has(q, j, u) =>
                            Has(q, j, u)' /\ \A i \in 1 .. j : log'[q][i] = log[q][i]
    BY DEF ChosenStays
  <2> DEFINE A == {m \in voters : Has(m, j, u)}
  <2>1. Majority(A) /\ A \subseteq voters /\ ~ Lost(j, u)
    BY DEF Chosen
  <2>2. PICK q \in voters : q \in A /\ q \in Q
    <3> HIDE DEF A
    <3> QED
      BY <1>1, <2>1, MajoritiesMeet
  <2>3. Has(n, j, u)
    BY <1>0, <2>1, <2>2, ElectHas
  <2>4. ~ Lost(j, u)'
    BY <1>11, <2>1, <2>3
  <2>5. \A o \in voters : Has(o, j, u) => Has(o, j, u)'
    BY <1>3 DEF Types
  <2> QED
    BY <1>1, <1>3, <2>4, <2>5, ChosenKept
<1> QED
  BY <1>6, <1>7, <1>8, <1>10, <1>12, <1>13 DEF RaftOK

\* The chosen entry of term t at index j, in the log of q, covers the first c
\* entries of n.  A leader of that term knows them to be committed.
Covers(q, j, t, n, c) ==
    /\ Chosen(j, t) /\ t <= term[n] /\ c <= j
    /\ \A i \in 1 .. c : log[n][i] = log[q][i]
    /\ \A l \in Nodes : role[l] = "leader" /\ term[l] = t => c <= commit[l]

\* The first c entries of n are chosen.
Safe(n, c) ==
    c > 0 => \E q \in Nodes : \E j \in 1 .. LastIndex(q) : Covers(q, j, log[q][j].term, n, c)

\* What a node knows to be committed, and what it applied, is chosen.
CommitsSafe == \A n \in Nodes : Safe(n, commit[n]) /\ Safe(n, last_applied[n])

\* Leaders are those of before, or of a term that no entry has.
LeadersAdvance ==
    \A l \in Nodes : role'[l] = "leader" =>
        \/ role[l] = "leader" /\ term'[l] = term[l] /\ commit[l] <= commit'[l]
        \/ \A m \in Nodes : \A i \in 1 .. LastIndex(m) : log[m][i].term # term'[l]

\* Fewer entries are safe, too.
LEMMA SafeDown ==
    ASSUME Types, NEW n \in Nodes, NEW c \in Nat, NEW d \in Nat, d <= c, Safe(n, c)
    PROVE  Safe(n, d)
<1> SUFFICES ASSUME d > 0
             PROVE  \E q \in Nodes : \E j \in 1 .. LastIndex(q) : Covers(q, j, log[q][j].term, n, d)
  BY DEF Safe
<1>1. PICK q \in Nodes : \E j \in 1 .. LastIndex(q) : Covers(q, j, log[q][j].term, n, c)
  BY DEF Safe
<1>2. PICK j \in 1 .. LastIndex(q) : Covers(q, j, log[q][j].term, n, c)
  BY <1>1
<1>3. PICK t : t = log[q][j].term
  OBVIOUS
<1>4. /\ Chosen(j, t) /\ t <= term[n] /\ c <= j
      /\ \A i \in 1 .. c : log[n][i] = log[q][i]
      /\ \A l \in Nodes : role[l] = "leader" /\ term[l] = t => c <= commit[l]
  BY <1>2, <1>3 DEF Covers
<1>5. j \in Nat /\ \A l \in Nodes : commit[l] \in Nat
  BY NodeTypes DEF Types
<1>6. d <= j
  BY <1>4, <1>5
<1>7. \A i \in 1 .. d : log[n][i] = log[q][i]
  BY <1>4
<1>8. \A l \in Nodes : role[l] = "leader" /\ term[l] = t => d <= commit[l]
  <2> TAKE l \in Nodes
  <2> HAVE role[l] = "leader" /\ term[l] = t
  <2>1. c <= commit[l] /\ commit[l] \in Nat
    BY <1>4, <1>5
  <2> QED
    BY <2>1
<1>9. Covers(q, j, t, n, d)
  BY <1>4, <1>6, <1>7, <1>8 DEF Covers
<1> QED
  BY <1>3, <1>9

\* What is chosen stays chosen, and what n knows of it.
LEMMA SafeStays ==
    ASSUME Types, Types', ChosenStays, LeadersAdvance,
           NEW n \in Nodes, NEW c \in Nat, Safe(n, c), term[n] <= term'[n],
           \A i \in 1 .. c : log'[n][i] = log[n][i]
    PROVE  Safe(n, c)'
<1> SUFFICES ASSUME c > 0
             PROVE  \E q \in Nodes : \E j \in 1 .. LastIndex(q)' :
                       Covers(q, j, log[q][j].term, n, c)'
  BY DEF Safe
<1>1. PICK q \in Nodes : \E j \in 1 .. LastIndex(q) : Covers(q, j, log[q][j].term, n, c)
  BY DEF Safe
<1>2. PICK j \in 1 .. LastIndex(q) : Covers(q, j, log[q][j].term, n, c)
  BY <1>1
<1>3. PICK t \in Nat : t = log[q][j].term
  BY NodeTypes
<1>4. /\ Chosen(j, t) /\ t <= term[n] /\ c <= j
      /\ \A i \in 1 .. c : log[n][i] = log[q][i]
      /\ \A l \in Nodes : role[l] = "leader" /\ term[l] = t => c <= commit[l]
  BY <1>2, <1>3 DEF Covers
<1>5. j \in Nat /\ Has(q, j, t)
  BY <1>3, NodeTypes DEF Has
<1>6. Chosen(j, t)' /\ Has(q, j, t)' /\ \A i \in 1 .. j : log'[q][i] = log[q][i]
  BY <1>4, <1>5 DEF ChosenStays
<1>7. j \in 1 .. LastIndex(q)' /\ log'[q][j].term = t
  BY <1>6 DEF Has
<1>8. t <= term'[n]
  <2>1. term[n] \in Nat /\ term'[n] \in Nat
    BY ZoneAssumption DEF Types
  <2> QED
    BY <1>4, <2>1
<1>9. \A i \in 1 .. c : log'[n][i] = log'[q][i]
  <2> TAKE i \in 1 .. c
  <2>1. i \in 1 .. j
    BY <1>4, <1>5
  <2> QED
    BY <1>4, <1>6, <2>1
<1>10. \A l \in Nodes : role'[l] = "leader" /\ term'[l] = t => c <= commit'[l]
  <2> TAKE l \in Nodes
  <2> HAVE role'[l] = "leader" /\ term'[l] = t
  <2>1. role[l] = "leader" /\ term'[l] = term[l] /\ commit[l] <= commit'[l]
    BY <1>3 DEF LeadersAdvance
  <2>2. c <= commit[l]
    BY <1>4, <2>1
  <2>3. commit[l] \in Nat /\ commit'[l] \in Nat
    BY DEF Types
  <2> QED
    BY <2>1, <2>2, <2>3
<1>11. Covers(q, j, t, n, c)'
  BY <1>4, <1>6, <1>8, <1>9, <1>10 DEF Covers
<1> QED
  BY <1>7, <1>11

\* What a node knew to be committed, or had applied, stays safe.
LEMMA CommitsStay ==
    ASSUME ZInv, Types', CommitsSafe, ChosenStays, LeadersAdvance,
           NEW n \in Nodes, KeepsLog(n), term[n] <= term'[n],
           NEW c \in Nat, c <= commit[n] \/ c <= last_applied[n]
    PROVE  Safe(n, c)'
<1>1. Types /\ IndexesOK(n)
  BY DEF ZInv, NodeOK
<1>2. /\ commit[n] \in Nat /\ last_applied[n] \in Nat /\ LastIndex(n) \in Nat
      /\ commit[n] <= LastIndex(n) /\ last_applied[n] <= LastIndex(n)
  BY <1>1, NodeTypes DEF Types, IndexesOK
<1>3. Safe(n, c)
  BY <1>1, <1>2, SafeDown DEF CommitsSafe
<1>4. \A i \in 1 .. c : log'[n][i] = log[n][i]
  <2> TAKE i \in 1 .. c
  <2>1. i \in 1 .. LastIndex(n) /\ (i <= commit[n] \/ i <= last_applied[n])
    BY <1>2
  <2> QED
    BY <2>1 DEF KeepsLog
<1> QED
  BY <1>1, <1>3, <1>4, SafeStays

\* So does the knowledge of a node whose indexes do not pass those of before.
LEMMA CommitsStayAll ==
    ASSUME ZInv, Types', CommitsSafe, ChosenStays, LeadersAdvance,
           NEW n \in Nodes, KeepsLog(n), term[n] <= term'[n],
           commit'[n] <= commit[n] \/ commit'[n] <= last_applied[n],
           last_applied'[n] <= commit[n] \/ last_applied'[n] <= last_applied[n]
    PROVE  Safe(n, commit[n])' /\ Safe(n, last_applied[n])'
<1>1. commit'[n] \in Nat /\ last_applied'[n] \in Nat
  BY DEF Types
<1>2. PICK c \in Nat : c = commit'[n]
  BY <1>1
<1>3. PICK d \in Nat : d = last_applied'[n]
  BY <1>1
<1>4. Safe(n, c)' /\ Safe(n, d)'
  BY <1>2, <1>3, CommitsStay
<1> QED
  BY <1>2, <1>3, <1>4

\* Every step without a stale tail keeps the raft part.
LEMMA NextRaft ==
    ASSUME ZInv, ZInv', RaftOK, Next, CleanTails
    PROVE  RaftOK' /\ ChosenStays
<1>0. Types /\ Types' /\ LogsOK /\ match \in [Nodes -> [Nodes -> Nat]]
  BY DEF ZInv, RaftOK, MatchOK
<1>1. ASSUME NEW n \in voters, NEW Q \in Quorums, NEW t \in 1 .. MaxTerm, Elect(n, Q, t)
      PROVE  RaftOK' /\ ChosenStays
  BY <1>0, <1>1, RaftElects
<1>2. ASSUME NEW l \in Nodes, NEW f \in Nodes, NEW k \in 0 .. LastIndex(l), NEW p \in 0 .. k,
             SendAppend(l, f, p, k)
      PROVE  RaftOK' /\ ChosenStays
  BY <1>0, <1>2, RaftSends DEF CleanTails
<1>3. ASSUME UNCHANGED <<voters, log, term, role, match>>
      PROVE  RaftOK' /\ ChosenStays
  BY <1>0, <1>3, RaftStays
<1>4. ASSUME NEW c \in Calls, NEW n \in Nodes, NEW l \in Nodes \cup {NoNode},
             DriverPropose(c, n, l)
      PROVE  RaftOK' /\ ChosenStays
  <2>1. UNCHANGED <<voters, term, role, match>>
    BY <1>4 DEF DriverPropose
  <2>2. CASE log' = log
    BY <1>3, <2>1, <2>2
  <2>3. CASE log' # log
    <3> DEFINE e == [term |-> term[l], call |-> c, id |-> proposal_id[n]]
    <3>1. l \in Nodes /\ role[l] = "leader" /\ Appends(l, e) /\ e.term = term[l]
      BY <1>4, <2>3 DEF DriverPropose, Appends
    <3>2. e \in Entry
      BY <1>0, <3>1, NodeTypes DEF Entry, Types
    <3> HIDE DEF e
    <3> QED
      BY <1>0, <2>1, <3>1, <3>2, RaftAppends
  <2> QED
    BY <2>2, <2>3
<1>5. ASSUME NEW n \in Nodes, Restart(n)
      PROVE  RaftOK' /\ ChosenStays
  <2>1. /\ role' = [role EXCEPT ![n] = "follower"]
        /\ match' = [match EXCEPT ![n] = NoMatch]
        /\ UNCHANGED <<voters, log, term>>
    BY <1>5 DEF Restart, disk
  <2>2. match' \in [Nodes -> [Nodes -> Nat]]
    BY <1>0, <2>1 DEF NoMatch
  <2>3. \A l \in Nodes : role'[l] = "leader" => role[l] = "leader" /\ match'[l] = match[l]
    BY <1>0, <2>1 DEF Types
  <2> QED
    BY <2>1, <2>2, <2>3, RaftStays
<1>6. ASSUME NEW l \in Nodes, NEW i \in 1 .. LastIndex(l), AdvanceCommit(l, i)
      PROVE  RaftOK' /\ ChosenStays
  BY <1>3, <1>6 DEF AdvanceCommit
<1>7. ASSUME NEW c \in Calls, NEW n \in Nodes, Submit(c, n) \/ DriverRefuse(c, n)
      PROVE  RaftOK' /\ ChosenStays
  BY <1>3, <1>7 DEF Submit, DriverRefuse, raft
<1>8. ASSUME NEW n \in Nodes, NEW l \in Nodes, Apply(n) \/ ReadIndex(n, l) \/ ResolveRead(n)
      PROVE  RaftOK' /\ ChosenStays
  BY <1>3, <1>8 DEF Apply, ReadIndex, ResolveRead, raft
<1> QED
  BY <1>1, <1>2, <1>4, <1>5, <1>6, <1>7, <1>8 DEF Next

\* An entry that a leader can commit is chosen.
LEMMA CommitChosen ==
    ASSUME ZInv, RaftOK, NEW l \in Nodes, NEW i \in 1 .. LastIndex(l), AdvanceCommit(l, i)
    PROVE  Has(l, i, term[l]) /\ Chosen(i, term[l])
<1>0. Types /\ AcksOK
  BY DEF ZInv, RaftOK
<1>1. /\ role[l] = "leader" /\ TermAt(l, i) = term[l]
      /\ Majority({m \in voters : m = l \/ match[l][m] >= i})
  BY DEF AdvanceCommit
<1>2. log[l][i].term = term[l] /\ Has(l, i, term[l])
  BY <1>1 DEF TermAt, Has
<1>3. Majority(Acked(l, i)) /\ Acked(l, i) \subseteq voters
  BY <1>1 DEF Acked
<1>4. ~ Blocked(l, i)
  <2> SUFFICES ASSUME Blocked(l, i) PROVE FALSE
    OBVIOUS
  <2> DEFINE B == {q \in voters : term[q] > term[l] /\ q \notin Acked(l, i)}
  <2>1. Majority(B) /\ B \subseteq voters
    BY DEF Blocked
  <2>2. PICK q \in voters : q \in Acked(l, i) /\ q \in B
    <3> HIDE DEF B
    <3> QED
      BY <1>0, <1>3, <2>1, MajoritiesMeet
  <2> QED
    BY <2>2
<1>5. ~ Lost(i, term[l]) /\ \A m \in Acked(l, i) : Has(m, i, term[l])
  BY <1>0, <1>1, <1>2, <1>4 DEF AcksOK
<1> DEFINE H == {m \in voters : Has(m, i, term[l])}
<1>6. Acked(l, i) \subseteq H /\ H \subseteq voters
  BY <1>3, <1>5
<1>7. Majority(H)
  <2> HIDE DEF H
  <2> QED
    BY <1>0, <1>3, <1>6, MajorityGrows
<1> QED
  BY <1>2, <1>5, <1>7 DEF Chosen

\* Every step without a stale tail keeps what nodes know to be committed safe.
LEMMA NextCommits ==
    ASSUME ZInv, ZInv', RaftOK, CommitsSafe, Next, CleanTails
    PROVE  CommitsSafe'
<1>0. /\ Types /\ Types' /\ LogsOK /\ OneLeaderPerTerm /\ TermsReached
      /\ \A n \in Nodes : IndexesOK(n)
  BY DEF ZInv, LogsOK, NodeOK
<1>1. ChosenStays
  BY NextRaft
<1>2. \A n \in Nodes : KeepsLog(n)
  BY NextKeepsLogs
<1>3. \A n \in Nodes : term[n] \in Nat /\ commit[n] \in Nat /\ last_applied[n] \in Nat
  BY <1>0, NodeTypes DEF Types
<1>4. ASSUME \A n \in Nodes : term[n] <= term'[n],
             LeadersAdvance, NEW n \in Nodes,
             commit'[n] <= commit[n] \/ commit'[n] <= last_applied[n],
             last_applied'[n] <= commit[n] \/ last_applied'[n] <= last_applied[n]
      PROVE  Safe(n, commit[n])' /\ Safe(n, last_applied[n])'
  BY <1>0, <1>1, <1>2, <1>4, CommitsStayAll
<1>5. ASSUME UNCHANGED <<term, role, commit, last_applied>>
      PROVE  CommitsSafe'
  <2>1. \A n \in Nodes : term[n] <= term'[n] /\ commit'[n] <= commit[n]
                         /\ last_applied'[n] <= last_applied[n]
    BY <1>3, <1>5
  <2>2. LeadersAdvance
    BY <1>3, <1>5 DEF LeadersAdvance
  <2> QED
    BY <1>4, <2>1, <2>2 DEF CommitsSafe
<1>6. ASSUME NEW n \in voters, NEW Q \in Quorums, NEW t \in 1 .. MaxTerm, Elect(n, Q, t)
      PROVE  CommitsSafe'
  <2>1. /\ n \in Nodes /\ n \in Q /\ t \in Nat
        /\ \A q \in Q : term[q] < t /\ term'[q] = t
        /\ \A q \in Nodes \ Q : term'[q] = term[q]
        /\ \A q \in Nodes : role'[q] = "leader" => q = n \/ (role[q] = "leader" /\ q \notin Q)
    BY <1>0, <1>6, ElectTerms
  <2>2. \A m \in Nodes : \A i \in 1 .. LastIndex(m) : log[m][i].term < t
    BY <1>0, <1>6, ElectFresh
  <2>3. UNCHANGED <<commit, last_applied>>
    BY <1>6 DEF Elect, machine
  <2>4. \A m \in Nodes : term[m] <= term'[m]
    <3> TAKE m \in Nodes
    <3>1. CASE m \in Q
      BY <1>3, <2>1, <3>1
    <3>2. CASE m \notin Q
      BY <1>3, <2>1, <3>2
    <3> QED
      BY <3>1, <3>2
  <2>5. LeadersAdvance
    <3> SUFFICES ASSUME NEW l \in Nodes, role'[l] = "leader"
                 PROVE  \/ role[l] = "leader" /\ term'[l] = term[l] /\ commit[l] <= commit'[l]
                        \/ \A m \in Nodes : \A i \in 1 .. LastIndex(m) :
                              log[m][i].term # term'[l]
      BY DEF LeadersAdvance
    <3>1. CASE l = n
      <4>1. ASSUME NEW m \in Nodes, NEW i \in 1 .. LastIndex(m)
            PROVE  log[m][i].term # term'[l]
        BY <1>0, <2>1, <2>2, <3>1, NodeTypes
      <4> QED
        BY <4>1
    <3>2. CASE l # n
      BY <1>3, <2>1, <2>3, <3>2
    <3> QED
      BY <3>1, <3>2
  <2>6. \A m \in Nodes : commit'[m] <= commit[m] /\ last_applied'[m] <= last_applied[m]
    BY <1>3, <2>3
  <2> QED
    BY <1>4, <2>4, <2>5, <2>6 DEF CommitsSafe
<1>7. ASSUME NEW l \in Nodes, NEW f \in Nodes, NEW k \in 0 .. LastIndex(l), NEW p \in 0 .. k,
             SendAppend(l, f, p, k)
      PROVE  CommitsSafe'
  <2> DEFINE seen == IF commit[l] < k THEN commit[l] ELSE k
             known == IF seen > commit[f] THEN seen ELSE commit[f]
  <2>1. /\ l # f /\ role[l] = "leader" /\ term[f] <= term[l]
        /\ term' = [term EXCEPT ![f] = term[l]]
        /\ role' = [role EXCEPT ![f] = "follower"]
        /\ commit' = [commit EXCEPT ![f] = known]
        /\ last_applied' = last_applied
    BY <1>7 DEF SendAppend, machine
  <2>2. /\ k \in Nat /\ \A m \in Nodes \ {f} : log'[m] = log[m]
        /\ \A i \in 1 .. k : log'[f][i] = log[l][i]
    <3>1. OrderOK /\ EntriesIdentical
      BY <1>0 DEF RaftOK, LogsOK
    <3> QED
      BY <1>0, <1>7, <3>1, SendLogs DEF CleanTails
  <2>3. /\ term'[f] = term[l] /\ role'[f] = "follower" /\ commit'[f] = known
        /\ \A m \in Nodes \ {f} : term'[m] = term[m] /\ role'[m] = role[m]
                                  /\ commit'[m] = commit[m]
    BY <1>0, <2>1 DEF Types
  <2>4. /\ seen \in Nat /\ seen <= k /\ seen <= commit[l]
        /\ known \in Nat /\ (known = seen \/ known = commit[f])
    BY <1>3, <2>2
  <2> HIDE DEF known, seen
  <2>5. \A m \in Nodes : term[m] <= term'[m]
    <3> TAKE m \in Nodes
    <3>1. CASE m = f
      BY <2>1, <2>3, <3>1
    <3>2. CASE m # f
      BY <1>3, <2>3, <3>2
    <3> QED
      BY <3>1, <3>2
  <2>6. LeadersAdvance
    BY <1>3, <2>3 DEF LeadersAdvance
  <2>7. ASSUME NEW m \in Nodes, m # f \/ known = commit[f]
        PROVE  Safe(m, commit[m])' /\ Safe(m, last_applied[m])'
    <3>1. commit'[m] <= commit[m] /\ last_applied'[m] <= last_applied[m]
      BY <1>3, <2>1, <2>3, <2>7
    <3> QED
      BY <1>4, <2>5, <2>6, <3>1
  <2>8. ASSUME known = seen PROVE Safe(f, commit[f])'
    <3>1. PICK c \in Nat : c = seen
      BY <2>4
    <3>2. Safe(l, c)'
      BY <1>0, <1>1, <1>2, <2>4, <2>5, <2>6, <3>1, CommitsStay
    <3>3. term'[f] = term'[l]
      BY <2>1, <2>3
    <3>4. \A i \in 1 .. c : log'[f][i] = log'[l][i]
      <4> TAKE i \in 1 .. c
      <4>1. i \in 1 .. k
        BY <2>2, <2>4, <3>1
      <4> QED
        BY <2>1, <2>2, <4>1
    <3>5. \A q, j, t : Covers(q, j, t, l, c)' => Covers(q, j, t, f, c)'
      BY <3>3, <3>4 DEF Covers
    <3>6. Safe(f, c)'
      <4> SUFFICES ASSUME c > 0
                   PROVE  \E q \in Nodes : \E j \in 1 .. LastIndex(q)' :
                             Covers(q, j, log[q][j].term, f, c)'
        BY DEF Safe
      <4>1. \E q \in Nodes : \E j \in 1 .. LastIndex(q)' : Covers(q, j, log[q][j].term, l, c)'
        BY <3>2 DEF Safe
      <4> QED
        BY <3>5, <4>1
    <3> QED
      BY <2>3, <2>8, <3>1, <3>6
  <2>9. Safe(f, last_applied[f])'
    <3>1. PICK c \in Nat : c = last_applied[f] /\ c = last_applied'[f]
      BY <1>3, <2>1
    <3>2. c <= last_applied[f]
      BY <3>1
    <3>3. Safe(f, c)'
      BY <1>0, <1>1, <1>2, <2>5, <2>6, <3>2, CommitsStay
    <3> QED
      BY <3>1, <3>3
  <2> QED
    BY <2>4, <2>7, <2>8, <2>9 DEF CommitsSafe
<1>8. ASSUME NEW l \in Nodes, NEW i \in 1 .. LastIndex(l), AdvanceCommit(l, i)
      PROVE  CommitsSafe'
  <2>1. /\ commit[l] < i /\ i <= LastIndex(l) /\ role[l] = "leader"
        /\ commit' = [commit EXCEPT ![l] = i]
        /\ UNCHANGED <<voters, log, term, role, last_applied>>
    BY <1>8 DEF AdvanceCommit, machine
  <2>2. commit'[l] = i /\ \A m \in Nodes \ {l} : commit'[m] = commit[m]
    BY <1>0, <2>1 DEF Types
  <2>3. i \in Nat /\ i > 0
    BY <1>0, NodeTypes
  <2>4. \A m \in Nodes : term[m] <= term'[m]
    BY <1>3, <2>1
  <2>5. LeadersAdvance
    <3>1. \A m \in Nodes : commit[m] <= commit'[m]
      BY <1>3, <2>1, <2>2, <2>3
    <3> QED
      BY <2>1, <3>1 DEF LeadersAdvance
  <2>6. ASSUME NEW m \in Nodes, m # l PROVE Safe(m, commit[m])' /\ Safe(m, last_applied[m])'
    <3>1. commit'[m] <= commit[m] /\ last_applied'[m] <= last_applied[m]
      BY <1>3, <2>1, <2>2, <2>6
    <3> QED
      BY <1>4, <2>4, <2>5, <3>1
  <2>7. Safe(l, last_applied[l])'
    <3>1. PICK c \in Nat : c = last_applied[l] /\ c = last_applied'[l]
      BY <1>3, <2>1
    <3>2. c <= last_applied[l]
      BY <3>1
    <3>3. Safe(l, c)'
      BY <1>0, <1>1, <1>2, <2>4, <2>5, <3>2, CommitsStay
    <3> QED
      BY <3>1, <3>3
  <2>8. Safe(l, commit[l])'
    <3>1. PICK t \in Nat : t = term[l] /\ t = term'[l]
      BY <1>3, <2>1
    <3>2. Has(l, i, t) /\ Chosen(i, t)
      BY <1>8, <3>1, CommitChosen
    <3>3. Chosen(i, t)' /\ Has(l, i, t)'
      BY <1>1, <2>3, <3>2 DEF ChosenStays
    <3>4. \A m \in Nodes : role'[m] = "leader" /\ term'[m] = t => i <= commit'[m]
      <4> TAKE m \in Nodes
      <4> HAVE role'[m] = "leader" /\ term'[m] = t
      <4>1. m = l
        BY <1>0, <2>1, <3>1 DEF OneLeaderPerTerm
      <4> QED
        BY <2>2, <2>3, <4>1
    <3>5. Covers(l, i, t, l, i)'
      BY <2>3, <3>1, <3>3, <3>4 DEF Covers
    <3>6. i \in 1 .. LastIndex(l)' /\ log'[l][i].term = t
      BY <3>3 DEF Has
    <3>7. Safe(l, i)'
      BY <3>5, <3>6 DEF Safe
    <3> QED
      BY <2>2, <3>7
  <2> QED
    BY <2>6, <2>7, <2>8 DEF CommitsSafe
<1>9. ASSUME NEW n \in Nodes, Apply(n) PROVE CommitsSafe'
  <2>1. /\ applied[n] + 1 <= commit[n] /\ UNCHANGED <<term, role, commit>>
        /\ \/ last_applied' = last_applied
           \/ last_applied' = [last_applied EXCEPT ![n] = applied[n] + 1]
    <3>1. applied[n] + 1 <= commit[n] /\ UNCHANGED <<term, role, commit>>
      BY <1>9 DEF Apply, raft
    <3>2. last_applied \in [Nodes -> Nat]
      BY <1>0 DEF Types
    <3>3. CASE IsLock(log[n][applied[n] + 1].call)
      <4>1. last_applied' = [last_applied EXCEPT ![n] =
                 IF applied[n] + 1 > @ THEN applied[n] + 1 ELSE @]
        BY <1>9, <3>3 DEF Apply, ApplyLockEntry
      <4> QED
        BY <3>1, <3>2, <4>1
    <3>4. CASE ~ IsLock(log[n][applied[n] + 1].call)
      BY <1>9, <3>1, <3>4 DEF Apply, ApplyGuardedEntry
    <3> QED
      BY <3>3, <3>4
  <2>2. \A m \in Nodes : term[m] <= term'[m] /\ commit'[m] <= commit[m]
    BY <1>3, <2>1
  <2>3. \A m \in Nodes : last_applied'[m] <= commit[m] \/ last_applied'[m] <= last_applied[m]
    <3> TAKE m \in Nodes
    <3>1. last_applied \in [Nodes -> Nat]
      BY <1>0 DEF Types
    <3>2. last_applied'[m] = last_applied[m] \/ (m = n /\ last_applied'[m] = applied[n] + 1)
      BY <2>1, <3>1
    <3> QED
      BY <1>3, <2>1, <3>2
  <2>4. LeadersAdvance
    BY <1>3, <2>1 DEF LeadersAdvance
  <2> QED
    BY <1>4, <2>2, <2>3, <2>4 DEF CommitsSafe
<1>10. ASSUME NEW n \in Nodes, Restart(n) PROVE CommitsSafe'
  <2>1. /\ role' = [role EXCEPT ![n] = "follower"] /\ term' = term
        /\ commit' = [commit EXCEPT ![n] = hs_commit[n]]
        /\ last_applied' = [last_applied EXCEPT ![n] = saved_applied[n]]
    BY <1>10 DEF Restart, disk
  <2>2. hs_commit[n] <= commit[n] /\ saved_applied[n] <= last_applied[n]
    BY <1>0 DEF IndexesOK
  <2>3. \A m \in Nodes : /\ term[m] <= term'[m] /\ commit'[m] <= commit[m]
                         /\ last_applied'[m] <= last_applied[m]
    <3> TAKE m \in Nodes
    <3>1. commit \in [Nodes -> Nat] /\ last_applied \in [Nodes -> Nat]
      BY <1>0 DEF Types
    <3>2. /\ commit'[m] = IF m = n THEN hs_commit[n] ELSE commit[m]
          /\ last_applied'[m] = IF m = n THEN saved_applied[n] ELSE last_applied[m]
      BY <2>1, <3>1
    <3> QED
      BY <1>3, <2>1, <2>2, <3>2
  <2>4. \A m \in Nodes : role'[m] = "leader" => role[m] = "leader" /\ commit'[m] = commit[m]
    BY <1>0, <2>1 DEF Types
  <2>5. LeadersAdvance
    BY <1>3, <2>1, <2>4 DEF LeadersAdvance
  <2> QED
    BY <1>4, <2>3, <2>5 DEF CommitsSafe
<1>11. ASSUME NEW c \in Calls, NEW n \in Nodes, NEW l \in Nodes \cup {NoNode},
              DriverPropose(c, n, l)
       PROVE  CommitsSafe'
  BY <1>5, <1>11 DEF DriverPropose, machine
<1>12. ASSUME NEW c \in Calls, NEW n \in Nodes, Submit(c, n) \/ DriverRefuse(c, n)
       PROVE  CommitsSafe'
  BY <1>5, <1>12 DEF Submit, DriverRefuse, raft, machine
<1>13. ASSUME NEW n \in Nodes, NEW l \in Nodes, ReadIndex(n, l) \/ ResolveRead(n)
       PROVE  CommitsSafe'
  BY <1>5, <1>13 DEF ReadIndex, ResolveRead, raft, machine
<1> QED
  BY <1>6, <1>7, <1>8, <1>9, <1>10, <1>11, <1>12, <1>13 DEF Next

\* A parked read waits for an index that covers what it must see, at a node
\* whose state machine is not ahead of the replay.
ReadOK ==
    /\ read \in [st : {"none", "new", "parked", "done"}, at : Nodes \cup {NoNode},
                 must : Nat, index : Nat]
    /\ read.st \in {"parked", "done"} => read.at \in Nodes
    /\ read.st = "parked" =>
          read.must <= read.index /\ applied[read.at] = last_applied[read.at]
    /\ ReadsLinearizable

\* The inductive invariant, next to ZInv.
RInv == RaftOK /\ CommitsSafe /\ ReadOK

\* A leader that has committed in its term and has a majority in it knows every
\* commit index.
LEMMA LeaderKnows ==
    ASSUME ZInv, RaftOK, CommitsSafe, NEW l \in Nodes, role[l] = "leader",
           TermAt(l, commit[l]) = term[l], Majority({q \in voters : term[q] = term[l]}),
           NEW m \in Nodes
    PROVE  commit[m] <= commit[l]
<1>0. /\ Types /\ OrderOK /\ TermsKnown /\ LeaderOwn /\ IndexesOK(l)
  BY DEF ZInv, RaftOK, NodeOK
<1>1. /\ commit[m] \in Nat /\ commit[l] \in Nat /\ term[l] \in Nat /\ LastIndex(l) \in Nat
      /\ commit[l] <= LastIndex(l)
  BY <1>0, NodeTypes DEF Types, IndexesOK
<1> SUFFICES ASSUME commit[m] > 0 PROVE commit[m] <= commit[l]
  BY <1>1
<1>2. Safe(m, commit[m])
  BY DEF CommitsSafe
<1>3. PICK q \in Nodes : \E j \in 1 .. LastIndex(q) : Covers(q, j, log[q][j].term, m, commit[m])
  BY <1>2 DEF Safe
<1>4. PICK j \in 1 .. LastIndex(q) : Covers(q, j, log[q][j].term, m, commit[m])
  BY <1>3
<1>5. PICK t \in Nat : t = log[q][j].term
  BY <1>0, NodeTypes
<1>6. /\ Chosen(j, t) /\ commit[m] <= j /\ j \in Nat
      /\ role[l] = "leader" /\ term[l] = t => commit[m] <= commit[l]
  BY <1>0, <1>4, <1>5, NodeTypes DEF Covers
<1>7. t <= term[l]
  <2> DEFINE A == {v \in voters : Has(v, j, t)}
             B == {v \in voters : term[v] = term[l]}
  <2>1. Majority(A) /\ Majority(B) /\ A \subseteq voters /\ B \subseteq voters
    BY <1>6 DEF Chosen
  <2>2. PICK v \in voters : v \in A /\ v \in B
    <3> HIDE DEF A, B
    <3> QED
      BY <1>0, <2>1, MajoritiesMeet
  <2>3. v \in Nodes /\ Has(v, j, t) /\ term[v] = term[l]
    BY <1>0, <2>2 DEF Types
  <2> QED
    BY <1>0, <2>3 DEF TermsKnown, Has
<1>8. CASE t = term[l]
  BY <1>6, <1>8
<1>9. CASE t < term[l]
  <2>1. Has(l, LastIndex(l), term[l]) /\ ~ Lost(j, t)
    BY <1>0, <1>6 DEF LeaderOwn, Chosen
  <2>2. Has(l, j, t)
    BY <1>9, <2>1 DEF Lost, Has
  <2>3. j \in 1 .. LastIndex(l) /\ log[l][j].term = t
    BY <2>2 DEF Has
  <2>4. commit[l] # 0
    <3> SUFFICES ASSUME commit[l] = 0 PROVE FALSE
      OBVIOUS
    <3>1. term[l] = 0
      BY DEF TermAt
    <3> QED
      BY <1>5, <1>9, <3>1
  <2>5. commit[l] \in 1 .. LastIndex(l) /\ log[l][commit[l]].term = term[l]
    BY <1>1, <2>4 DEF TermAt
  <2>6. j <= commit[l]
    <3> SUFFICES ASSUME commit[l] <= j PROVE FALSE
      BY <1>1, <1>6
    <3>1. term[l] <= t
      BY <1>0, <2>3, <2>5 DEF OrderOK, TermsOrdered
    <3> QED
      BY <1>1, <1>5, <1>9, <3>1
  <2> QED
    BY <1>1, <1>6, <2>6
<1> QED
  BY <1>1, <1>5, <1>7, <1>8, <1>9

\* So what a read must see is its answer.
LEMMA HighestKnown ==
    ASSUME Types, NEW l \in Nodes, \A m \in Nodes : commit[m] <= commit[l]
    PROVE  Highest = commit[l]
<1>1. \A m \in Nodes : commit[m] \in Nat
  BY DEF Types
<1>2. \E i \in {commit[n] : n \in Nodes} : \A n \in Nodes : commit[n] <= i
  OBVIOUS
<1>3. Highest \in {commit[n] : n \in Nodes} /\ \A n \in Nodes : commit[n] <= Highest
  BY <1>2 DEF Highest
<1>4. PICK m \in Nodes : Highest = commit[m]
  BY <1>3
<1> QED
  BY <1>1, <1>3, <1>4

\* The state machine of a node that can be sent entries is not ahead of raft-rs.
LEMMA SettledApplied ==
    ASSUME ZInv, NEW n \in Nodes, Settled(n), voters # {n}
    PROVE  applied[n] = last_applied[n]
<1>1. IndexesOK(n) /\ Types
  BY DEF ZInv, NodeOK
<1>2. applied[n] \in Nat /\ last_applied[n] \in Nat
  BY <1>1 DEF Types
<1>3. applied[n] <= last_applied[n] /\ last_applied[n] <= applied[n]
  BY <1>1 DEF IndexesOK, Settled
<1> QED
  BY <1>2, <1>3

\* Every step keeps reads linearizable.
LEMMA NextReads ==
    ASSUME ZInv, ZInv', RaftOK, CommitsSafe, ReadOK, Next
    PROVE  ReadOK'
<1>0. /\ Types /\ Types' /\ \A n \in Nodes : IndexesOK(n)
      /\ \A n \in Nodes : applied[n] \in Nat /\ last_applied[n] \in Nat /\ commit[n] \in Nat
  BY DEF ZInv, NodeOK, Types
<1> DEFINE R == [st : {"none", "new", "parked", "done"}, at : Nodes \cup {NoNode},
                 must : Nat, index : Nat]
<1>1. /\ read \in R
      /\ read.st \in {"parked", "done"} => read.at \in Nodes
      /\ read.st = "parked" =>
            read.must <= read.index /\ applied[read.at] = last_applied[read.at]
      /\ read.st = "done" =>
            applied[read.at] >= read.must /\ last_applied[read.at] >= read.must
      /\ read.must \in Nat /\ read.index \in Nat
  BY DEF ReadOK, ReadsLinearizable
<1>2. ASSUME UNCHANGED <<read, applied, last_applied>> PROVE ReadOK'
  BY <1>1, <1>2 DEF ReadOK, ReadsLinearizable
<1>3. ASSUME NEW n \in Nodes, NEW l \in Nodes, ReadIndex(n, l) PROVE ReadOK'
  <2>1. /\ Settled(n) /\ role[l] = "leader"
        /\ TermAt(l, commit[l]) = term[l] /\ Majority({q \in voters : term[q] = term[l]})
        /\ read' = [st |-> IF last_applied[n] >= commit[l] THEN "done" ELSE "parked",
                    at |-> n, must |-> Highest, index |-> commit[l]]
        /\ UNCHANGED <<applied, last_applied>>
    BY <1>3 DEF ReadIndex, machine
  <2>2. Highest = commit[l] /\ commit[l] \in Nat
    BY <1>0, <2>1, LeaderKnows, HighestKnown
  <2>3. l \in voters
    BY <2>1 DEF ZInv, LogsOK, TermsReached
  <2>4. /\ read' \in R /\ read'.at = n /\ read'.must = commit[l] /\ read'.index = commit[l]
        /\ read'.st = IF last_applied[n] >= commit[l] THEN "done" ELSE "parked"
    BY <2>1, <2>2
  <2>5. CASE voters = {n}
    <3>1. l = n /\ applied[n] = commit[n] /\ applied[n] <= last_applied[n]
      BY <1>0, <2>1, <2>3, <2>5 DEF Settled, IndexesOK
    <3>2. last_applied[n] >= commit[l] /\ applied[n] >= commit[l]
      BY <1>0, <3>1
    <3>3. read'.st = "done"
      BY <2>4, <3>2
    <3> QED
      BY <2>1, <2>4, <3>2, <3>3 DEF ReadOK, ReadsLinearizable
  <2>6. CASE voters # {n}
    <3>1. applied[n] = last_applied[n]
      BY <2>1, <2>6, SettledApplied
    <3>2. CASE last_applied[n] >= commit[l]
      <4>1. read'.st = "done"
        BY <2>4, <3>2
      <4> QED
        BY <2>1, <2>4, <3>1, <3>2, <4>1 DEF ReadOK, ReadsLinearizable
    <3>3. CASE ~ (last_applied[n] >= commit[l])
      <4>1. read'.st = "parked"
        BY <2>4, <3>3
      <4> QED
        BY <2>1, <2>2, <2>4, <3>1, <4>1 DEF ReadOK, ReadsLinearizable
    <3> QED
      BY <3>2, <3>3
  <2> QED
    BY <2>5, <2>6
<1>4. ASSUME NEW n \in Nodes, ResolveRead(n) PROVE ReadOK'
  <2>1. /\ read.st = "parked" /\ read.at = n /\ read.index <= last_applied[n]
        /\ read' = [read EXCEPT !.st = "done"]
        /\ UNCHANGED <<applied, last_applied>>
    BY <1>4 DEF ResolveRead, machine
  <2>2. /\ read' \in R /\ read'.st = "done" /\ read'.at = n /\ read'.must = read.must
    BY <1>1, <2>1
  <2>3. applied[n] >= read.must /\ last_applied[n] >= read.must
    BY <1>0, <1>1, <2>1
  <2> QED
    BY <2>1, <2>2, <2>3 DEF ReadOK, ReadsLinearizable
<1>5. ASSUME NEW n \in Nodes, Apply(n) PROVE ReadOK'
  <2> DEFINE i == applied[n] + 1
  <2>1. /\ read' = read /\ applied' = [applied EXCEPT ![n] = i]
        /\ i <= commit[n]
    BY <1>5 DEF Apply
  <2>2. last_applied' = [last_applied EXCEPT ![n] = IF i > @ THEN i ELSE @]
    <3>1. CASE IsLock(log[n][i].call)
      BY <1>5, <3>1 DEF Apply, ApplyLockEntry
    <3>2. CASE ~ IsLock(log[n][i].call) /\ i <= last_applied[n]
      <4>1. last_applied' = last_applied
        BY <1>5, <3>2 DEF Apply, ApplyGuardedEntry
      <4>2. /\ applied \in [Nodes -> Nat] /\ last_applied \in [Nodes -> Nat]
            /\ applied[n] \in Nat /\ last_applied[n] \in Nat
        BY <1>0 DEF Types
      <4>3. ~ (i > last_applied[n])
        BY <3>2, <4>2
      <4> QED
        BY <4>1, <4>2, <4>3
    <3>3. CASE ~ IsLock(log[n][i].call) /\ ~ (i <= last_applied[n])
      <4>1. last_applied' = [last_applied EXCEPT ![n] = i]
        BY <1>5, <3>3 DEF Apply, ApplyGuardedEntry
      <4>2. i > last_applied[n]
        BY <1>0, <3>3
      <4> QED
        BY <4>1, <4>2
    <3> QED
      BY <3>1, <3>2, <3>3
  <2>3. applied \in [Nodes -> Nat] /\ last_applied \in [Nodes -> Nat]
    BY <1>0 DEF Types
  <2>4. /\ applied'[n] = i /\ last_applied'[n] = IF i > last_applied[n] THEN i ELSE last_applied[n]
        /\ \A m \in Nodes : m # n => applied'[m] = applied[m] /\ last_applied'[m] = last_applied[m]
    BY <2>1, <2>2, <2>3
  <2>5. /\ applied'[n] >= applied[n] /\ last_applied'[n] >= last_applied[n]
        /\ applied[n] = last_applied[n] => applied'[n] = last_applied'[n]
        /\ applied'[n] \in Nat /\ last_applied'[n] \in Nat
    BY <1>0, <2>4
  <2>6. CASE read.at = n /\ n \in Nodes
    <3>1. read.st = "parked" => applied'[n] = last_applied'[n]
      BY <1>1, <2>5, <2>6
    <3>2. read.st = "done" => applied'[n] >= read.must /\ last_applied'[n] >= read.must
      BY <1>0, <1>1, <2>5, <2>6
    <3> QED
      BY <1>1, <2>1, <2>6, <3>1, <3>2 DEF ReadOK, ReadsLinearizable
  <2>7. CASE read.at # n
    <3>1. read.at \in Nodes =>
             applied'[read.at] = applied[read.at] /\ last_applied'[read.at] = last_applied[read.at]
      BY <2>4, <2>7
    <3> QED
      BY <1>1, <2>1, <3>1 DEF ReadOK, ReadsLinearizable
  <2> QED
    BY <2>6, <2>7
<1>6. ASSUME NEW n \in Nodes, Restart(n) PROVE ReadOK'
  <2>1. /\ read' = IF read.at = n THEN [read EXCEPT !.st = "none"] ELSE read
        /\ applied' = [applied EXCEPT ![n] = 0]
        /\ last_applied' = [last_applied EXCEPT ![n] = saved_applied[n]]
    BY <1>6 DEF Restart
  <2>2. CASE read.at = n
    <3>1. read' \in R /\ read'.st = "none"
      BY <1>1, <2>1, <2>2
    <3> QED
      BY <3>1 DEF ReadOK, ReadsLinearizable
  <2>3. CASE read.at # n
    <3>1. applied \in [Nodes -> Nat] /\ last_applied \in [Nodes -> Nat]
      BY <1>0 DEF Types
    <3>2. read' = read /\ (read.at \in Nodes =>
             applied'[read.at] = applied[read.at] /\ last_applied'[read.at] = last_applied[read.at])
      BY <2>1, <2>3, <3>1
    <3> QED
      BY <1>1, <3>2 DEF ReadOK, ReadsLinearizable
  <2> QED
    BY <2>2, <2>3
<1>7. ASSUME NEW n \in voters, NEW Q \in Quorums, NEW t \in 1 .. MaxTerm, Elect(n, Q, t)
      PROVE  ReadOK'
  BY <1>2, <1>7 DEF Elect, machine
<1>8. ASSUME NEW l \in Nodes, NEW f \in Nodes, NEW k \in 0 .. LastIndex(l), NEW p \in 0 .. k,
             SendAppend(l, f, p, k)
      PROVE  ReadOK'
  BY <1>2, <1>8 DEF SendAppend, machine
<1>9. ASSUME NEW l \in Nodes, NEW i \in 1 .. LastIndex(l), AdvanceCommit(l, i) PROVE ReadOK'
  BY <1>2, <1>9 DEF AdvanceCommit, machine
<1>10. ASSUME NEW c \in Calls, NEW n \in Nodes, Submit(c, n) \/ DriverRefuse(c, n) PROVE ReadOK'
  BY <1>2, <1>10 DEF Submit, DriverRefuse, machine
<1>11. ASSUME NEW c \in Calls, NEW n \in Nodes, NEW l \in Nodes \cup {NoNode},
              DriverPropose(c, n, l)
       PROVE  ReadOK'
  BY <1>2, <1>11 DEF DriverPropose, machine
<1> QED
  BY <1>3, <1>4, <1>5, <1>6, <1>7, <1>8, <1>9, <1>10, <1>11 DEF Next

\* An empty zone satisfies it.
LEMMA InitRInv ==
    ASSUME Init PROVE RInv
<1>1. \A n \in Nodes : LastIndex(n) = 0 /\ role[n] # "leader"
  BY DEF Init, LastIndex
<1>2. \A n \in Nodes : 1 .. LastIndex(n) = {}
  BY <1>1
<1>3. OrderOK /\ TermsKnown /\ LeaderOwn /\ AcksOK
  BY <1>1, <1>2 DEF OrderOK, LogMatching, TermsContiguous, TermsOrdered, TermsKnown,
                    LeaderOwn, AcksOK
<1>4. MatchOK
  BY <1>1 DEF Init, MatchOK, NoMatch
<1>5. CommitsSafe
  <2>1. \A n \in Nodes : commit[n] = 0 /\ last_applied[n] = 0
    BY DEF Init
  <2> QED
    BY <2>1 DEF CommitsSafe, Safe
<1>6. ReadOK
  <2>1. PICK load \in Workloads :
           read = [st |-> IF load.read THEN "new" ELSE "none", at |-> NoNode, must |-> 0, index |-> 0]
    BY DEF Init
  <2>2. read.st \in {"none", "new"} /\ read.at = NoNode /\ read.must = 0 /\ read.index = 0
    BY <2>1
  <2>3. read \in [st : {"none", "new", "parked", "done"}, at : Nodes \cup {NoNode},
                  must : Nat, index : Nat]
    BY <2>1
  <2> QED
    BY <2>2, <2>3 DEF ReadOK, ReadsLinearizable
<1> QED
  BY <1>3, <1>4, <1>5, <1>6 DEF RInv, RaftOK

\* Every step without a stale tail keeps it.
LEMMA NextRInv ==
    ASSUME ZInv, ZInv', RInv, [Next]_vars, [CleanTails]_vars
    PROVE  RInv'
<1>1. CASE UNCHANGED vars
  <2>1. UNCHANGED <<voters, log, term, role, match, commit, last_applied, applied, read>>
    BY <1>1 DEF vars, raft, machine
  <2>2. match \in [Nodes -> [Nodes -> Nat]] /\ Types /\ Types'
    BY DEF RInv, RaftOK, MatchOK, ZInv
  <2>3. RaftOK' /\ ChosenStays
    BY <2>1, <2>2, RaftStays DEF RInv
  <2>4. \A i \in Nat : i <= i
    OBVIOUS
  <2>5. \A n \in Nodes : /\ commit[n] \in Nat /\ last_applied[n] \in Nat /\ term[n] \in Nat
                         /\ KeepsLog(n)
    BY <2>1, <2>2, NodeTypes DEF Types, KeepsLog
  <2>6. LeadersAdvance
    BY <2>1, <2>4, <2>5 DEF LeadersAdvance
  <2>7. CommitsSafe'
    <3> SUFFICES ASSUME NEW n \in Nodes
                 PROVE  Safe(n, commit[n])' /\ Safe(n, last_applied[n])'
      BY DEF CommitsSafe
    <3>1. term[n] <= term'[n] /\ commit'[n] <= commit[n] /\ last_applied'[n] <= last_applied[n]
      BY <2>1, <2>5
    <3> QED
      BY <2>2, <2>3, <2>5, <2>6, <3>1, CommitsStayAll DEF RInv
  <2>8. ReadOK'
    BY <2>1 DEF RInv, ReadOK, ReadsLinearizable
  <2> QED
    BY <2>3, <2>7, <2>8 DEF RInv
<1>2. CASE Next /\ CleanTails
  BY <1>2, NextRaft, NextCommits, NextReads DEF RInv
<1> QED
  BY <1>1, <1>2

\* The invariant holds in every state of a behaviour in which RaftStorage::append
\* leaves no stale tail.
THEOREM ZoneSafety == Spec /\ NoStaleTail => []RInv
<1>1. Init => RInv
  BY InitRInv
<1>2. ZInv /\ ZInv' /\ RInv /\ [Next]_vars /\ [CleanTails]_vars => RInv'
  BY NextRInv
<1> QED
  BY <1>1, <1>2, ZoneInvariant, PTL DEF Spec, NoStaleTail

\* The log matching property of raft, which RaftStorage::append owes the library.
THEOREM ZoneLogMatching == Spec /\ NoStaleTail => []LogMatching
<1>1. RInv => LogMatching
  BY DEF RInv, RaftOK, OrderOK
<1> QED
  BY <1>1, ZoneSafety, PTL

\* Two chosen entries are on one line.
LEMMA ChosenAgree ==
    ASSUME Types, OrderOK, NEW q \in Nodes, NEW j, NEW t, Has(q, j, t), Chosen(j, t),
           NEW r \in Nodes, NEW k, NEW u, Has(r, k, u), Chosen(k, u),
           NEW i \in Nat, i >= 1, i <= j, i <= k
    PROVE  log[q][i] = log[r][i]
<1>0. LogMatching /\ TermsContiguous
  BY DEF OrderOK
<1>1. j \in Nat /\ k \in Nat /\ t \in Nat /\ u \in Nat /\ i \in 1 .. j /\ i \in 1 .. k
  BY HasTypes
<1>2. CASE t = u /\ j <= k
  <2>1. Has(r, j, t)
    BY <1>0, <1>2, TermFilled
  <2> QED
    BY <1>0, <1>1, <2>1, MatchPrefix
<1>3. CASE t = u /\ k <= j
  <2>1. Has(q, k, u)
    BY <1>0, <1>3, TermFilled
  <2> QED
    BY <1>0, <1>1, <2>1, MatchPrefix
<1>4. CASE t < u
  <2>1. Has(r, j, t)
    BY <1>4 DEF Chosen, Lost, Has
  <2> QED
    BY <1>0, <1>1, <2>1, MatchPrefix
<1>5. CASE u < t
  <2>1. Has(q, k, u)
    BY <1>5 DEF Chosen, Lost, Has
  <2> QED
    BY <1>0, <1>1, <2>1, MatchPrefix
<1> QED
  BY <1>1, <1>2, <1>3, <1>4, <1>5

\* No two nodes of a zone ever apply different entries at an index, in a zone of
\* any size and over any crashes, as long as RaftStorage::append leaves no stale
\* tail.
THEOREM ZoneReplicasAgree == Spec /\ NoStaleTail => []ReplicasAgree
<1>1. ZInv /\ RInv => ReplicasAgree
  <2> SUFFICES ASSUME ZInv, RInv, NEW n \in Nodes, NEW m \in Nodes,
                      NEW i \in 1 .. (IF last_applied[n] < last_applied[m]
                                      THEN last_applied[n] ELSE last_applied[m])
               PROVE  log[n][i] = log[m][i]
    BY DEF ReplicasAgree
  <2>1. Types /\ OrderOK /\ Safe(n, last_applied[n]) /\ Safe(m, last_applied[m])
    BY DEF ZInv, RInv, RaftOK, CommitsSafe
  <2>2. last_applied[n] \in Nat /\ last_applied[m] \in Nat
    BY <2>1 DEF Types
  <2>3. /\ i \in Nat /\ i >= 1 /\ i <= last_applied[n] /\ i <= last_applied[m]
        /\ i \in 1 .. last_applied[n] /\ i \in 1 .. last_applied[m]
        /\ last_applied[n] > 0 /\ last_applied[m] > 0
    BY <2>2
  <2>4. PICK q \in Nodes : \E j \in 1 .. LastIndex(q) :
           Covers(q, j, log[q][j].term, n, last_applied[n])
    BY <2>1, <2>3 DEF Safe
  <2>5. PICK j \in 1 .. LastIndex(q) : Covers(q, j, log[q][j].term, n, last_applied[n])
    BY <2>4
  <2>6. PICK r \in Nodes : \E k \in 1 .. LastIndex(r) :
           Covers(r, k, log[r][k].term, m, last_applied[m])
    BY <2>1, <2>3 DEF Safe
  <2>7. PICK k \in 1 .. LastIndex(r) : Covers(r, k, log[r][k].term, m, last_applied[m])
    BY <2>6
  <2>8. PICK t : t = log[q][j].term
    OBVIOUS
  <2>9. PICK u : u = log[r][k].term
    OBVIOUS
  <2>10. /\ Has(q, j, t) /\ Chosen(j, t) /\ last_applied[n] <= j /\ log[n][i] = log[q][i]
    BY <2>3, <2>5, <2>8 DEF Covers, Has
  <2>11. /\ Has(r, k, u) /\ Chosen(k, u) /\ last_applied[m] <= k /\ log[m][i] = log[r][i]
    BY <2>3, <2>7, <2>9 DEF Covers, Has
  <2>12. j \in Nat /\ k \in Nat
    BY <2>1, NodeTypes
  <2>13. i <= j /\ i <= k
    BY <2>2, <2>3, <2>10, <2>11, <2>12
  <2>14. log[q][i] = log[r][i]
    BY <2>1, <2>3, <2>10, <2>11, <2>13, ChosenAgree
  <2> QED
    BY <2>10, <2>11, <2>14
<1> QED
  BY <1>1, ZoneInvariant, ZoneSafety, PTL

\* An applied entry is in the log of every later leader, as long as
\* RaftStorage::append leaves no stale tail: finding ZoneStaleTail has no other
\* cause.
THEOREM ZoneCommittedStays == Spec /\ NoStaleTail => []CommittedStays
<1>1. ZInv /\ RInv => CommittedStays
  <2> SUFFICES ASSUME ZInv, RInv, NEW n \in Nodes, NEW l \in Nodes,
                      role[l] = "leader", term[l] >= term[n],
                      NEW i \in 1 .. last_applied[n]
               PROVE  i <= LastIndex(l) /\ log[l][i] = log[n][i]
    BY DEF CommittedStays
  <2>1. /\ Types /\ LogMatching /\ TermsContiguous /\ LeaderOwn /\ LeaderHasAll
        /\ Safe(n, last_applied[n])
    BY DEF ZInv, LogsOK, RInv, RaftOK, OrderOK, CommitsSafe
  <2>2. last_applied[n] \in Nat /\ term[n] \in Nat /\ term[l] \in Nat /\ last_applied[n] > 0
    <3>1. last_applied[n] \in Nat /\ term[n] \in Nat /\ term[l] \in Nat
      BY <2>1 DEF Types
    <3> QED
      BY <3>1
  <2>3. PICK q \in Nodes : \E j \in 1 .. LastIndex(q) :
           Covers(q, j, log[q][j].term, n, last_applied[n])
    BY <2>1, <2>2 DEF Safe
  <2>4. PICK j \in 1 .. LastIndex(q) : Covers(q, j, log[q][j].term, n, last_applied[n])
    BY <2>3
  <2>5. PICK t \in Nat : t = log[q][j].term
    BY <2>1, NodeTypes
  <2>6. /\ Has(q, j, t) /\ ~ Lost(j, t) /\ t <= term[n] /\ last_applied[n] <= j
        /\ log[n][i] = log[q][i]
    BY <2>4, <2>5 DEF Covers, Has, Chosen
  <2>7. Has(l, j, t)
    <3>1. CASE t = term[l]
      BY <2>1, <2>6, <3>1, LeaderHas
    <3>2. CASE t < term[l]
      <4>1. Has(l, LastIndex(l), term[l])
        BY <2>1 DEF LeaderOwn
      <4> QED
        BY <2>6, <3>2, <4>1 DEF Lost, Has
    <3> QED
      BY <2>2, <2>5, <2>6, <3>1, <3>2
  <2>8. /\ j \in Nat /\ j <= LastIndex(l) /\ LastIndex(l) \in Nat
        /\ \A x \in 1 .. j : log[l][x] = log[q][x]
    BY <2>1, <2>6, <2>7, HasTypes, MatchPrefix
  <2>9. i \in 1 .. j /\ i <= LastIndex(l)
    BY <2>2, <2>6, <2>8
  <2> QED
    BY <2>6, <2>8, <2>9
<1> QED
  BY <1>1, ZoneInvariant, ZoneSafety, PTL

\* read_linearizable sees everything committed before it, under the same condition:
\* the leader that answers knows every commit index, and a parked read waits for
\* both indexes.
THEOREM ZoneReadsLinearizable == Spec /\ NoStaleTail => []ReadsLinearizable
<1>1. RInv => ReadsLinearizable
  BY DEF RInv, ReadOK
<1> QED
  BY <1>1, ZoneSafety, PTL
=============================================================================
