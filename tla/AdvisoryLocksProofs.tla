------------------------- MODULE AdvisoryLocksProofs -------------------------
(***************************************************************************)
(* The advisory lock table keeps its capacity, its subtree exclusion and   *)
(* the leases it granted, for every set of paths, ids, capacities and      *)
(* TTLs and for a clock of any length.                                     *)
(*                                                                         *)
(* Every transition of LockState rewrites one row.  The proof is about     *)
(* rows first (Fine), then about the table, then about the steps.          *)
(***************************************************************************)
EXTENDS AdvisoryLocks, FiniteSetTheorems, TLAPS

Holder == [lock_id : LockIds, expires_at : Nat]

\* No id twice in a row of the table.
DistinctIds(holders) == \A g, h \in holders : g.lock_id = h.lock_id => g = h

\* What is true of each row.  Holders are finitely many, so that counting
\* them means something.
Fine(e) ==
    /\ e \in Entries(LockIds, Nat)
    /\ IsFiniteSet(e.holders)
    /\ Cardinality(e.holders) <= e.max_holders
    /\ DistinctIds(e.holders)

AllFine == \A p \in LockPaths : Fine(locks[p])

\* The inductive invariant.
IInv == TypeOK /\ AllFine /\ SubtreeExclusive /\ LeasesBacked

-----------------------------------------------------------------------------
\* Rows.

\* The absent row is fine.
LEMMA NoEntryFine == Fine(NoEntry)
<1>1. IsFiniteSet({}) /\ Cardinality({}) = 0
  BY FS_EmptySet
<1> QED
  BY <1>1 DEF Fine, NoEntry, Entries, DistinctIds

\* A row with holders, read off its type.
LEMMA RowType ==
    ASSUME NEW e, Fine(e)
    PROVE  /\ e = [max_holders |-> e.max_holders, holders |-> e.holders]
           /\ e.max_holders \in Nat
           /\ e.holders \subseteq Holder
           /\ e.holders # {} => e.max_holders # 0
           /\ e.holders = {} => e = NoEntry
  BY DEF Fine, Entries, NoEntry, Holder

\* Replacing the holders of a row leaves its capacity.
LEMMA RowUpdate ==
    ASSUME NEW e, Fine(e), NEW S
    PROVE  [e EXCEPT !.holders = S] = [max_holders |-> e.max_holders, holders |-> S]
<1>1. e = [max_holders |-> e.max_holders, holders |-> e.holders]
  BY RowType
<1> QED
  BY <1>1

\* A row is fine if its parts are.
LEMMA RowIntro ==
    ASSUME NEW max \in Nat \ {0}, NEW S \in SUBSET Holder, S # {},
           IsFiniteSet(S), Cardinality(S) <= max, DistinctIds(S)
    PROVE  Fine([max_holders |-> max, holders |-> S])
  BY DEF Fine, Entries, Holder

\* Dropping holders (prune, release) keeps a row fine once Compact is done.
LEMMA ShrinkFine ==
    ASSUME NEW e, Fine(e), NEW S, S \subseteq e.holders
    PROVE  Fine(Compact([e EXCEPT !.holders = S]))
<1>1. /\ e = [max_holders |-> e.max_holders, holders |-> e.holders]
      /\ e.max_holders \in Nat
      /\ e.holders \subseteq Holder
      /\ e.holders # {} => e.max_holders # 0
  BY RowType
<1>2. [e EXCEPT !.holders = S] = [max_holders |-> e.max_holders, holders |-> S]
  BY RowUpdate
<1>3. CASE S = {}
  BY <1>2, <1>3, NoEntryFine DEF Compact
<1>4. CASE S # {}
  <2>1. /\ IsFiniteSet(S)
        /\ Cardinality(S) \in Nat
        /\ Cardinality(e.holders) \in Nat
        /\ Cardinality(S) <= Cardinality(e.holders)
    BY FS_Subset, FS_CardinalityType DEF Fine
  <2>2. Cardinality(S) <= e.max_holders
    BY <2>1, <1>1 DEF Fine
  <2>3. DistinctIds(S)
    BY DEF Fine, DistinctIds
  <2>4. Fine([max_holders |-> e.max_holders, holders |-> S])
    BY <1>1, <1>4, <2>1, <2>2, <2>3, RowIntro
  <2> QED
    BY <1>2, <1>4, <2>4 DEF Compact
<1> QED
  BY <1>3, <1>4

\* Giving a holder a new expiry keeps a row fine.
LEMMA RenewFine ==
    ASSUME NEW e, Fine(e), NEW S, S \subseteq e.holders,
           NEW h \in Holder, NEW g \in S, g.lock_id = h.lock_id
    PROVE  Fine([max_holders |-> e.max_holders,
                 holders |-> {k \in S : k.lock_id # h.lock_id} \cup {h}])
<1> DEFINE R == {k \in S : k.lock_id # h.lock_id}
<1>1. /\ e.max_holders \in Nat
      /\ e.holders \subseteq Holder
      /\ e.max_holders # 0
  BY RowType
<1>2. /\ IsFiniteSet(S)
      /\ Cardinality(S) \in Nat
      /\ Cardinality(e.holders) \in Nat
      /\ Cardinality(S) <= Cardinality(e.holders)
  BY FS_Subset, FS_CardinalityType DEF Fine
<1>3. DistinctIds(S)
  BY DEF Fine, DistinctIds
<1>4. R = S \ {g}
  BY <1>3 DEF DistinctIds
<1>5. IsFiniteSet(R) /\ Cardinality(R) = Cardinality(S) - 1
  BY <1>2, <1>4, FS_RemoveElement
<1>6. h \notin R
  OBVIOUS
<1>7. IsFiniteSet(R \cup {h}) /\ Cardinality(R \cup {h}) = Cardinality(R) + 1
  BY <1>5, <1>6, FS_AddElement
<1>8. Cardinality(R \cup {h}) <= e.max_holders
  BY <1>1, <1>2, <1>5, <1>7 DEF Fine
<1>9. DistinctIds(R \cup {h})
  BY <1>3 DEF DistinctIds
<1>10. R \cup {h} \in SUBSET Holder /\ R \cup {h} # {}
  BY <1>1
<1> QED
  BY <1>1, <1>7, <1>8, <1>9, <1>10, RowIntro

\* Adding a holder where HasRoom says so keeps a row fine.
LEMMA AddFine ==
    ASSUME NEW e, Fine(e), NEW S, S \subseteq e.holders,
           NEW h \in Holder, h.lock_id \notin IdsOf(S),
           NEW max \in Nat,
           HasRoom(S, max, IF S = {} THEN max ELSE e.max_holders)
    PROVE  Fine([max_holders |-> IF S = {} THEN max ELSE e.max_holders,
                 holders |-> S \cup {h}])
<1> DEFINE seeded == IF S = {} THEN max ELSE e.max_holders
<1>1. /\ e.max_holders \in Nat
      /\ e.holders \subseteq Holder
      /\ e.holders # {} => e.max_holders # 0
  BY RowType
<1>2. IsFiniteSet(S) /\ Cardinality(S) \in Nat
  BY FS_Subset, FS_CardinalityType DEF Fine
<1>3. h \notin S
  BY DEF IdsOf
<1>4. IsFiniteSet(S \cup {h}) /\ Cardinality(S \cup {h}) = Cardinality(S) + 1
  BY <1>2, <1>3, FS_AddElement
<1>5. DistinctIds(S \cup {h})
  BY DEF Fine, DistinctIds, IdsOf
<1>6. Cardinality(S \cup {h}) <= seeded /\ seeded \in Nat \ {0}
  <2>1. CASE S = {}
    <3>1. Cardinality(S) = 0
      BY <2>1, FS_EmptySet
    <3> QED
      BY <2>1, <3>1, <1>4 DEF HasRoom
  <2>2. CASE S # {}
    BY <2>2, <1>1, <1>2, <1>4 DEF HasRoom
  <2> QED
    BY <2>1, <2>2
<1>7. S \cup {h} \in SUBSET Holder /\ S \cup {h} # {}
  BY <1>1
<1> QED
  BY <1>4, <1>5, <1>6, <1>7, RowIntro

-----------------------------------------------------------------------------
\* The table.

\* A transition that rewrites one row with a fine one keeps the table fine,
\* and keeps subtrees exclusive if a row only gets its first holder when
\* nothing above or below it is held.
LEMMA RowStep ==
    ASSUME IInv, NEW path \in LockPaths, NEW row, Fine(row),
           locks' = [locks EXCEPT ![path] = row],
           row.holders # {} =>
              locks[path].holders # {} \/ ~ HierarchyConflict(locks, path)
    PROVE  /\ locks' \in [LockPaths -> Entries(LockIds, Nat)]
           /\ AllFine'
           /\ SubtreeExclusive'
<1>1. locks \in [LockPaths -> Entries(LockIds, Nat)]
  BY DEF IInv, TypeOK
<1>2. locks' \in [LockPaths -> Entries(LockIds, Nat)]
  BY <1>1 DEF Fine
<1>3. AllFine'
  <2> SUFFICES ASSUME NEW p \in LockPaths PROVE Fine(locks'[p])
    BY DEF AllFine
  <2>1. CASE p = path
    BY <2>1, <1>1
  <2>2. CASE p # path
    BY <2>2, <1>1 DEF IInv, AllFine
  <2> QED
    BY <2>1, <2>2
<1>4. SubtreeExclusive'
  <2> SUFFICES ASSUME NEW p \in LockPaths, NEW q \in LockPaths,
                      p \in Ancestors(q)
               PROVE  locks'[p].holders = {} \/ locks'[q].holders = {}
    BY DEF SubtreeExclusive
  <2>1. locks[p].holders = {} \/ locks[q].holders = {}
    BY DEF IInv, SubtreeExclusive
  <2>2. DOMAIN locks = LockPaths
    BY <1>1
  <2>3. ~ HierarchyConflict(locks, path) =>
            /\ q = path => locks[p].holders = {}
            /\ p = path => locks[q].holders = {}
    BY <2>2 DEF HierarchyConflict, AncestorConflict, DescendantConflict, DescendantRange
  <2>4. p # q
    BY DEF Ancestors
  <2>5. CASE q = path
    BY <2>1, <2>3, <2>4, <2>5, <1>1
  <2>6. CASE p = path
    BY <2>1, <2>3, <2>4, <2>6, <1>1
  <2>7. CASE p # path /\ q # path
    BY <2>1, <2>7, <1>1
  <2> QED
    BY <2>5, <2>6, <2>7
<1> QED
  BY <1>2, <1>3, <1>4

\* The leases stay backed by a transition that rewrites one row if the
\* unexpired holders of the other leases survive in it and the lease it
\* grants, if any, is backed.
LEMMA LeaseStep ==
    ASSUME IInv, NEW path \in LockPaths, NEW row,
           locks' = [locks EXCEPT ![path] = row], clock' = clock,
           \A l \in leases' :
              \/ /\ l \in leases
                 /\ l.path = path =>
                       \A h \in locks[path].holders :
                          h.lock_id = l.lock_id /\ h.expires_at > clock => h \in row.holders
              \/ /\ l.path = path
                 /\ [lock_id |-> l.lock_id, expires_at |-> l.until] \in row.holders,
           leases' \subseteq Lease
    PROVE  LeasesBacked'
<1>1. locks \in [LockPaths -> Entries(LockIds, Nat)]
  BY DEF IInv, TypeOK
<1> SUFFICES ASSUME NEW l \in leases', l.until > clock
             PROVE  \E h \in locks'[l.path].holders :
                       h.lock_id = l.lock_id /\ h.expires_at = l.until
  BY DEF LeasesBacked
<1>2. l.path \in LockPaths
  BY DEF Lease
<1>3. CASE /\ l \in leases
           /\ l.path = path =>
                  \A h \in locks[path].holders :
                     h.lock_id = l.lock_id /\ h.expires_at > clock => h \in row.holders
  <2>1. PICK h \in locks[l.path].holders :
              h.lock_id = l.lock_id /\ h.expires_at = l.until
    BY <1>3 DEF IInv, LeasesBacked
  <2>2. CASE l.path = path
    BY <2>1, <2>2, <1>1, <1>3
  <2>3. CASE l.path # path
    BY <2>1, <2>3, <1>1, <1>2
  <2> QED
    BY <2>2, <2>3
<1>4. CASE /\ l.path = path
           /\ [lock_id |-> l.lock_id, expires_at |-> l.until] \in row.holders
  BY <1>4, <1>1
<1> QED
  BY <1>3, <1>4

-----------------------------------------------------------------------------
\* The steps.

\* The empty table satisfies the invariant.
LEMMA InitIInv == Init => IInv
<1> SUFFICES ASSUME Init PROVE IInv
  OBVIOUS
<1>1. \A p \in LockPaths : locks[p] = NoEntry
  BY DEF Init, EmptyTable
<1>2. TypeOK
  BY AdvisoryAssumption DEF Init, TypeOK, EmptyTable, Entries, Lease
<1>3. AllFine
  BY <1>1, NoEntryFine DEF AllFine
<1>4. SubtreeExclusive /\ LeasesBacked
  BY <1>1 DEF Init, SubtreeExclusive, LeasesBacked, NoEntry
<1> QED
  BY <1>2, <1>3, <1>4 DEF IInv

\* Acquire: refused by the hierarchy, renewed, added or out of room.
LEMMA AcquireIInv ==
    ASSUME IInv, NEW path \in LockPaths, NEW id \in LockIds,
           NEW max \in Capacities, NEW ttl \in TTLs, NEW now \in 0 .. clock,
           Acquire(path, id, max, ttl, now)
    PROVE  IInv'
<1> DEFINE live   == Unexpired(locks[path].holders, now)
           new    == [lock_id |-> id, expires_at |-> now + ttl]
           seeded == IF live = {} THEN max ELSE locks[path].max_holders
           lease  == [path |-> path, lock_id |-> id, until |-> now + ttl]
<1>1. /\ now \in Nat /\ now <= clock /\ clock \in Nat
      /\ clock \in 0 .. MaxTime /\ ttl \in Nat /\ max \in Nat
      /\ leases \subseteq Lease /\ locks \in [LockPaths -> Entries(LockIds, Nat)]
  BY AdvisoryAssumption DEF IInv, TypeOK
<1>2. new \in Holder /\ lease \in Lease
  BY <1>1 DEF Holder, Lease
<1>3. clock' = clock
  BY DEF Acquire
<1>4. leases' \subseteq Lease
  BY <1>1, <1>2 DEF Acquire, OtherLeases
<1>5. Fine(locks[path])
  BY DEF IInv, AllFine
<1>6. live \subseteq locks[path].holders
  BY DEF Unexpired
<1>7. \A h \in locks[path].holders : h.expires_at > clock => h \in live
  <2>1. \A h \in locks[path].holders : h.expires_at \in Nat
    BY <1>1 DEF Entries, NoEntry
  <2> QED
    BY <1>1, <2>1 DEF Unexpired
<1>8. SUFFICES ASSUME ~ HierarchyConflict(locks, path)
               PROVE  IInv'
  <2>1. CASE HierarchyConflict(locks, path)
    <3>1. locks' = locks
      BY <2>1 DEF Acquire, AfterAcquire
    <3>2. leases' = leases
      BY <2>1 DEF Acquire, Acquires
    <3> QED
      BY <3>1, <3>2, <1>3 DEF IInv, TypeOK, AllFine, SubtreeExclusive, LeasesBacked
  <2> QED
    BY <2>1
<1>9. CASE id \in IdsOf(live)
  <2> DEFINE row == [max_holders |-> locks[path].max_holders,
                     holders |-> {h \in live : h.lock_id # id} \cup {new}]
  <2>1. locks' = [locks EXCEPT ![path] = row]
    BY <1>8, <1>9 DEF Acquire, AfterAcquire
  <2>2. PICK g \in live : g.lock_id = id
    BY <1>9 DEF IdsOf
  <2>3. Fine(row)
    BY <1>2, <1>5, <1>6, <2>2, RenewFine
  <2>4. leases' = OtherLeases(path, id) \cup {lease}
    BY <1>8, <1>9 DEF Acquire, Acquires
  <2>5. LeasesBacked'
    <3>1. [lock_id |-> lease.lock_id, expires_at |-> lease.until] \in row.holders
      OBVIOUS
    <3>2. \A h \in locks[path].holders :
             h.lock_id # id /\ h.expires_at > clock => h \in row.holders
      BY <1>7
    <3> HIDE DEF row
    <3>3. ASSUME NEW l \in leases'
          PROVE  \/ /\ l \in leases
                    /\ l.path = path =>
                          \A h \in locks[path].holders :
                             h.lock_id = l.lock_id /\ h.expires_at > clock
                                => h \in row.holders
                 \/ /\ l.path = path
                    /\ [lock_id |-> l.lock_id, expires_at |-> l.until] \in row.holders
      <4>1. CASE l = lease
        BY <3>1, <4>1
      <4>2. CASE l \in OtherLeases(path, id)
        BY <3>2, <4>2 DEF OtherLeases
      <4> QED
        BY <2>4, <4>1, <4>2
    <3> QED
      BY <1>3, <1>4, <2>1, <3>3, LeaseStep
  <2> HIDE DEF row
  <2>6. /\ locks' \in [LockPaths -> Entries(LockIds, Nat)]
        /\ AllFine'
        /\ SubtreeExclusive'
    BY <1>8, <2>1, <2>3, RowStep
  <2> QED
    BY <1>1, <1>3, <1>4, <2>5, <2>6 DEF IInv, TypeOK
<1>10. CASE id \notin IdsOf(live) /\ HasRoom(live, max, seeded)
  <2> DEFINE row == [max_holders |-> seeded, holders |-> live \cup {new}]
  <2>1. locks' = [locks EXCEPT ![path] = row]
    BY <1>8, <1>10 DEF Acquire, AfterAcquire
  <2>2. Fine(row)
    BY <1>1, <1>2, <1>5, <1>6, <1>10, AddFine
  <2>3. HasRoom(live, max, locks[path].max_holders)
    BY <1>10 DEF HasRoom
  <2>4. leases' = OtherLeases(path, id) \cup {lease}
    BY <1>8, <2>3 DEF Acquire, Acquires
  <2>5. LeasesBacked'
    <3>1. [lock_id |-> lease.lock_id, expires_at |-> lease.until] \in row.holders
      OBVIOUS
    <3>2. \A h \in locks[path].holders :
             h.lock_id # id /\ h.expires_at > clock => h \in row.holders
      BY <1>7
    <3> HIDE DEF row
    <3>3. ASSUME NEW l \in leases'
          PROVE  \/ /\ l \in leases
                    /\ l.path = path =>
                          \A h \in locks[path].holders :
                             h.lock_id = l.lock_id /\ h.expires_at > clock
                                => h \in row.holders
                 \/ /\ l.path = path
                    /\ [lock_id |-> l.lock_id, expires_at |-> l.until] \in row.holders
      <4>1. CASE l = lease
        BY <3>1, <4>1
      <4>2. CASE l \in OtherLeases(path, id)
        BY <3>2, <4>2 DEF OtherLeases
      <4> QED
        BY <2>4, <4>1, <4>2
    <3> QED
      BY <1>3, <1>4, <2>1, <3>3, LeaseStep
  <2> HIDE DEF row
  <2>6. /\ locks' \in [LockPaths -> Entries(LockIds, Nat)]
        /\ AllFine'
        /\ SubtreeExclusive'
    BY <1>8, <2>1, <2>2, RowStep
  <2> QED
    BY <1>1, <1>3, <1>4, <2>5, <2>6 DEF IInv, TypeOK
<1>11. CASE id \notin IdsOf(live) /\ ~ HasRoom(live, max, seeded)
  <2> DEFINE row == [max_holders |-> seeded, holders |-> live]
  <2>1. locks' = [locks EXCEPT ![path] = row]
    BY <1>8, <1>11 DEF Acquire, AfterAcquire
  <2>2. Fine(row)
    <3>1. CASE live = {}
      <4>1. max = 0
        BY <1>1, <1>11, <3>1 DEF HasRoom
      <4> QED
        BY <3>1, <4>1, NoEntryFine DEF NoEntry
    <3>2. CASE live # {}
      <4>1. row = Compact([locks[path] EXCEPT !.holders = live])
        BY <1>5, <3>2, RowType DEF Compact
      <4> QED
        BY <1>5, <1>6, <4>1, ShrinkFine
    <3> QED
      BY <3>1, <3>2
  <2>3. leases' = leases
    <3>1. ~ HasRoom(live, max, locks[path].max_holders)
      BY <1>11 DEF HasRoom
    <3> QED
      BY <1>11, <3>1 DEF Acquire, Acquires
  <2>4. LeasesBacked'
    BY <1>3, <1>4, <1>7, <2>1, <2>3, LeaseStep
  <2> HIDE DEF row
  <2>5. /\ locks' \in [LockPaths -> Entries(LockIds, Nat)]
        /\ AllFine'
        /\ SubtreeExclusive'
    BY <1>8, <2>1, <2>2, RowStep
  <2> QED
    BY <1>1, <1>3, <1>4, <2>4, <2>5 DEF IInv, TypeOK
<1> QED
  BY <1>9, <1>10, <1>11

\* Extend: the row is pruned, a holder that is still there is renewed.
LEMMA ExtendIInv ==
    ASSUME IInv, NEW path \in LockPaths, NEW id \in LockIds, NEW ttl \in TTLs,
           NEW now \in 0 .. clock, Extend(path, id, ttl, now)
    PROVE  IInv'
<1> DEFINE live  == Unexpired(locks[path].holders, now)
           new   == [lock_id |-> id, expires_at |-> now + ttl]
           lease == [path |-> path, lock_id |-> id, until |-> now + ttl]
<1>1. /\ now \in Nat /\ now <= clock /\ clock \in Nat
      /\ clock \in 0 .. MaxTime /\ ttl \in Nat
      /\ leases \subseteq Lease /\ locks \in [LockPaths -> Entries(LockIds, Nat)]
  BY AdvisoryAssumption DEF IInv, TypeOK
<1>2. new \in Holder /\ lease \in Lease
  BY <1>1 DEF Holder, Lease
<1>3. clock' = clock
  BY DEF Extend
<1>4. leases' \subseteq Lease
  BY <1>1, <1>2 DEF Extend, OtherLeases
<1>5. Fine(locks[path])
  BY DEF IInv, AllFine
<1>6. live \subseteq locks[path].holders
  BY DEF Unexpired
<1>7. \A h \in locks[path].holders : h.expires_at > clock => h \in live
  <2>1. \A h \in locks[path].holders : h.expires_at \in Nat
    BY <1>1 DEF Entries, NoEntry
  <2> QED
    BY <1>1, <2>1 DEF Unexpired
<1>8. CASE id \in IdsOf(live)
  <2> DEFINE row == [locks[path] EXCEPT !.holders =
                        {h \in live : h.lock_id # id} \cup {new}]
  <2>1. locks' = [locks EXCEPT ![path] = row]
    BY <1>8 DEF Extend, AfterExtend
  <2>2. PICK g \in live : g.lock_id = id
    BY <1>8 DEF IdsOf
  <2>3. row = [max_holders |-> locks[path].max_holders,
               holders |-> {h \in live : h.lock_id # id} \cup {new}]
    BY <1>5, RowUpdate
  <2>4. Fine(row)
    BY <1>2, <1>5, <1>6, <2>2, <2>3, RenewFine
  <2>5. leases' = OtherLeases(path, id) \cup {lease}
    BY <1>8 DEF Extend, Extends
  <2>6. LeasesBacked'
    <3>1. [lock_id |-> lease.lock_id, expires_at |-> lease.until] \in row.holders
      BY <2>3
    <3>2. \A h \in locks[path].holders :
             h.lock_id # id /\ h.expires_at > clock => h \in row.holders
      BY <1>7, <2>3
    <3> HIDE DEF row
    <3>3. ASSUME NEW l \in leases'
          PROVE  \/ /\ l \in leases
                    /\ l.path = path =>
                          \A h \in locks[path].holders :
                             h.lock_id = l.lock_id /\ h.expires_at > clock
                                => h \in row.holders
                 \/ /\ l.path = path
                    /\ [lock_id |-> l.lock_id, expires_at |-> l.until] \in row.holders
      <4>1. CASE l = lease
        BY <3>1, <4>1
      <4>2. CASE l \in OtherLeases(path, id)
        BY <3>2, <4>2 DEF OtherLeases
      <4> QED
        BY <2>5, <4>1, <4>2
    <3> QED
      BY <1>3, <1>4, <2>1, <3>3, LeaseStep
  <2>7. locks[path].holders # {}
    BY <1>6, <2>2
  <2> HIDE DEF row
  <2>8. /\ locks' \in [LockPaths -> Entries(LockIds, Nat)]
        /\ AllFine'
        /\ SubtreeExclusive'
    BY <2>1, <2>4, <2>7, RowStep
  <2> QED
    BY <1>1, <1>3, <1>4, <2>6, <2>8 DEF IInv, TypeOK
<1>9. CASE id \notin IdsOf(live)
  <2> DEFINE row == Compact([locks[path] EXCEPT !.holders = live])
  <2>1. locks' = [locks EXCEPT ![path] = row]
    BY <1>9 DEF Extend, AfterExtend
  <2>2. Fine(row)
    BY <1>5, <1>6, ShrinkFine
  <2>3. leases' = OtherLeases(path, id)
    BY <1>9 DEF Extend, Extends
  <2>4. row.holders = live
    BY <1>5, RowType DEF Compact, NoEntry
  <2> HIDE DEF row
  <2>5. LeasesBacked'
    <3>1. ASSUME NEW l \in leases'
          PROVE  /\ l \in leases
                 /\ l.path = path =>
                       \A h \in locks[path].holders :
                          h.lock_id = l.lock_id /\ h.expires_at > clock => h \in row.holders
      BY <1>7, <2>3, <2>4 DEF OtherLeases
    <3> QED
      BY <1>3, <1>4, <2>1, <3>1, LeaseStep, ZenonT(30)
  <2>6. row.holders # {} => locks[path].holders # {}
    BY <1>6, <2>4
  <2>7. /\ locks' \in [LockPaths -> Entries(LockIds, Nat)]
        /\ AllFine'
        /\ SubtreeExclusive'
    BY <2>1, <2>2, <2>6, RowStep
  <2> QED
    BY <1>1, <1>3, <1>4, <2>5, <2>7 DEF IInv, TypeOK
<1> QED
  BY <1>8, <1>9

\* Release: one holder goes, with the lease that rested on it.
LEMMA ReleaseIInv ==
    ASSUME IInv, NEW path \in LockPaths, NEW id \in LockIds, Release(path, id)
    PROVE  IInv'
<1> DEFINE rest == {h \in locks[path].holders : h.lock_id # id}
           row  == Compact([locks[path] EXCEPT !.holders = rest])
<1>1. clock' = clock /\ leases' \subseteq Lease
  BY DEF Release, OtherLeases, IInv, TypeOK
<1>2. Fine(locks[path]) /\ rest \subseteq locks[path].holders
  BY DEF IInv, AllFine
<1>3. locks' = [locks EXCEPT ![path] = row]
  BY DEF Release, AfterRelease
<1>4. Fine(row)
  BY <1>2, ShrinkFine
<1>5. row.holders = rest
  BY <1>2, RowType DEF Compact, NoEntry
<1> HIDE DEF row
<1>6. LeasesBacked'
  <2>1. ASSUME NEW l \in leases'
        PROVE  /\ l \in leases
               /\ l.path = path =>
                     \A h \in locks[path].holders :
                        h.lock_id = l.lock_id /\ h.expires_at > clock => h \in row.holders
    BY <1>5 DEF Release, OtherLeases
  <2> HIDE DEF rest
  <2> QED
    BY <1>1, <1>3, <2>1, LeaseStep, ZenonT(30)
<1>7. row.holders # {} => locks[path].holders # {}
  BY <1>5
<1>8. /\ locks' \in [LockPaths -> Entries(LockIds, Nat)]
      /\ AllFine'
      /\ SubtreeExclusive'
  BY <1>3, <1>4, <1>7, RowStep
<1> QED
  BY <1>1, <1>6, <1>8 DEF IInv, TypeOK

\* Force release: the row goes, with every lease on the path.
LEMMA ForceReleaseIInv ==
    ASSUME IInv, NEW path \in LockPaths, ForceRelease(path)
    PROVE  IInv'
<1>1. /\ clock' = clock /\ leases' \subseteq Lease
      /\ leases' = {l \in leases : l.path # path}
  BY DEF ForceRelease, IInv, TypeOK
<1>2. locks' = [locks EXCEPT ![path] = NoEntry]
  BY DEF ForceRelease, AfterForceRelease
<1>3. LeasesBacked'
  BY <1>1, <1>2, LeaseStep
<1>4. /\ locks' \in [LockPaths -> Entries(LockIds, Nat)]
      /\ AllFine'
      /\ SubtreeExclusive'
  BY <1>2, NoEntryFine, RowStep DEF NoEntry
<1> QED
  BY <1>1, <1>3, <1>4 DEF IInv, TypeOK

\* Every step keeps the invariant; a tick only takes leases away.
LEMMA NextIInv == IInv /\ [Next]_vars => IInv'
<1> SUFFICES ASSUME IInv, [Next]_vars PROVE IInv'
  OBVIOUS
<1>1. CASE Tick
  <2>1. /\ clock \in Nat /\ clock' = clock + 1 /\ clock' \in 0 .. MaxTime
        /\ leases' \subseteq leases /\ locks' = locks
    BY <1>1, AdvisoryAssumption DEF Tick, IInv, TypeOK
  <2>2. \A l \in leases : l.until \in Nat
    BY DEF IInv, TypeOK, Lease
  <2>3. LeasesBacked'
    BY <2>1, <2>2 DEF IInv, LeasesBacked
  <2>4. TypeOK'
    BY <2>1 DEF IInv, TypeOK
  <2> QED
    BY <2>1, <2>3, <2>4 DEF IInv, AllFine, SubtreeExclusive
<1>2. CASE UNCHANGED vars
  BY <1>2 DEF vars, IInv, TypeOK, AllFine, SubtreeExclusive, LeasesBacked
<1>3. CASE \E path \in LockPaths, id \in LockIds, ttl \in TTLs, now \in 0 .. clock :
              \/ \E max \in Capacities : Acquire(path, id, max, ttl, now)
              \/ Extend(path, id, ttl, now)
  BY <1>3, AcquireIInv, ExtendIInv
<1>4. CASE \E path \in LockPaths, id \in LockIds : Release(path, id)
  BY <1>4, ReleaseIInv
<1>5. CASE \E path \in LockPaths : ForceRelease(path)
  BY <1>5, ForceReleaseIInv
<1> QED
  BY <1>1, <1>2, <1>3, <1>4, <1>5 DEF Next

\* The invariant holds in every reachable state.
THEOREM AdvisoryInvariant == Spec => []IInv
  BY InitIInv, NextIInv, PTL DEF Spec

\* Every row of the table is a lock with a holder (apply_acquire leaves no
\* dangling row, apply_release and apply_extend compact).
THEOREM AdvisoryTypeOK == Spec => []TypeOK
<1>1. IInv => TypeOK
  BY DEF IInv
<1> QED
  BY <1>1, AdvisoryInvariant, PTL

\* No lock ever has more holders than its capacity, nor an id twice
\* (apply_acquire's pruning, renewal and capacity check).
THEOREM AdvisoryCapacity == Spec => []CapacityRespected
<1>1. IInv => CapacityRespected
  BY DEF IInv, AllFine, Fine, DistinctIds, CapacityRespected
<1> QED
  BY <1>1, AdvisoryInvariant, PTL

\* A path and a path above it never both have holders (ancestor_conflict,
\* descendant_conflict).
THEOREM AdvisorySubtreeExclusive == Spec => []SubtreeExclusive
<1>1. IInv => SubtreeExclusive
  BY DEF IInv
<1> QED
  BY <1>1, AdvisoryInvariant, PTL

\* What a client was told it holds stays in the table until the lease ends:
\* no other client's acquire, extend or release evicts it.
THEOREM AdvisoryLeasesBacked == Spec => []LeasesBacked
<1>1. IInv => LeasesBacked
  BY DEF IInv
<1> QED
  BY <1>1, AdvisoryInvariant, PTL
=============================================================================
