------------------------------ MODULE LockState ------------------------------
(***************************************************************************)
(* The state transitions of contracts::LockState, the table of advisory    *)
(* locks: one value (the table) in, one value out, so that the kernel's    *)
(* local backend and the replicated state machine use the same operators,  *)
(* as they do in the code.                                                 *)
(*                                                                         *)
(* A table is a function from paths to entries; an absent key is NoEntry,  *)
(* and so is the row without holders that a refused request for zero       *)
(* holders leaves behind, which every reader treats as absent.             *)
(* A path here is what the caller passed: LockState does not normalize.    *)
(* holder_info, acquired_at and the order of the holders are left out: no  *)
(* transition reads them.                                                  *)
(***************************************************************************)
EXTENDS PathTree, FiniteSets

NoEntry == [max_holders |-> 0, holders |-> {}]

\* What the table may hold for a path: nothing, or a lock with a holder.
Entries(ids, times) ==
    {NoEntry} \cup
    [max_holders : Nat \ {0},
     holders : (SUBSET [lock_id : ids, expires_at : times]) \ {{}}]

EmptyTable(paths) == [p \in paths |-> NoEntry]

MutUnexpired(holders, now) == {h \in holders : h.expires_at > now + 1}

\* holders.retain(|h| h.expires_at > now_secs)
Unexpired(holders, now) == {h \in holders : h.expires_at > now}

IdsOf(holders) == {h.lock_id : h \in holders}

MutNoAncestorCheck(tab, path) == FALSE

\* Any holder of a strict ancestor, expired or not.
AncestorConflict(tab, path) ==
    \E anc \in Ancestors(path) \cap DOMAIN tab : tab[anc].holders # {}

\* Any holder in the descendant range, expired or not.
DescendantConflict(tab, path) ==
    \E q \in DescendantRange(path, DOMAIN tab) : tab[q].holders # {}

HierarchyConflict(tab, path) ==
    AncestorConflict(tab, path) \/ DescendantConflict(tab, path)

MutRoomOffByOne(holders, max, seeded) ==
    IF holders = {} THEN 0 < max
    ELSE seeded = max /\ Cardinality(holders) <= max

\* Room for a new holder: the first holder seeds max_holders, later ones must
\* match it, and the entry must hold fewer than that.
HasRoom(holders, max, seeded) ==
    IF holders = {} THEN 0 < max
    ELSE seeded = max /\ Cardinality(holders) < max

\* The answer of apply_acquire.
Acquires(tab, path, id, max, now) ==
    LET live == Unexpired(tab[path].holders, now)
    IN  /\ ~ HierarchyConflict(tab, path)
        /\ id \in IdsOf(live) \/ HasRoom(live, max, tab[path].max_holders)

\* The table after apply_acquire.  A hierarchy conflict leaves it alone; in
\* every other case the path's expired holders are dropped first, then a
\* holder that is there gets a new expiry, else a new one is added if there
\* is room.
AfterAcquire(tab, path, id, max, ttl, now) ==
    LET live   == Unexpired(tab[path].holders, now)
        holder == [lock_id |-> id, expires_at |-> now + ttl]
        seeded == IF live = {} THEN max ELSE tab[path].max_holders
    IN  IF HierarchyConflict(tab, path) THEN tab
        ELSE [tab EXCEPT ![path] =
                IF id \in IdsOf(live)
                THEN [max_holders |-> tab[path].max_holders,
                      holders |-> {h \in live : h.lock_id # id} \cup {holder}]
                ELSE IF HasRoom(live, max, seeded)
                THEN [max_holders |-> seeded, holders |-> live \cup {holder}]
                ELSE [max_holders |-> seeded, holders |-> live]]

MutKeepsEmptyEntry(entry) == entry

\* An entry without holders is removed.
Compact(entry) == IF entry.holders = {} THEN NoEntry ELSE entry

\* The table after apply_release; the answer is whether the id was there.
AfterRelease(tab, path, id) ==
    [tab EXCEPT ![path] =
        Compact([tab[path] EXCEPT !.holders =
                    {h \in tab[path].holders : h.lock_id # id}])]

Releases(tab, path, id) == id \in IdsOf(tab[path].holders)

\* The table after apply_force_release.
AfterForceRelease(tab, path) == [tab EXCEPT ![path] = NoEntry]

\* The answer of apply_extend.
Extends(tab, path, id, now) == id \in IdsOf(Unexpired(tab[path].holders, now))

\* The table after apply_extend: the path's expired holders are dropped, a
\* holder that is still there gets its new expiry.
AfterExtend(tab, path, id, ttl, now) ==
    LET live == Unexpired(tab[path].holders, now)
    IN  [tab EXCEPT ![path] =
            IF id \in IdsOf(live)
            THEN [@ EXCEPT !.holders =
                    {h \in live : h.lock_id # id}
                        \cup {[lock_id |-> id, expires_at |-> now + ttl]}]
            ELSE Compact([@ EXCEPT !.holders = live])]
=============================================================================
