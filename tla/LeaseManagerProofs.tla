------------------------ MODULE LeaseManagerProofs ------------------------
(* LeaseManager: its invariants hold, and it implements LeaseService, for    *)
(* every set of holders, resources and calls, every lag and every clock      *)
(* bound.                                                                    *)
EXTENDS LeaseManager, TLAPS

\* What an operation does to the tables: some leases go, and at most one comes.
Shrinks ==
    /\ by_resource' \in [Resources -> [Holders -> Lease \cup {NoLease}]]
    /\ by_holder' \in [Holders -> SUBSET Resources]
    /\ \A r \in Resources, h \in Holders :
          /\ by_resource'[r][h] \in {by_resource[r][h], NoLease}
          /\ r \in by_holder'[h] <=> r \in by_holder[h] /\ by_resource'[r][h] = by_resource[r][h]

Stores(l) ==
    /\ by_resource' \in [Resources -> [Holders -> Lease \cup {NoLease}]]
    /\ by_holder' \in [Holders -> SUBSET Resources]
    /\ l \in Lease
    /\ by_resource'[l.resource][l.holder] = l
    /\ l.resource \in by_holder'[l.holder]
    /\ \A r \in Resources, h \in Holders : <<r, h>> # <<l.resource, l.holder>> =>
          /\ by_resource'[r][h] \in {by_resource[r][h], NoLease}
          /\ r \in by_holder'[h] <=> r \in by_holder[h] /\ by_resource'[r][h] = by_resource[r][h]

TablesOK ==
    /\ by_resource \in [Resources -> [Holders -> Lease \cup {NoLease}]]
    /\ \A r \in Resources, h \in Holders : HeldBy(r, h) =>
          by_resource[r][h].resource = r /\ by_resource[r][h].holder = h
    /\ by_holder \in [Holders -> SUBSET Resources]

TablesInv == TablesOK /\ Exclusion /\ IndexesAgree

\* The three effects of a step on the tables and the fencing tokens.
Removes == Shrinks /\ generation' = generation

Renewal(l) ==
    /\ Stores(l)
    /\ HeldBy(l.resource, l.holder)
    /\ l = [by_resource[l.resource][l.holder] EXCEPT !.expires_at = l.expires_at]
    /\ generation' = generation

NewGrant(l) ==
    /\ Stores(l)
    /\ \A k \in Holders : k # l.holder /\ by_resource'[l.resource][k] # NoLease =>
          by_resource[l.resource][k].state = "shared" /\ l.state = "shared"
    /\ l.generation = generation[l.resource] + 1
    /\ generation' = [generation EXCEPT ![l.resource] = l.generation]

Inv == TypeOK /\ Exclusion /\ IndexesAgree

----------------------------------------------------------------------------
(* The two ways the tables change *)

\* Removing leases of a resource only makes the tables smaller (_remove, _evict).
LEMMA RemoveShrinks ==
    ASSUME TablesInv, NEW r \in Resources, NEW H \in SUBSET Holders, RemoveLeases(r, H)
    PROVE  Shrinks
<1>1. by_resource' \in [Resources -> [Holders -> Lease \cup {NoLease}]]
  BY DEF TablesInv, TablesOK, RemoveLeases
<1>2. by_holder' \in [Holders -> SUBSET Resources]
  BY DEF TablesInv, TablesOK, RemoveLeases
<1>3. ASSUME NEW s \in Resources, NEW h \in Holders
      PROVE  /\ by_resource'[s][h] \in {by_resource[s][h], NoLease}
             /\ s \in by_holder'[h] <=> s \in by_holder[h] /\ by_resource'[s][h] = by_resource[s][h]
  <2>1. CASE s = r /\ h \in H
    <3>1. by_resource'[s][h] = NoLease
      BY <2>1 DEF TablesInv, TablesOK, RemoveLeases
    <3>2. s \notin by_holder'[h]
      BY <2>1 DEF TablesInv, TablesOK, RemoveLeases
    <3>3. s \in by_holder[h] => by_resource[s][h] # NoLease
      BY DEF TablesInv, IndexesAgree, HeldBy
    <3> QED BY <3>1, <3>2, <3>3
  <2>2. CASE ~(s = r /\ h \in H)
    <3>1. by_resource'[s][h] = by_resource[s][h]
      BY <2>2 DEF TablesInv, TablesOK, RemoveLeases
    <3>2. s \in by_holder'[h] <=> s \in by_holder[h]
      BY <2>2 DEF TablesInv, TablesOK, RemoveLeases
    <3> QED BY <3>1, <3>2
  <2> QED BY <2>1, <2>2
<1> QED BY <1>1, <1>2, <1>3 DEF Shrinks

\* Storing a lease after an eviction stores it and only makes the rest smaller.
LEMMA ReplaceStores ==
    ASSUME TablesInv, NEW l \in Lease, NEW H \in SUBSET Holders,
           ReplaceLeases(l.resource, H, l)
    PROVE  Stores(l)
<1>0. l.resource \in Resources /\ l.holder \in Holders
  BY DEF Lease
<1>1. by_resource' \in [Resources -> [Holders -> Lease \cup {NoLease}]]
  BY <1>0 DEF TablesInv, TablesOK, ReplaceLeases
<1>2. by_holder' \in [Holders -> SUBSET Resources]
  BY <1>0 DEF TablesInv, TablesOK, ReplaceLeases
<1>3. by_resource'[l.resource][l.holder] = l /\ l.resource \in by_holder'[l.holder]
  BY <1>0 DEF TablesInv, TablesOK, ReplaceLeases
<1>4. ASSUME NEW s \in Resources, NEW h \in Holders, <<s, h>> # <<l.resource, l.holder>>
      PROVE  /\ by_resource'[s][h] \in {by_resource[s][h], NoLease}
             /\ s \in by_holder'[h] <=> s \in by_holder[h] /\ by_resource'[s][h] = by_resource[s][h]
  <2>1. CASE s = l.resource /\ h \in H
    <3>0. h # l.holder
      BY <2>1, <1>4
    <3>1. by_resource'[s][h] = NoLease
      BY <2>1, <3>0, <1>0 DEF TablesInv, TablesOK, ReplaceLeases
    <3>2. s \notin by_holder'[h]
      BY <2>1, <3>0, <1>0 DEF TablesInv, TablesOK, ReplaceLeases
    <3>3. s \in by_holder[h] => by_resource[s][h] # NoLease
      BY DEF TablesInv, IndexesAgree, HeldBy
    <3> QED BY <3>1, <3>2, <3>3
  <2>2. CASE ~(s = l.resource /\ h \in H)
    <3>1. by_resource'[s][h] = by_resource[s][h]
      BY <2>2, <1>4, <1>0 DEF TablesInv, TablesOK, ReplaceLeases
    <3>2. s \in by_holder'[h] <=> s \in by_holder[h]
      BY <2>2, <1>4, <1>0 DEF TablesInv, TablesOK, ReplaceLeases
    <3> QED BY <3>1, <3>2
  <2> QED BY <2>1, <2>2
<1> QED BY <1>1, <1>2, <1>3, <1>4 DEF Stores

\* Smaller tables satisfy what the larger ones did.
LEMMA ShrinksKeepsInv ==
    ASSUME TablesInv, Shrinks
    PROVE  TablesInv'
<1>1. TablesOK'
  BY DEF TablesInv, TablesOK, Shrinks, HeldBy
<1>2. Exclusion'
  BY DEF TablesInv, Exclusion, Shrinks, HeldBy
<1>3. IndexesAgree'
  BY DEF TablesInv, IndexesAgree, Shrinks, HeldBy
<1> QED BY <1>1, <1>2, <1>3 DEF TablesInv

\* So do tables with a new lease that is compatible with what is left.
LEMMA StoresKeepsInv ==
    ASSUME TablesInv, NEW l \in Lease, l # NoLease, Stores(l),
           \A k \in Holders : k # l.holder /\ by_resource'[l.resource][k] # NoLease =>
               by_resource[l.resource][k].state = "shared" /\ l.state = "shared"
    PROVE  TablesInv'
<1>0. l.resource \in Resources /\ l.holder \in Holders
  BY DEF Lease
<1>a. ASSUME NEW r \in Resources, NEW h \in Holders, by_resource'[r][h] # NoLease
      PROVE  \/ r = l.resource /\ h = l.holder /\ by_resource'[r][h] = l
             \/ /\ ~(r = l.resource /\ h = l.holder)
                /\ by_resource'[r][h] = by_resource[r][h] /\ by_resource[r][h] # NoLease
  BY <1>a, <1>0 DEF Stores
<1>1. TablesOK'
  <2>1. ASSUME NEW r \in Resources, NEW h \in Holders, by_resource'[r][h] # NoLease
        PROVE  by_resource'[r][h].resource = r /\ by_resource'[r][h].holder = h
    BY <2>1, <1>a DEF TablesInv, TablesOK, HeldBy
  <2> QED BY <2>1 DEF TablesOK, Stores, HeldBy
<1>2. Exclusion'
  <2> SUFFICES ASSUME NEW r \in Resources, NEW h \in Holders, NEW k \in Holders, h # k,
                      by_resource'[r][h] # NoLease, by_resource'[r][k] # NoLease
               PROVE  by_resource'[r][h].state = "shared" /\ by_resource'[r][k].state = "shared"
    BY DEF Exclusion, HeldBy, IsCompatible
  <2>1. CASE r = l.resource /\ h = l.holder
    BY <2>1, <1>a
  <2>2. CASE r = l.resource /\ k = l.holder
    BY <2>2, <1>a
  <2>3. CASE ~(r = l.resource /\ h = l.holder) /\ ~(r = l.resource /\ k = l.holder)
    BY <2>3, <1>a DEF TablesInv, Exclusion, HeldBy, IsCompatible
  <2> QED BY <2>1, <2>2, <2>3
<1>3. IndexesAgree'
  <2> SUFFICES ASSUME NEW r \in Resources, NEW h \in Holders
               PROVE  by_resource'[r][h] # NoLease <=> r \in by_holder'[h]
    BY DEF IndexesAgree, HeldBy
  <2>1. CASE r = l.resource /\ h = l.holder
    BY <2>1 DEF Stores
  <2>2. CASE ~(r = l.resource /\ h = l.holder)
    BY <2>2, <1>0 DEF Stores, TablesInv, IndexesAgree, HeldBy
  <2> QED BY <2>1, <2>2
<1> QED BY <1>1, <1>2, <1>3 DEF TablesInv

----------------------------------------------------------------------------
(* Which of the two an operation is *)

\* revoke_holder removes what the holder index names, and the indexes agree.
LEMMA RevokeHolderShrinks ==
    ASSUME TablesInv, NEW h \in Holders, RevokeHolder(h)
    PROVE  Removes
<1>1. by_resource' \in [Resources -> [Holders -> Lease \cup {NoLease}]]
  BY DEF TablesInv, TablesOK, RevokeHolder
<1>2. by_holder' \in [Holders -> SUBSET Resources]
  BY DEF TablesInv, TablesOK, RevokeHolder
<1>3. ASSUME NEW s \in Resources, NEW k \in Holders
      PROVE  /\ by_resource'[s][k] \in {by_resource[s][k], NoLease}
             /\ s \in by_holder'[k] <=> s \in by_holder[k] /\ by_resource'[s][k] = by_resource[s][k]
  <2>1. CASE k = h
    <3>1. s \notin by_holder'[k]
      BY <2>1 DEF TablesInv, TablesOK, RevokeHolder
    <3>2. CASE s \in by_holder[h]
      <4>1. by_resource'[s][k] = NoLease
        BY <2>1, <3>2 DEF TablesInv, TablesOK, RevokeHolder
      <4>2. by_resource[s][k] # NoLease
        BY <2>1, <3>2 DEF TablesInv, IndexesAgree, HeldBy
      <4> QED BY <4>1, <4>2, <3>1
    <3>3. CASE s \notin by_holder[h]
      BY <2>1, <3>1, <3>3 DEF TablesInv, TablesOK, RevokeHolder
    <3> QED BY <3>2, <3>3
  <2>2. CASE k # h
    <3>1. by_resource'[s][k] = by_resource[s][k]
      BY <2>2 DEF TablesInv, TablesOK, RevokeHolder
    <3>2. by_holder'[k] = by_holder[k]
      BY <2>2 DEF TablesInv, TablesOK, RevokeHolder
    <3> QED BY <3>1, <3>2
  <2> QED BY <2>1, <2>2
<1> QED BY <1>1, <1>2, <1>3 DEF Shrinks, Removes, RevokeHolder

\* The sweep removes the expired leases of all resources from both indexes.
LEMMA SweepShrinks ==
    ASSUME TablesInv, NEW t \in Nat, SweepExpired(t)
    PROVE  Removes
<1>1. by_resource' \in [Resources -> [Holders -> Lease \cup {NoLease}]]
  BY DEF TablesInv, TablesOK, SweepExpired
<1>2. by_holder' \in [Holders -> SUBSET Resources]
  BY DEF TablesInv, TablesOK, SweepExpired
<1>3. ASSUME NEW s \in Resources, NEW k \in Holders
      PROVE  /\ by_resource'[s][k] \in {by_resource[s][k], NoLease}
             /\ s \in by_holder'[k] <=> s \in by_holder[k] /\ by_resource'[s][k] = by_resource[s][k]
  <2>1. s \in by_holder'[k] <=> s \in by_holder[k] /\ k \notin Expired(s, t)
    BY DEF TablesInv, TablesOK, SweepExpired
  <2>2. by_resource'[s][k] = IF k \in Expired(s, t) THEN NoLease ELSE by_resource[s][k]
    BY DEF TablesInv, TablesOK, SweepExpired
  <2>3. k \in Expired(s, t) => by_resource[s][k] # NoLease
    BY DEF Expired, HeldBy
  <2> QED BY <2>1, <2>2, <2>3
<1> QED BY <1>1, <1>2, <1>3 DEF Shrinks, Removes, SweepExpired

\* A renewed lease is the old one with a new expiry, so it is still filed
\* where it was.
LEMMA RenewedLease ==
    ASSUME TablesInv, NEW r \in Resources, NEW h \in Holders, HeldBy(r, h), NEW e \in Nat
    PROVE  LET l == [by_resource[r][h] EXCEPT !.expires_at = e] IN
           /\ l \in Lease /\ l.resource = r /\ l.holder = h
           /\ l = [by_resource[r][h] EXCEPT !.expires_at = l.expires_at]
           /\ l.state = by_resource[r][h].state
<1>1. /\ by_resource[r][h] \in Lease
      /\ by_resource[r][h].resource = r /\ by_resource[r][h].holder = h
  BY DEF TablesInv, TablesOK, HeldBy
<1> QED BY <1>1 DEF Lease

\* The arguments of a call have their types.
LEMMA CallArguments ==
    ASSUME NEW c \in Calls
    PROVE  /\ c.resource \in Resources /\ c.holder \in Holders
           /\ c.state \in LeaseStates /\ c.ttl \in Nat
           /\ c.timeout \in Nat
<1>1. c \in [id : Nat, resource : Resources, holder : Holders,
            state : LeaseStates, ttl : Ttls, timeout : Nat]
  BY LeaseAssumption
<1>2. c.ttl \in Ttls
  BY <1>1
<1>3. c.ttl \in Nat
  BY <1>2, LeaseAssumption
<1> QED BY <1>1, <1>3

\* The renewal of acquire() is a renewal in the sense above.
LEMMA RenewLeaseRenews ==
    ASSUME TypeOK, TablesInv, NEW c \in Calls, RenewLease(c)
    PROVE  \E l \in Lease : Renewal(l)
<1> DEFINE l == [by_resource[c.resource][c.holder] EXCEPT !.expires_at = now + c.ttl]
<1>1. c.resource \in Resources /\ c.holder \in Holders /\ now + c.ttl \in Nat
  BY CallArguments DEF TypeOK
<1>2. HeldBy(c.resource, c.holder)
  BY DEF RenewLease, Renews
<1>3. /\ l \in Lease /\ l.resource = c.resource /\ l.holder = c.holder
      /\ l = [by_resource[c.resource][c.holder] EXCEPT !.expires_at = l.expires_at]
  BY <1>1, <1>2, RenewedLease
<1>4. Expired(c.resource, now) \in SUBSET Holders
  BY DEF Expired
<1>5. ReplaceLeases(l.resource, Expired(c.resource, now), l) /\ generation' = generation
  BY <1>3 DEF RenewLease
<1> HIDE DEF l
<1>6. Stores(l)
  BY <1>3, <1>4, <1>5, ReplaceStores
<1> QED BY <1>2, <1>3, <1>5, <1>6 DEF Renewal

\* A grant evicts what is expired, and finds nothing else that conflicts.
LEMMA GrantLeaseGrants ==
    ASSUME TypeOK, TablesInv, NEW c \in Calls, GrantLease(c)
    PROVE  \E l \in Lease : NewGrant(l)
<1> DEFINE l == [resource |-> c.resource, holder |-> c.holder, state |-> c.state,
                 generation |-> generation[c.resource] + 1, expires_at |-> now + c.ttl]
           X == Expired(c.resource, now)
<1>0. /\ c.resource \in Resources /\ c.holder \in Holders /\ c.state \in LeaseStates
      /\ c.ttl \in Nat
  BY CallArguments
<1>1. /\ c.resource \in Resources /\ c.holder \in Holders /\ c.state \in LeaseStates
      /\ now + c.ttl \in Nat /\ generation[c.resource] + 1 \in Nat
  BY <1>0 DEF TypeOK
<1>2. /\ l \in Lease /\ l.resource = c.resource /\ l.holder = c.holder /\ l.state = c.state
      /\ l.generation = generation[c.resource] + 1
  BY <1>1 DEF Lease
<1>3. X \in SUBSET Holders
  BY DEF Expired
<1>4. ReplaceLeases(l.resource, X, l)
  BY <1>2 DEF GrantLease
<1>5. generation' = [generation EXCEPT ![l.resource] = l.generation]
  BY <1>2 DEF GrantLease
<1> HIDE DEF l
<1>6. Stores(l)
  BY <1>2, <1>3, <1>4, ReplaceStores
<1>7. ASSUME NEW k \in Holders, k # l.holder, by_resource'[l.resource][k] # NoLease
      PROVE  by_resource[l.resource][k].state = "shared" /\ l.state = "shared"
  <2>1. k \notin X /\ by_resource'[l.resource][k] = by_resource[l.resource][k]
    BY <1>1, <1>2, <1>4, <1>7 DEF ReplaceLeases, TablesInv, TablesOK
  <2>2. HeldBy(c.resource, k) /\ ~IsExpired(by_resource[c.resource][k], now)
    BY <2>1, <1>2, <1>7 DEF Expired, HeldBy
  <2>3. k \notin Conflicts(c.resource, c.holder, c.state, now)
    BY DEF GrantLease, InTheWay
  <2> QED BY <1>2, <1>7, <2>2, <2>3 DEF Conflicts, IsCompatible
<1> QED BY <1>2, <1>5, <1>6, <1>7 DEF NewGrant

\* extend() renews a lease that has not run out and removes one that has.
LEMMA ExtendEffect ==
    ASSUME TypeOK, TablesInv, NEW r \in Resources, NEW h \in Holders,
           NEW ttl \in Ttls, NEW t \in Nat, Extend(r, h, ttl, t)
    PROVE  Removes \/ \E l \in Lease : Renewal(l)
<1> DEFINE l == [by_resource[r][h] EXCEPT !.expires_at = t + ttl]
<1>0. generation' = generation
  BY DEF Extend
<1>1. CASE RemoveLeases(r, {h})
  BY <1>0, <1>1, RemoveShrinks DEF Removes
<1>2. CASE ReplaceLeases(r, {}, l)
  <2>1. t + ttl \in Nat
    BY LeaseAssumption
  <2>2. HeldBy(r, h)
    BY DEF Extend
  <2>3. /\ l \in Lease /\ l.resource = r /\ l.holder = h
        /\ l = [by_resource[r][h] EXCEPT !.expires_at = l.expires_at]
    BY <2>1, <2>2, RenewedLease
  <2> HIDE DEF l
  <2>4. Stores(l)
    BY <1>2, <2>3, ReplaceStores
  <2> QED BY <1>0, <2>2, <2>3, <2>4 DEF Renewal
<1> QED BY <1>1, <1>2 DEF Extend

----------------------------------------------------------------------------
(* One step of the manager *)

\* The invariant of the tables is part of the whole one.
LEMMA InvTables == Inv => TablesInv
BY DEF Inv, TypeOK, TablesInv, TablesOK

\* A step that leaves the tables alone.
LEMMA SameTables ==
    ASSUME TablesInv, UNCHANGED tables
    PROVE  Removes
BY DEF TablesInv, TablesOK, tables, Removes, Shrinks

\* Every operation removes leases, renews one or grants one.
LEMMA StepEffect ==
    ASSUME Inv, [Next]_vars
    PROVE  \/ Removes
           \/ \E l \in Lease : Renewal(l)
           \/ \E l \in Lease : NewGrant(l)
<1>0. TablesInv /\ TypeOK
  BY InvTables DEF Inv
<1>r. ASSUME NEW r \in Resources, NEW H \in SUBSET Holders, RemoveLeases(r, H),
             generation' = generation
      PROVE  Removes
  BY <1>0, <1>r, RemoveShrinks DEF Removes
<1>t. \A t \in Readings : t \in Nat
  BY <1>0 DEF TypeOK, Readings
<1>x. \A r, t : Expired(r, t) \in SUBSET Holders
  BY DEF Expired
<1>1. ASSUME NEW c \in Calls, AcquireStart(c) PROVE Removes
  BY <1>0, <1>1, SameTables DEF AcquireStart
<1>2. ASSUME NEW c \in Calls, AcquireTimesOut(c) PROVE Removes
  BY <1>0, <1>2, SameTables DEF AcquireTimesOut
<1>3. ASSUME NEW c \in Calls, AcquireEnter(c) PROVE Removes
  BY <1>0, <1>3, SameTables DEF AcquireEnter
<1>4. ASSUME NEW c \in Calls, AcquireRenew(c) PROVE \E l \in Lease : Renewal(l)
  BY <1>0, <1>4, RenewLeaseRenews DEF AcquireRenew
<1>5. ASSUME NEW c \in Calls, AcquireGrant(c) PROVE \E l \in Lease : NewGrant(l)
  BY <1>0, <1>5, GrantLeaseGrants DEF AcquireGrant
<1>6. ASSUME NEW c \in Calls, AcquireRefuse(c) PROVE Removes
  BY <1>r, <1>x, <1>6, CallArguments DEF AcquireRefuse
<1>7. ASSUME NEW c \in Calls, AcquireRevoke(c) PROVE Removes
  <2>1. Expired(c.resource, now) \cup {c.holder} \cup InTheWay(c) \in SUBSET Holders
    BY <1>x, CallArguments DEF InTheWay, Conflicts
  <2> QED BY <1>r, <2>1, <1>7, CallArguments DEF AcquireRevoke
<1>8. ASSUME NEW c \in Calls, AcquireRetry(c) PROVE Removes
  BY <1>0, <1>8, SameTables DEF AcquireRetry
<1>9. ASSUME NEW r \in Resources, NEW t \in Readings, EvictExpired(r, t) PROVE Removes
  BY <1>r, <1>x, <1>9 DEF EvictExpired
<1>10. ASSUME NEW r \in Resources, NEW H \in SUBSET Holders, Revoke(r, H) PROVE Removes
  BY <1>r, <1>10 DEF Revoke
<1>11. ASSUME NEW h \in Holders, RevokeHolder(h) PROVE Removes
  BY <1>0, <1>11, RevokeHolderShrinks
<1>12. ASSUME NEW r \in Resources, NEW h \in Holders, NEW ttl \in Ttls, NEW t \in Readings,
              Extend(r, h, ttl, t)
       PROVE  Removes \/ \E l \in Lease : Renewal(l)
  BY <1>0, <1>t, <1>12, ExtendEffect
<1>13. ASSUME NEW t \in Readings, SweepExpired(t) PROVE Removes
  BY <1>0, <1>t, <1>13, SweepShrinks
<1>14. ASSUME NEW h \in Holders, RegisterCallback(h) \/ UnregisterCallback(h) PROVE Removes
  BY <1>0, <1>14, SameTables DEF RegisterCallback, UnregisterCallback
<1>15. ASSUME NEW n \in notices, CallbackEnds(n) PROVE Removes
  BY <1>0, <1>15, SameTables DEF CallbackEnds
<1>16. CASE Tick
  BY <1>0, <1>16, SameTables DEF Tick
<1>17. CASE UNCHANGED vars
  BY <1>0, <1>17, SameTables DEF vars, tables
<1>18. \A c \in Calls : AcquireStep(c) =>
          Removes \/ (\E l \in Lease : Renewal(l)) \/ (\E l \in Lease : NewGrant(l))
  BY <1>2, <1>3, <1>4, <1>5, <1>6, <1>7, <1>8 DEF AcquireStep
<1> QED BY <1>1, <1>18, <1>9, <1>10, <1>11, <1>12, <1>13, <1>14, <1>15, <1>16, <1>17 DEF Next

\* Each of the three effects keeps the invariant of the tables.
LEMMA EffectKeepsTables ==
    ASSUME TablesInv, generation \in [Resources -> Nat],
           \/ Removes
           \/ \E l \in Lease : Renewal(l)
           \/ \E l \in Lease : NewGrant(l)
    PROVE  TablesInv' /\ generation' \in [Resources -> Nat]
<1>0. TablesInv /\ generation \in [Resources -> Nat]
  OBVIOUS
<1>n. \A l \in Lease : l # NoLease /\ l.resource \in Resources /\ l.holder \in Holders /\ l.generation \in Nat
  BY LeaseAssumption DEF Lease
<1>1. CASE Removes
  BY <1>0, <1>1, ShrinksKeepsInv DEF Removes
<1>2. ASSUME NEW l \in Lease, Renewal(l) PROVE TablesInv' /\ generation' \in [Resources -> Nat]
  <2>1. by_resource[l.resource][l.holder] \in Lease /\ l.state = by_resource[l.resource][l.holder].state
    <3>1. by_resource[l.resource][l.holder] \in Lease
      BY <1>0, <1>2, <1>n DEF Renewal, HeldBy, TablesInv, TablesOK
    <3> QED BY <3>1, <1>2 DEF Renewal, Lease
  <2>2. ASSUME NEW k \in Holders, k # l.holder, by_resource'[l.resource][k] # NoLease
        PROVE  by_resource[l.resource][k].state = "shared" /\ l.state = "shared"
    <3>1. by_resource[l.resource][k] # NoLease
      BY <2>2, <1>2, <1>n DEF Renewal, Stores
    <3> QED BY <3>1, <2>1, <2>2, <1>0, <1>2, <1>n DEF Renewal, HeldBy, TablesInv, Exclusion, IsCompatible
  <2>3. TablesInv'
    BY <1>0, <1>2, <1>n, <2>2, StoresKeepsInv DEF Renewal
  <2> QED BY <1>0, <1>2, <2>3 DEF Renewal
<1>3. ASSUME NEW l \in Lease, NewGrant(l) PROVE TablesInv' /\ generation' \in [Resources -> Nat]
  <2>1. TablesInv'
    BY <1>0, <1>3, <1>n, StoresKeepsInv DEF NewGrant
  <2> QED BY <1>0, <1>3, <1>n, <2>1 DEF NewGrant
<1> QED BY <1>1, <1>2, <1>3

\* So every step keeps the invariant of the tables.
LEMMA StepKeepsTables ==
    ASSUME Inv, [Next]_vars
    PROVE  TablesInv' /\ generation' \in [Resources -> Nat]
<1>0. TablesInv /\ generation \in [Resources -> Nat]
  BY InvTables DEF Inv, TypeOK
<1> QED BY <1>0, EffectKeepsTables, StepEffect

\* The acquires, their callbacks and the clock.
CallsInv ==
    /\ callbacks \subseteq Holders
    /\ notices \subseteq [call : Calls, lease : Lease, reason : {"expired", "conflict"}]
    /\ acq \in [Calls -> AcquireCall]
    /\ now \in Nat

\* A step of an acquire that starts no callbacks.
LEMMA CallMoves ==
    ASSUME CallsInv, NEW c \in Calls, NEW rec \in AcquireCall,
           acq' = [acq EXCEPT ![c] = rec], UNCHANGED <<callbacks, notices, now>>
    PROVE  CallsInv'
BY DEF CallsInv

\* Every step keeps the invariant of the calls.
LEMMA StepKeepsCalls ==
    ASSUME Inv, [Next]_vars
    PROVE  CallsInv'
<1>0. CallsInv /\ TablesInv
  BY InvTables DEF Inv, CallsInv, TypeOK
<1>a. \A c \in Calls : /\ acq[c].deadline \in Nat /\ c.timeout \in Nat
                       /\ acq[c] \in AcquireCall
  BY <1>0, CallArguments DEF CallsInv, AcquireCall
<1>1. ASSUME NEW c \in Calls, AcquireStart(c) PROVE CallsInv'
  <2> DEFINE rec == [pc |-> "loop", deadline |-> now + c.timeout]
  <2>1. rec \in AcquireCall
    BY <1>0, <1>a DEF CallsInv, AcquireCall
  <2> QED BY <1>0, <1>1, <2>1, CallMoves DEF AcquireStart
<1>d. ASSUME NEW c \in Calls, Return(c), UNCHANGED <<callbacks, notices, now>>
      PROVE  CallsInv'
  <2> DEFINE rec == [pc |-> "done", deadline |-> 0]
  <2>1. rec \in AcquireCall
    BY DEF AcquireCall
  <2> QED BY <1>0, <1>d, <2>1, CallMoves DEF Return
<1>2. ASSUME NEW c \in Calls, AcquireTimesOut(c) PROVE CallsInv'
  BY <1>2, <1>d DEF AcquireTimesOut
<1>3. ASSUME NEW c \in Calls, AcquireEnter(c) PROVE CallsInv'
  <2> DEFINE rec == [acq[c] EXCEPT !.pc = "lock"]
  <2>1. rec \in AcquireCall
    BY <1>a DEF AcquireCall
  <2>2. acq' = [acq EXCEPT ![c] = rec]
    BY <1>3 DEF AcquireEnter
  <2> QED BY <1>0, <1>3, <2>1, <2>2, CallMoves DEF AcquireEnter
<1>4. ASSUME NEW c \in Calls, AcquireRenew(c) PROVE CallsInv'
  BY <1>4, <1>d DEF AcquireRenew
<1>5. ASSUME NEW c \in Calls, AcquireGrant(c) PROVE CallsInv'
  BY <1>5, <1>d DEF AcquireGrant
<1>6. ASSUME NEW c \in Calls, AcquireRefuse(c) PROVE CallsInv'
  BY <1>6, <1>d DEF AcquireRefuse
<1>7. ASSUME NEW c \in Calls, AcquireRevoke(c) PROVE CallsInv'
  <2>1. \A H \in SUBSET Holders : LeasesOf(c.resource, H) \subseteq Lease
    BY <1>0, CallArguments DEF LeasesOf, HeldBy, TablesInv, TablesOK
  <2>2. ASSUME NEW L \in SUBSET Lease, NEW reason \in {"expired", "conflict"}
        PROVE  Invoke(c, L, reason) \subseteq
                  [call : Calls, lease : Lease, reason : {"expired", "conflict"}]
    BY DEF Invoke
  <2>3. /\ LeasesOf(c.resource, Expired(c.resource, now)) \in SUBSET Lease
        /\ LeasesOf(c.resource, InTheWay(c)) \in SUBSET Lease
    BY <2>1 DEF Expired, InTheWay, Conflicts
  <2>4. notices' \subseteq [call : Calls, lease : Lease, reason : {"expired", "conflict"}]
    BY <1>0, <1>7, <2>2, <2>3 DEF AcquireRevoke, CallsInv
  <2>5. acq' \in [Calls -> AcquireCall]
    BY <1>0, <1>7 DEF AcquireRevoke, CallsInv, AcquireCall
  <2> QED BY <1>0, <1>7, <2>4, <2>5 DEF AcquireRevoke, CallsInv
<1>8. ASSUME NEW c \in Calls, AcquireRetry(c) PROVE CallsInv'
  <2> DEFINE rec == [acq[c] EXCEPT !.pc = "loop"]
  <2>1. rec \in AcquireCall
    BY <1>a DEF AcquireCall
  <2>2. acq' = [acq EXCEPT ![c] = rec]
    BY <1>8 DEF AcquireRetry
  <2> QED BY <1>0, <1>8, <2>1, <2>2, CallMoves DEF AcquireRetry
<1>9. ASSUME UNCHANGED <<callbacks, notices, acq, now>> PROVE CallsInv'
  BY <1>0, <1>9 DEF CallsInv
<1>10. ASSUME NEW h \in Holders, RegisterCallback(h) \/ UnregisterCallback(h) PROVE CallsInv'
  BY <1>0, <1>10 DEF RegisterCallback, UnregisterCallback, CallsInv
<1>11. ASSUME NEW n \in notices, CallbackEnds(n) PROVE CallsInv'
  BY <1>0, <1>11 DEF CallbackEnds, CallsInv
<1>12. CASE Tick
  BY <1>0, <1>12 DEF Tick, CallsInv
<1>13. \A c \in Calls : AcquireStep(c) => CallsInv'
  BY <1>2, <1>3, <1>4, <1>5, <1>6, <1>7, <1>8 DEF AcquireStep
<1>14. \A r, h, H, ttl, t :
          EvictExpired(r, t) \/ Revoke(r, H) \/ RevokeHolder(h) \/ Extend(r, h, ttl, t) \/ SweepExpired(t)
              => CallsInv'
  BY <1>9 DEF EvictExpired, Revoke, RevokeHolder, Extend, SweepExpired
<1>15. CASE UNCHANGED vars
  BY <1>9, <1>15 DEF vars
<1> QED BY <1>1, <1>10, <1>11, <1>12, <1>13, <1>14, <1>15 DEF Next

\* The invariant is inductive as it stands.
LEMMA InvInductive ==
    /\ Init => Inv
    /\ Inv /\ [Next]_vars => Inv'
<1>1. Init => Inv
  BY LeaseAssumption DEF Init, Inv, TypeOK, Exclusion, IndexesAgree, HeldBy, AcquireCall
<1>2. ASSUME Inv, [Next]_vars PROVE Inv'
  <2>1. TablesInv' /\ generation' \in [Resources -> Nat] /\ CallsInv'
    BY <1>2, StepKeepsTables, StepKeepsCalls
  <2> QED BY <2>1 DEF Inv, TypeOK, TablesInv, TablesOK, CallsInv
<1> QED BY <1>1, <1>2

----------------------------------------------------------------------------
(* The theorems *)

\* The inductive invariant holds in every reachable state.
THEOREM LeaseInvariant == Spec => []Inv
BY InvInductive, PTL DEF Spec

\* Every stored lease is filed under its own resource and holder, and the
\* tables of LocalLeaseManager keep their types.
THEOREM LeaseTypeOK == Spec => []TypeOK
<1>1. Inv => TypeOK
  BY DEF Inv
<1> QED BY <1>1, LeaseInvariant, PTL

\* Two holders have leases on one resource only if both are shared, whatever
\* the clock readings validate, extend and the sweep work with.
THEOREM LeaseExclusion == Spec => []Exclusion
<1>1. Inv => Exclusion
  BY DEF Inv
<1> QED BY <1>1, LeaseInvariant, PTL

\* _by_resource and _by_holder always name the same leases.
THEOREM LeaseIndexesAgree == Spec => []IndexesAgree
<1>1. Inv => IndexesAgree
  BY DEF Inv
<1> QED BY <1>1, LeaseInvariant, PTL

----------------------------------------------------------------------------
(* The refinement of LeaseService *)

\* The leases held are those in the slots of the table.
LEMMA HeldMembers ==
    \A x : x \in Held <=>
        \E r \in Resources, h \in Holders : by_resource[r][h] # NoLease /\ x = by_resource[r][h]
BY DEF Held, LeasesOf, HeldBy

\* The same after a step.
LEMMA HeldMembersNext ==
    \A x : x \in Held' <=>
        \E r \in Resources, h \in Holders : by_resource'[r][h] # NoLease /\ x = by_resource'[r][h]
BY DEF Held, LeasesOf, HeldBy

\* Removing leases is a Drop of the service.
LEMMA RemovesDrops ==
    ASSUME Removes
    PROVE  Service!SNext
<1>1. Held' \subseteq Held
  <2> SUFFICES ASSUME NEW x \in Held' PROVE x \in Held
    OBVIOUS
  <2>1. PICK r \in Resources, h \in Holders : by_resource'[r][h] # NoLease /\ x = by_resource'[r][h]
    BY HeldMembersNext
  <2>2. by_resource[r][h] = x /\ x # NoLease
    BY <2>1 DEF Removes, Shrinks
  <2> QED BY <2>2, HeldMembers
<1> DEFINE dropped == Held \ Held'
<1>2. dropped \in SUBSET Held /\ Held' = Held \ dropped
  BY <1>1
<1> HIDE DEF dropped
<1>3. Service!Drop(dropped)
  BY <1>2 DEF Service!Drop, Removes
<1> QED BY <1>2, <1>3 DEF Service!SNext

\* After a lease is stored, what else is held was held before, in another slot.
LEMMA StoredRest ==
    ASSUME TablesInv, NEW l \in Lease, Stores(l), NEW x \in Held', x # l
    PROVE  /\ x \in Held
           /\ \E r \in Resources, h \in Holders :
                 /\ x = by_resource[r][h] /\ by_resource'[r][h] # NoLease
                 /\ x.resource = r /\ x.holder = h
                 /\ ~(r = l.resource /\ h = l.holder)
<1>1. PICK r \in Resources, h \in Holders : by_resource'[r][h] # NoLease /\ x = by_resource'[r][h]
  BY HeldMembersNext
<1>2. ~(r = l.resource /\ h = l.holder)
  BY <1>1 DEF Stores
<1>3. by_resource[r][h] = x /\ x # NoLease
  BY <1>1, <1>2 DEF Stores
<1>4. x \in Held
  BY <1>3, HeldMembers
<1>5. x.resource = r /\ x.holder = h
  BY <1>3 DEF TablesInv, TablesOK, HeldBy
<1> QED BY <1>1, <1>2, <1>3, <1>4, <1>5

\* A stored lease is held.
LEMMA StoredIsHeld ==
    ASSUME NEW l \in Lease, Stores(l)
    PROVE  l \in Held'
<1>1. l.resource \in Resources /\ l.holder \in Holders /\ l # NoLease
  BY LeaseAssumption DEF Lease
<1> QED BY <1>1, HeldMembersNext DEF Stores

\* A renewal is a Renew of the service.
LEMMA RenewalRenews ==
    ASSUME TablesInv, NEW l \in Lease, Renewal(l)
    PROVE  Service!SNext
<1> DEFINE k == by_resource[l.resource][l.holder]
           dropped == Held \ Held'
<1>0. l.resource \in Resources /\ l.holder \in Holders
  BY DEF Lease
<1>1. k \in Held /\ k.resource = l.resource /\ k.holder = l.holder
  BY <1>0, HeldMembers DEF Renewal, HeldBy, TablesInv, TablesOK
<1>2. l \in Held'
  BY StoredIsHeld DEF Renewal
<1>3. ASSUME NEW x \in Held', x # l PROVE x \in Held /\ x # k
  BY <1>1, <1>3, StoredRest DEF Renewal
<1>4. l = [k EXCEPT !.expires_at = l.expires_at] /\ generation' = generation
  BY DEF Renewal
<1> HIDE DEF k
<1>5. dropped \in SUBSET Held /\ Held' = (Held \ (dropped \cup {k})) \cup {l}
  <2>1. ASSUME NEW x \in Held' PROVE x \in (Held \ (dropped \cup {k})) \cup {l}
    BY <1>3
  <2>2. ASSUME NEW x \in (Held \ (dropped \cup {k})) \cup {l} PROVE x \in Held'
    BY <1>2
  <2> QED BY <2>1, <2>2
<1> HIDE DEF dropped
<1>6. Service!Renew(k, l, dropped)
  BY <1>1, <1>4, <1>5 DEF Service!Renew
<1> QED BY <1>1, <1>2, <1>5, <1>6 DEF Service!SNext

\* A grant is a Grant of the service.
LEMMA NewGrantGrants ==
    ASSUME TablesInv, generation \in [Resources -> Nat], NEW l \in Lease, NewGrant(l)
    PROVE  Service!SNext
<1> DEFINE dropped == Held \ (Held' \ {l})
<1>0. l.resource \in Resources /\ l.holder \in Holders
  BY DEF Lease
<1>1. l \in Held'
  BY StoredIsHeld DEF NewGrant
<1>2. \A x \in Held' : x # l => x \in Held
  BY StoredRest DEF NewGrant
<1>3. dropped \in SUBSET Held /\ Held' = (Held \ dropped) \cup {l}
  BY <1>1, <1>2
<1>4. ASSUME NEW x \in Held \ dropped PROVE Service!Compatible(x, l)
  <2>1. x \in Held' /\ x # l
    OBVIOUS
  <2>2. PICK r \in Resources, h \in Holders :
            /\ x = by_resource[r][h] /\ by_resource'[r][h] # NoLease
            /\ x.resource = r /\ x.holder = h
            /\ ~(r = l.resource /\ h = l.holder)
    BY <2>1, StoredRest DEF NewGrant
  <2>3. CASE r # l.resource
    BY <2>2, <2>3 DEF Service!Compatible
  <2>4. CASE r = l.resource
    BY <2>2, <2>4 DEF NewGrant, Service!Compatible
  <2> QED BY <2>3, <2>4
<1>5. l.generation > generation[l.resource]
  BY <1>0 DEF NewGrant
<1> HIDE DEF dropped
<1>6. Service!Grant(l, dropped)
  BY <1>3, <1>4, <1>5 DEF Service!Grant, NewGrant
<1> QED BY <1>1, <1>3, <1>6 DEF Service!SNext

\* LocalLeaseManager implements the abstract lease service: whatever the
\* operations, clock readings and callbacks, a grant is compatible with all
\* leases in the table and carries a token above every earlier one.
THEOREM LeaseRefinement == Spec => ImplementsLeaseService
<1>1. Init => Service!SInit
  <2> SUFFICES ASSUME Init PROVE Service!SInit
    OBVIOUS
  <2>1. Held = {}
    BY HeldMembers DEF Init
  <2> QED BY <2>1 DEF Init, Service!SInit
<1>2. Inv /\ [Next]_vars => [Service!SNext]_(Service!svars)
  <2> SUFFICES ASSUME Inv, [Next]_vars PROVE Service!SNext
    OBVIOUS
  <2>0. TablesInv /\ generation \in [Resources -> Nat]
    BY InvTables DEF Inv, TypeOK
  <2> QED BY <2>0, StepEffect, RemovesDrops, RenewalRenews, NewGrantGrants
<1> QED BY <1>1, <1>2, LeaseInvariant, PTL DEF Spec, ImplementsLeaseService, Service!SSpec
=============================================================================
