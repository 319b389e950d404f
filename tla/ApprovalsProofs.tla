-------------------------- MODULE ApprovalsProofs --------------------------
(* Approvals: every answer, grant and audit record is honest, for any number  *)
(* of workers, callers, operators and sessions, any timeouts, any number of   *)
(* failed database calls and crashes, and any interleaving of them.           *)
EXTENDS Approvals, TLAPS

\* An operator approved some row with this scope.
Granted(scope) ==
    \E q \in Callers :
        rows[q].status = "approved" /\ rows[q].scope = scope /\ ~rows[q].inherited

\* Where a call has no row yet, is about its own row, or waits for some row.
Early == {"idle", "insert", "select", "vanished", "vanishedAllow"}
Own == {"inherit", "adopt", "adoptAllow", "adopted"}
Joined == {"register", "recheck", "wait", "reread", "late", "expire", "expired", "lost"}

\* The rows and their audit.
RowsOK ==
    /\ rows \in [Callers -> RowType]
    /\ audit \in [Callers -> Seq(Terminal)]
    /\ AuditExact
    /\ \A r \in Callers : rows[r].inherited =>
          rows[r].status = "approved" /\ rows[r].scope # "once" /\ Granted(rows[r].scope)
    /\ ExpiredInTime

\* What a call knows of its row where it is.
CallOK(c) ==
    LET r == call[c].req
        pc == call[c].pc IN
    /\ pc \in Early => r = None
    /\ pc \in Own => r = c
    /\ pc \in Joined => r # None
    /\ r # None => rows[r].status # "none"
    /\ pc \in {"idle", "insert"} => rows[c].status = "none"
    /\ pc \in {"vanishedAllow", "adoptAllow"} => SessionOf[c] \in RealSessions /\ Granted("session")
    /\ pc = "adopt" =>
          /\ call[c].scope # "once" /\ Granted(call[c].scope)
          /\ call[c].scope = "session" => SessionOf[c] \in RealSessions
    /\ pc \in {"adoptAllow", "adopted"} => rows[c].status = "approved"
    /\ pc = "reread" => rows[r].status \in {"rejected", "expired"}
    /\ pc = "expire" => rows[r].expires_at <= call[c].until \/ faults > 0
    /\ pc = "expired" => rows[r].status = "expired"
    /\ pc = "lost" => rows[r].status \in Terminal
    /\ pc = "approved" /\ r # None => rows[r].status = "approved"
    /\ pc = "approved" /\ r = None => \E q \in Callers : Inheritable(c, q)
    /\ pc = "denied" => r # None /\ rows[r].status = "rejected"

CallsOK == call \in [Callers -> CallType] /\ \A c \in Callers : CallOK(c)

\* A future is filed under the row of its caller, and says what that row says.
FutureOK(c) ==
    /\ waiter[c] # None => waiter[c] = call[c].req
    /\ result[c] # None =>
          /\ call[c].req # None
          /\ result[c] = "approved" => rows[call[c].req].status = "approved"
          /\ result[c] # "approved" => rows[call[c].req].status \in {"rejected", "expired"}

FuturesOK ==
    /\ waiter \in [Callers -> Callers \cup {None}]
    /\ result \in [Callers -> {"approved", "denied", None}]
    /\ \A c \in Callers : FutureOK(c)

\* What an operator's call knows of the row it decided.
DecideOK(o) ==
    /\ dec[o].pc \in {"commit", "fanout", "insert"} => dec[o].req # None
    /\ dec[o].pc = "fanout" =>
          /\ rows[dec[o].req].status = dec[o].status
          /\ rows[dec[o].req].scope = dec[o].scope
          /\ ~rows[dec[o].req].inherited
    /\ dec[o].sids \subseteq RealSessions
    /\ dec[o].sids # {} => Granted("session")

DecidesOK == dec \in [Operators -> DecideType] /\ \A o \in Operators : DecideOK(o)

\* What is cached, or about to be, goes back to a SESSION approval.
GrantsOK ==
    /\ allow \in SUBSET RealSessions
    /\ inserts \in SUBSET (Workers \X RealSessions)
    /\ allow # {} \/ inserts # {} => Granted("session")

CountersOK == faults \in 0..MaxFaults /\ now \in 0..MaxTime

Inv == RowsOK /\ CallsOK /\ FuturesOK /\ DecidesOK /\ GrantsOK /\ CountersOK

\* A decided row never changes again, whoever else still has it in hand: no
\* operator, sweeper, timed-out or inheriting caller overrules an earlier one.
DecisionsFinal ==
    [][\A r \in Callers : rows[r].status \in Terminal =>
          rows'[r] = rows[r] /\ audit'[r] = audit[r]]_vars

----------------------------------------------------------------------------
(* The rows *)

\* What a step may do to the rows: decided ones stay, and a new one is inserted
\* only by the call it is named after.
RowsGrow ==
    /\ rows' \in [Callers -> RowType]
    /\ \A r \in Callers :
          /\ rows[r].status \in Terminal => rows'[r] = rows[r] /\ audit'[r] = audit[r]
          /\ rows[r].status # "none" =>
                rows'[r].status # "none" /\ rows'[r].expires_at = rows[r].expires_at
          /\ rows[r].status = "none" /\ rows'[r].status # "none" =>
                call[r].pc = "insert" /\ call'[r].pc = "inherit"
    /\ faults <= faults' /\ faults \in Nat /\ faults' \in Nat

\* An approval stays an approval.
LEMMA GrantedStays ==
    ASSUME RowsOK, RowsGrow, NEW scope, Granted(scope)
    PROVE  Granted(scope)'
BY DEF RowsOK, RowsGrow, Granted, Terminal

\* A decision on a pending row, with its audit record.
LEMMA TransitionKeeps ==
    ASSUME RowsOK, NEW r \in Callers, NEW status \in Terminal, NEW scope \in AllScopes,
           NEW t \in Nat, NEW inherited \in BOOLEAN,
           rows[r].status = "pending", Transition(r, status, scope, t, inherited),
           inherited => status = "approved" /\ scope # "once" /\ Granted(scope),
           status = "expired" => rows[r].expires_at <= t \/ faults > 0,
           faults <= faults', faults \in Nat, faults' \in Nat
    PROVE  RowsOK' /\ RowsGrow
<1> DEFINE new == [rows[r] EXCEPT !.status = status, !.decided_at = t,
                                  !.scope = scope, !.inherited = inherited]
<1>0. rows \in [Callers -> RowType] /\ rows[r] \in RowType
  BY DEF RowsOK
<1>1. /\ new \in RowType /\ new.status = status /\ new.decided_at = t /\ new.scope = scope
      /\ new.inherited = inherited /\ new.expires_at = rows[r].expires_at
  BY <1>0 DEF RowType, Terminal, Statuses
<1>2. rows' = [rows EXCEPT ![r] = new]
  BY DEF Transition
<1> HIDE DEF new
<1>3. /\ rows' \in [Callers -> RowType] /\ rows'[r] = new
      /\ \A q \in Callers : q # r => rows'[q] = rows[q]
  BY <1>0, <1>1, <1>2
<1>4. /\ audit' \in [Callers -> Seq(Terminal)]
      /\ \A q \in Callers : q # r => audit'[q] = audit[q]
      /\ audit'[r] = <<status>>
  <2>1. audit[r] = <<>>
    BY DEF RowsOK, AuditExact, Terminal
  <2>2. Append(audit[r], status) = <<status>> /\ <<status>> \in Seq(Terminal)
    BY <2>1
  <2>3. audit' = [audit EXCEPT ![r] = <<status>>] /\ audit \in [Callers -> Seq(Terminal)]
    BY <2>2 DEF Transition, RowsOK
  <2> QED BY <2>2, <2>3
<1>5. RowsGrow
  BY <1>1, <1>3, <1>4 DEF RowsGrow, Terminal
<1>6. AuditExact'
  BY <1>1, <1>3, <1>4 DEF RowsOK, AuditExact
<1>7. \A q \in Callers : rows'[q].inherited =>
          rows'[q].status = "approved" /\ rows'[q].scope # "once" /\ Granted(rows'[q].scope)
  BY <1>1, <1>3 DEF RowsOK
<1>8. ASSUME NEW q \in Callers, rows'[q].inherited
      PROVE  (rows[q].status = "approved" /\ rows[q].scope # "once" /\ Granted(rows[q].scope))'
  <2> DEFINE sc == rows'[q].scope
  <2>1. Granted(sc) /\ rows'[q].status = "approved" /\ sc # "once"
    BY <1>7, <1>8
  <2>2. \E k \in Callers : rows[k].status = "approved" /\ rows[k].scope = sc /\ ~rows[k].inherited
    BY <2>1 DEF Granted
  <2>3. \E k \in Callers : rows'[k].status = "approved" /\ rows'[k].scope = sc /\ ~rows'[k].inherited
    BY <2>2, <1>5 DEF RowsGrow, Terminal
  <2> QED BY <2>1, <2>3 DEF Granted
<1>9. ExpiredInTime'
  <2> SUFFICES ASSUME NEW q \in Callers, rows'[q].status = "expired",
                      rows'[q].decided_at < rows'[q].expires_at
               PROVE  faults' > 0
    BY DEF ExpiredInTime
  <2>1. CASE q = r
    <3>1. rows[r].expires_at \in Nat
      BY <1>0 DEF RowType
    <3> QED BY <1>1, <1>3, <2>1, <3>1
  <2>2. CASE q # r
    BY <1>3, <2>2 DEF RowsOK, ExpiredInTime
  <2> QED BY <2>1, <2>2
<1> QED BY <1>3, <1>4, <1>5, <1>6, <1>8, <1>9 DEF RowsOK

\* A step that leaves the rows alone.
LEMMA RowsStay ==
    ASSUME RowsOK, UNCHANGED <<rows, audit>>, faults <= faults', faults \in Nat, faults' \in Nat
    PROVE  RowsOK' /\ RowsGrow
<1>1. RowsGrow
  BY DEF RowsOK, RowsGrow
<1>2. AuditExact'
  BY DEF RowsOK, AuditExact
<1>3. ASSUME NEW r \in Callers, rows[r].inherited
      PROVE  (rows[r].status = "approved" /\ rows[r].scope # "once" /\ Granted(rows[r].scope))'
  BY <1>3 DEF RowsOK, Granted
<1>4. ExpiredInTime'
  BY DEF RowsOK, ExpiredInTime
<1> QED BY <1>1, <1>2, <1>3, <1>4 DEF RowsOK

\* The counters stay within their bounds, and faults are only added.
LEMMA CountersKept ==
    ASSUME CountersOK, [Next]_vars
    PROVE  CountersOK' /\ faults <= faults' /\ faults \in Nat /\ faults' \in Nat
<1>0. /\ faults \in 0..MaxFaults /\ now \in 0..MaxTime /\ MaxFaults \in Nat /\ MaxTime \in Nat
  BY ApprovalsAssumption DEF CountersOK
<1>1. ASSUME NEW c \in Callers, CallStep(c)
      PROVE  now' = now /\ (faults' = faults \/ Fault)
  BY <1>1 DEF CallStep, Start, InsertPending, FetchPending, Vanished, VanishedAllow,
              InheritRecent, Adopt, AdoptAllow, Adopted, Register, Recheck, Wake, Reread,
              TimesOut, Late, Expire, LostExpiry, ExpiredFanOut, others
<1>2. ASSUME NEW c \in Callers, CallFails(c)
      PROVE  now' = now /\ (faults' = faults \/ Fault)
  BY <1>2 DEF CallFails, LookupFails, InsertFails, InheritFails, RecheckFails, RereadFails, LateBlind,
              ExpireFails, others
<1>3. ASSUME NEW o \in Operators,
             \/ \E r \in Callers, scope \in Scopes : DecideStart(o, r, "approved", scope)
             \/ \E r \in Callers : DecideStart(o, r, "rejected", "once")
             \/ DecideCommit(o) \/ DecideFanOut(o) \/ DecideReturn(o)
             \/ \E s \in Sessions : DecideInsert(o, s)
      PROVE  now' = now /\ (faults' = faults \/ Fault)
  BY <1>3 DEF DecideStart, DecideCommit, DecideFanOut, DecideReturn, DecideInsert
<1>4. ASSUME NEW w \in Workers,
             \/ \E r \in Callers : Settle(w, r)
             \/ \E s \in Sessions : InsertAllow(w, s)
             \/ Crash(w)
      PROVE  now' = now /\ (faults' = faults \/ Fault)
  BY <1>4 DEF Settle, InsertAllow, Crash
<1>5. ASSUME SweepExpired PROVE now' = now /\ faults' = faults
  BY <1>5 DEF SweepExpired, others
<1>6. CASE Tick
  BY <1>0, <1>6 DEF Tick, CountersOK
<1>7. CASE UNCHANGED vars
  BY <1>0, <1>7 DEF vars, CountersOK
<1>8. ASSUME now' = now, faults' = faults \/ Fault
      PROVE  CountersOK' /\ faults <= faults' /\ faults \in Nat /\ faults' \in Nat
  BY <1>0, <1>8 DEF CountersOK, Fault
<1> QED BY <1>1, <1>2, <1>3, <1>4, <1>5, <1>6, <1>7, <1>8 DEF Next

\* Only five operations change rows.
LEMMA RowsChange ==
    ASSUME [Next]_vars
    PROVE  \/ UNCHANGED <<rows, audit>>
           \/ \E c \in Callers : InsertPending(c) \/ Adopt(c) \/ Expire(c)
           \/ \E o \in Operators : DecideCommit(o)
           \/ SweepExpired
<1>1. ASSUME NEW c \in Callers, CallStep(c)
      PROVE  UNCHANGED <<rows, audit>> \/ InsertPending(c) \/ Adopt(c) \/ Expire(c)
  BY <1>1 DEF CallStep, Start, FetchPending, Vanished, VanishedAllow, InheritRecent, AdoptAllow,
              Adopted, Register, Recheck, Wake, Reread, TimesOut, Late, LostExpiry, ExpiredFanOut, db
<1>2. ASSUME NEW c \in Callers, CallFails(c) PROVE UNCHANGED <<rows, audit>>
  BY <1>2 DEF CallFails, LookupFails, InsertFails, InheritFails, RecheckFails, RereadFails, LateBlind,
              ExpireFails, db
<1>3. ASSUME NEW o \in Operators,
             \/ \E r \in Callers, scope \in Scopes : DecideStart(o, r, "approved", scope)
             \/ \E r \in Callers : DecideStart(o, r, "rejected", "once")
             \/ DecideFanOut(o) \/ DecideReturn(o)
             \/ \E s \in Sessions : DecideInsert(o, s)
      PROVE  UNCHANGED <<rows, audit>>
  BY <1>3 DEF DecideStart, DecideFanOut, DecideReturn, DecideInsert, db
<1>4. ASSUME NEW w \in Workers,
             \/ \E r \in Callers : Settle(w, r)
             \/ \E s \in Sessions : InsertAllow(w, s)
             \/ Crash(w)
      PROVE  UNCHANGED <<rows, audit>>
  BY <1>4 DEF Settle, InsertAllow, Crash, db
<1>5. CASE Tick
  BY <1>5 DEF Tick, db
<1>6. CASE UNCHANGED vars
  BY <1>6 DEF vars
<1> QED BY <1>1, <1>2, <1>3, <1>4, <1>5, <1>6 DEF Next

\* Every step keeps the rows honest and the decided ones as they are.
LEMMA RowsKept ==
    ASSUME Inv, [Next]_vars
    PROVE  RowsOK' /\ RowsGrow
<1>0. RowsOK /\ CallsOK /\ DecidesOK /\ CountersOK
  BY DEF Inv
<1>f. faults <= faults' /\ faults \in Nat /\ faults' \in Nat /\ now \in Nat
  BY <1>0, CountersKept, ApprovalsAssumption DEF CountersOK
<1>1. CASE UNCHANGED <<rows, audit>>
  BY <1>0, <1>1, <1>f, RowsStay
<1>2. ASSUME NEW c \in Callers, InsertPending(c) PROVE RowsOK' /\ RowsGrow
  <2>1. CASE UNCHANGED rows
    BY <1>0, <1>f, <1>2, <2>1, RowsStay DEF InsertPending
  <2>2. CASE Pending = {}
    <3> DEFINE x == call[c].start + Durable(c)
               new == [NoRow EXCEPT !.status = "pending", !.session = SessionOf[c],
                                    !.expires_at = x]
    <3>0. x \in Nat /\ SessionOf[c] \in Sessions \cup {None}
      <4>1. call[c].start \in Nat
        BY <1>0 DEF CallsOK, CallType
      <4>2. Durable(c) \in Nat
        BY ApprovalsAssumption DEF Durable
      <4> QED BY <4>1, <4>2, ApprovalsAssumption
    <3>a. rows' = [rows EXCEPT ![c] = new]
      BY <1>2, <2>2 DEF InsertPending
    <3> HIDE DEF x
    <3>1. /\ new \in RowType /\ new.status = "pending" /\ new.inherited = FALSE
      BY <3>0 DEF RowType, NoRow, Statuses, AllScopes
    <3>2. rows' = [rows EXCEPT ![c] = new] /\ audit' = audit
      BY <1>2, <3>a DEF InsertPending
    <3> HIDE DEF new
    <3>3. /\ rows' \in [Callers -> RowType] /\ rows'[c] = new
          /\ \A q \in Callers : q # c => rows'[q] = rows[q]
      BY <1>0, <3>1, <3>2 DEF RowsOK
    <3>4. rows[c].status = "none" /\ call[c].pc = "insert" /\ call'[c].pc = "inherit"
      <4>1. call[c].pc = "insert" /\ rows[c].status = "none"
        BY <1>0, <1>2 DEF InsertPending, CallsOK, CallOK, At
      <4>2. call' = [call EXCEPT ![c] = [call[c] EXCEPT !.pc = "inherit", !.req = c]]
        BY <1>2, <2>2 DEF InsertPending
      <4>3. call \in [Callers -> CallType] /\ call[c] \in CallType
        BY <1>0 DEF CallsOK
      <4>4. [call[c] EXCEPT !.pc = "inherit", !.req = c].pc = "inherit"
        BY <4>3 DEF CallType
      <4> QED BY <4>1, <4>2, <4>3, <4>4
    <3>5. RowsGrow
      BY <1>f, <3>1, <3>2, <3>3, <3>4 DEF RowsGrow, Terminal
    <3>6. AuditExact'
      BY <1>0, <3>1, <3>2, <3>3, <3>4 DEF RowsOK, AuditExact, Terminal
    <3>7. ASSUME NEW q \in Callers, rows'[q].inherited
          PROVE  (rows[q].status = "approved" /\ rows[q].scope # "once" /\ Granted(rows[q].scope))'
      <4>1. q # c /\ rows'[q] = rows[q]
        BY <3>1, <3>3, <3>7
      <4>2. rows[q].status = "approved" /\ rows[q].scope # "once" /\ Granted(rows[q].scope)
        BY <1>0, <3>7, <4>1 DEF RowsOK
      <4> DEFINE sc == rows[q].scope
      <4>3. Granted(sc)'
        <5> HIDE DEF sc
        <5>1. Granted(sc)
          BY <4>2 DEF sc
        <5>2. \E k \in Callers : rows[k].status = "approved" /\ rows[k].scope = sc /\ ~rows[k].inherited
          BY <5>1 DEF Granted
        <5>3. \E k \in Callers : rows'[k].status = "approved" /\ rows'[k].scope = sc /\ ~rows'[k].inherited
          BY <5>2, <3>5 DEF RowsGrow, Terminal
        <5> QED BY <5>3, <4>1 DEF Granted, sc
      <4> QED BY <4>1, <4>2, <4>3
    <3>8. ExpiredInTime'
      BY <1>0, <1>f, <3>1, <3>3 DEF RowsOK, ExpiredInTime
    <3> QED BY <1>0, <3>2, <3>3, <3>5, <3>6, <3>7, <3>8 DEF RowsOK
  <2> QED BY <1>2, <2>1, <2>2 DEF InsertPending
<1>3. ASSUME NEW c \in Callers, Adopt(c) PROVE RowsOK' /\ RowsGrow
  <2>1. CASE UNCHANGED <<rows, audit>>
    BY <1>0, <1>f, <2>1, RowsStay
  <2>2. CASE CanTransition(c, "approved", call[c].start)
    <3>1. call[c].start \in Nat /\ call[c].scope \in AllScopes
      BY <1>0 DEF CallsOK, CallType
    <3>2. call[c].scope # "once" /\ Granted(call[c].scope)
      BY <1>0, <1>3 DEF Adopt, At, CallsOK, CallOK
    <3>3. rows[c].status = "pending" /\ Transition(c, "approved", call[c].scope, call[c].start, TRUE)
      BY <1>3, <2>2 DEF Adopt, CanTransition
    <3> QED BY <1>0, <1>f, <3>1, <3>2, <3>3, TransitionKeeps DEF Terminal
  <2> QED BY <1>3, <2>1, <2>2 DEF Adopt
<1>4. ASSUME NEW c \in Callers, Expire(c) PROVE RowsOK' /\ RowsGrow
  <2> DEFINE r == call[c].req
  <2>1. CASE UNCHANGED <<rows, audit>>
    BY <1>0, <1>f, <2>1, RowsStay
  <2>2. CASE CanTransition(r, "expired", call[c].until)
    <3>1. call[c].until \in Nat /\ r \in Callers
      BY <1>0, <1>4 DEF CallsOK, CallOK, CallType, Expire, At, Joined
    <3>2. rows[r].expires_at <= call[c].until \/ faults > 0
      BY <1>0, <1>4 DEF Expire, At, CallsOK, CallOK
    <3>3. rows[r].status = "pending" /\ Transition(r, "expired", "once", call[c].until, FALSE)
      BY <1>4, <2>2 DEF Expire, CanTransition
    <3> QED BY <1>0, <1>f, <3>1, <3>2, <3>3, TransitionKeeps DEF Terminal, AllScopes
  <2> QED BY <1>4, <2>1, <2>2 DEF Expire
<1>5. ASSUME NEW o \in Operators, DecideCommit(o) PROVE RowsOK' /\ RowsGrow
  <2> DEFINE r == dec[o].req
  <2>1. CASE UNCHANGED <<rows, audit>>
    BY <1>0, <1>f, <2>1, RowsStay
  <2>2. CASE CanTransition(r, dec[o].status, dec[o].start)
    <3>1. dec[o] \in DecideType /\ r # None
      BY <1>0, <1>5 DEF DecidesOK, DecideOK, DecideCommit
    <3>2. /\ dec[o].start \in Nat /\ r \in Callers /\ dec[o].scope \in AllScopes
          /\ dec[o].status \in {"approved", "rejected"}
      BY <3>1 DEF DecideType
    <3>3. /\ rows[r].status = "pending"
          /\ Transition(r, dec[o].status, dec[o].scope, dec[o].start, FALSE)
      BY <1>5, <2>2 DEF DecideCommit, CanTransition
    <3> QED BY <1>0, <1>f, <3>2, <3>3, TransitionKeeps DEF Terminal
  <2> QED BY <1>5, <2>1, <2>2 DEF DecideCommit
<1>6. ASSUME SweepExpired PROVE RowsOK' /\ RowsGrow
  <2> DEFINE late == {r \in Pending : rows[r].expires_at < now}
             new(r) == [rows[r] EXCEPT !.status = "expired", !.decided_at = now, !.scope = "once"]
  <2>0. \A r \in late : r \in Callers /\ rows[r].status = "pending" /\ rows[r].expires_at < now
    BY DEF Pending
  <2>1. \A r \in Callers : /\ new(r) \in RowType /\ new(r).status = "expired"
                           /\ new(r).decided_at = now /\ new(r).inherited = rows[r].inherited
                           /\ new(r).expires_at = rows[r].expires_at
    BY <1>0, <1>f DEF RowsOK, RowType, Statuses, AllScopes
  <2>2. /\ rows' = [r \in Callers |-> IF r \in late THEN new(r) ELSE rows[r]]
        /\ audit' = [r \in Callers |-> IF r \in late THEN Append(audit[r], "expired") ELSE audit[r]]
    BY <1>6 DEF SweepExpired
  <2> HIDE DEF late, new
  <2>3. /\ rows' \in [Callers -> RowType]
        /\ \A r \in Callers : rows'[r] = IF r \in late THEN new(r) ELSE rows[r]
    BY <1>0, <2>1, <2>2 DEF RowsOK
  <2>4. /\ audit' \in [Callers -> Seq(Terminal)]
        /\ \A r \in Callers : audit'[r] = IF r \in late THEN <<"expired">> ELSE audit[r]
    <3>1. \A r \in late : audit[r] = <<>>
      BY <1>0, <2>0 DEF RowsOK, AuditExact, Terminal
    <3>2. Append(<<>>, "expired") = <<"expired">> /\ <<"expired">> \in Seq(Terminal)
      BY DEF Terminal
    <3>3. audit' = [r \in Callers |-> IF r \in late THEN <<"expired">> ELSE audit[r]]
      BY <2>2, <3>1, <3>2
    <3> QED BY <1>0, <3>2, <3>3 DEF RowsOK
  <2>5. RowsGrow
    BY <1>f, <2>0, <2>1, <2>3, <2>4 DEF RowsGrow, Terminal
  <2>6. AuditExact'
    BY <1>0, <2>1, <2>3, <2>4 DEF RowsOK, AuditExact, Terminal
  <2>7. ASSUME NEW q \in Callers, rows'[q].inherited
        PROVE  (rows[q].status = "approved" /\ rows[q].scope # "once" /\ Granted(rows[q].scope))'
    <3> DEFINE sc == rows[q].scope
    <3>1. rows[q].inherited
      BY <2>1, <2>3, <2>7
    <3>2. rows[q].status = "approved" /\ rows[q].scope # "once" /\ Granted(sc)
      BY <1>0, <3>1 DEF RowsOK
    <3>3. rows'[q] = rows[q]
      BY <3>2, <2>5 DEF RowsGrow, Terminal
    <3> HIDE DEF sc
    <3>4. \E k \in Callers : rows[k].status = "approved" /\ rows[k].scope = sc /\ ~rows[k].inherited
      BY <3>2 DEF Granted
    <3>5. \E k \in Callers : rows'[k].status = "approved" /\ rows'[k].scope = sc /\ ~rows'[k].inherited
      BY <3>4, <2>5 DEF RowsGrow, Terminal
    <3> QED BY <3>2, <3>3, <3>5 DEF Granted, sc
  <2>8. ExpiredInTime'
    <3> SUFFICES ASSUME NEW q \in Callers, rows'[q].status = "expired",
                        rows'[q].decided_at < rows'[q].expires_at
                 PROVE  faults' > 0
      BY DEF ExpiredInTime
    <3>1. q \notin late
      <4>1. rows[q].expires_at \in Nat
        BY <1>0 DEF RowsOK, RowType
      <4> QED BY <1>f, <2>0, <2>1, <2>3, <4>1
    <3> QED BY <1>0, <1>f, <2>3, <3>1, SMTT(20) DEF RowsOK, ExpiredInTime
  <2> QED BY <2>3, <2>4, <2>5, <2>6, <2>7, <2>8 DEF RowsOK
<1> QED BY <1>1, <1>2, <1>3, <1>4, <1>5, <1>6, RowsChange

----------------------------------------------------------------------------
(* The calls *)

GrantedNext(scope) ==
    \E q \in Callers :
        rows'[q].status = "approved" /\ rows'[q].scope = scope /\ ~rows'[q].inherited

InheritableNext(c) ==
    \E q \in Callers :
        /\ rows'[q].status = "approved"
        /\ \/ rows'[q].scope = "persist"
           \/ rows'[q].scope = "session" /\ SessionOf[c] \in RealSessions

\* The call of c goes on with the locals rec, which fit the rows.
Arrives(c, rec) ==
    /\ rec \in CallType
    /\ call' = [call EXCEPT ![c] = rec]
    /\ rec.pc \in Early => rec.req = None
    /\ rec.pc \in Own => rec.req = c
    /\ rec.pc \in Joined => rec.req # None
    /\ rec.req # None => rows'[rec.req].status # "none"
    /\ rec.pc \in {"idle", "insert"} => rows'[c].status = "none"
    /\ rec.pc \in {"vanishedAllow", "adoptAllow"} =>
          SessionOf[c] \in RealSessions /\ GrantedNext("session")
    /\ rec.pc = "adopt" =>
          /\ rec.scope # "once" /\ GrantedNext(rec.scope)
          /\ rec.scope = "session" => SessionOf[c] \in RealSessions
    /\ rec.pc \in {"adoptAllow", "adopted"} => rows'[c].status = "approved"
    /\ rec.pc = "reread" => rows'[rec.req].status \in {"rejected", "expired"}
    /\ rec.pc = "expire" => rows'[rec.req].expires_at <= rec.until \/ faults' > 0
    /\ rec.pc = "expired" => rows'[rec.req].status = "expired"
    /\ rec.pc = "lost" => rows'[rec.req].status \in Terminal
    /\ rec.pc = "approved" /\ rec.req # None => rows'[rec.req].status = "approved"
    /\ rec.pc = "approved" /\ rec.req = None => InheritableNext(c)
    /\ rec.pc = "denied" => rec.req # None /\ rows'[rec.req].status = "rejected"

\* What a call knows of its row stays true while others work.
LEMMA CallStable ==
    ASSUME RowsOK, CallsOK, RowsGrow, NEW d \in Callers, call'[d] = call[d]
    PROVE  CallOK(d)'
<1>0. CallOK(d) /\ call[d] \in CallType /\ call[d].req \in Callers \cup {None}
  BY DEF CallsOK, CallType
<1>g. \A q \in Callers : rows[q].status \in Terminal => rows'[q] = rows[q]
  BY DEF RowsGrow
<1>1. \A scope : Granted(scope) => GrantedNext(scope)
  BY <1>g DEF Granted, GrantedNext, Terminal
<1>2. (\E q \in Callers : Inheritable(d, q)) => InheritableNext(d)
  BY <1>g DEF Inheritable, InheritableNext, HasRealSession, Terminal
<1>3. InheritableNext(d) => (\E q \in Callers : Inheritable(d, q))'
  BY DEF Inheritable, InheritableNext, HasRealSession
<1> DEFINE r == call[d].req
           pc == call[d].pc
<1>5. /\ r # None => rows'[r].status # "none" /\ rows'[r].expires_at = rows[r].expires_at
      /\ r # None /\ rows[r].status \in Terminal => rows'[r].status = rows[r].status
  BY <1>0 DEF CallOK, RowsGrow
<1>6. pc \in {"idle", "insert"} => rows'[d].status = "none"
  BY <1>0 DEF CallOK, RowsGrow
<1>7. pc \in {"adoptAllow", "adopted"} => rows'[d].status = "approved"
  BY <1>0, <1>g DEF CallOK, Terminal
<1>8. pc = "adopt" => Granted(call[d].scope)'
  BY <1>0, <1>1 DEF CallOK, Granted, GrantedNext
<1>9. pc \in {"vanishedAllow", "adoptAllow"} => Granted("session")'
  BY <1>0, <1>1 DEF CallOK, Granted, GrantedNext
<1>10. pc = "expire" => rows'[r].expires_at <= call[d].until \/ faults' > 0
  BY <1>0, <1>5 DEF CallOK, RowsGrow, Joined
<1>11. pc = "approved" /\ r = None => (\E q \in Callers : Inheritable(d, q))'
  BY <1>0, <1>2, <1>3 DEF CallOK
<1> QED BY <1>0, <1>5, <1>6, <1>7, <1>8, <1>9, <1>10, <1>11 DEF CallOK, Joined, Terminal

\* So it is enough to look at the call that moves.
LEMMA CallMoves ==
    ASSUME RowsOK, CallsOK, RowsGrow, NEW c \in Callers, NEW rec, Arrives(c, rec)
    PROVE  CallsOK'
<1>1. /\ call' \in [Callers -> CallType] /\ call'[c] = rec
      /\ \A d \in Callers : d # c => call'[d] = call[d]
  BY DEF CallsOK, Arrives
<1>2. ASSUME NEW d \in Callers, d # c PROVE CallOK(d)'
  BY <1>1, <1>2, CallStable
<1>3. CallOK(c)'
  <2>1. GrantedNext("session") => Granted("session")'
    BY DEF GrantedNext, Granted
  <2>2. InheritableNext(c) => (\E q \in Callers : Inheritable(c, q))'
    BY DEF Inheritable, InheritableNext, HasRealSession
  <2>3. GrantedNext(rec.scope) => Granted(call[c].scope)'
    BY <1>1 DEF GrantedNext, Granted
  <2> QED BY <1>1, <2>1, <2>2, <2>3 DEF CallOK, Arrives
<1> QED BY <1>1, <1>2, <1>3 DEF CallsOK

\* The locals after a Goto.
LEMMA GotoRec ==
    ASSUME CallsOK, NEW c \in Callers, NEW pc, Goto(c, pc), pc \in Early \cup Own \cup Joined
    PROVE  \E rec \in CallType :
              /\ call' = [call EXCEPT ![c] = rec]
              /\ rec.pc = pc /\ rec.req = call[c].req /\ rec.scope = call[c].scope
              /\ rec.until = call[c].until
<1> DEFINE rec == [call[c] EXCEPT !.pc = pc]
<1>1. call[c] \in CallType
  BY DEF CallsOK
<1>2. /\ rec \in CallType /\ rec.pc = pc /\ rec.req = call[c].req /\ rec.scope = call[c].scope
      /\ rec.until = call[c].until
  BY <1>1 DEF CallType, Early, Own, Joined
<1>3. call' = [call EXCEPT ![c] = rec]
  BY DEF Goto
<1> QED BY <1>2, <1>3

\* A call that returns an honest answer.
LEMMA ReturnKeeps ==
    ASSUME RowsOK, CallsOK, RowsGrow, NEW c \in Callers, NEW answer \in Finished, Return(c, answer),
           answer = "approved" /\ call[c].req # None => rows'[call[c].req].status = "approved",
           answer = "approved" /\ call[c].req = None => InheritableNext(c),
           answer = "denied" => call[c].req # None /\ rows'[call[c].req].status = "rejected"
    PROVE  CallsOK'
<1> DEFINE rec == [Idle EXCEPT !.pc = answer, !.req = call[c].req]
<1>1. call[c].req \in Callers \cup {None} /\ (call[c].req # None => rows[call[c].req].status # "none")
  BY DEF CallsOK, CallOK, CallType
<1>2. rec \in CallType /\ rec.pc = answer /\ rec.req = call[c].req
  BY <1>1 DEF CallType, Idle, AllScopes
<1>3. call' = [call EXCEPT ![c] = rec]
  BY DEF Return
<1>4. call[c].req # None => rows'[call[c].req].status # "none"
  BY <1>1 DEF RowsGrow
<1> HIDE DEF rec
<1>5. Arrives(c, rec)
  BY <1>2, <1>3, <1>4 DEF Arrives, Finished, Early, Own, Joined
<1> QED BY <1>5, CallMoves

\* Every step of a call that returns answers honestly; every other one arrives
\* where it knows enough.
LEMMA CallStepKeepsCalls ==
    ASSUME Inv, [Next]_vars, NEW c \in Callers, CallStep(c)
    PROVE  CallsOK'
<1>0. RowsOK /\ CallsOK /\ FuturesOK /\ GrantsOK /\ CountersOK
  BY DEF Inv
<1>g. RowsOK' /\ RowsGrow
  BY RowsKept
<1>c. CallOK(c) /\ call[c] \in CallType
  BY <1>0 DEF CallsOK
<1>n. now \in Nat /\ None \notin Callers
  BY <1>0, ApprovalsAssumption DEF CountersOK
<1>r. call[c].req # None => call[c].req \in Callers /\ rows'[call[c].req].status # "none"
  BY <1>c, <1>g DEF CallOK, CallType, RowsGrow
<1>m. ASSUME NEW rec, Arrives(c, rec) PROVE CallsOK'
  BY <1>0, <1>g, <1>m, CallMoves
<1>q. ASSUME NEW answer \in {"closed", "error", "timeout"}, Return(c, answer) PROVE CallsOK'
  BY <1>0, <1>g, <1>q, ReturnKeeps DEF Finished
<1>j. ASSUME NEW r \in Callers, rows[r].status \in Terminal, call[c].req = r, Return(c, RowToDecision(r))
      PROVE  CallsOK'
  <2>1. rows'[r] = rows[r]
    BY <1>g, <1>j DEF RowsGrow
  <2>2. CASE rows[r].status = "approved"
    <3>1. RowToDecision(r) = "approved"
      BY <2>2 DEF RowToDecision
    <3> QED BY <1>0, <1>g, <1>j, <1>n, <2>1, <2>2, <3>1, ReturnKeeps DEF Finished
  <2>3. CASE rows[r].status = "rejected"
    <3>1. RowToDecision(r) = "denied"
      BY <2>3 DEF RowToDecision
    <3> QED BY <1>0, <1>g, <1>j, <1>n, <2>1, <2>3, <3>1, ReturnKeeps DEF Finished
  <2>4. CASE rows[r].status = "expired"
    <3>1. RowToDecision(r) = "timeout"
      BY <2>4 DEF RowToDecision
    <3> QED BY <1>j, <1>q, <3>1
  <2> QED BY <1>j, <2>2, <2>3, <2>4 DEF Terminal
<1>i. ASSUME NEW q \in Callers, Inheritable(c, q), rows'[q] = rows[q]
      PROVE  /\ InheritableNext(c) /\ rows[q].scope \in {"persist", "session"}
             /\ GrantedNext(rows[q].scope)
             /\ rows[q].scope = "session" => SessionOf[c] \in RealSessions
  <2>1. rows[q].status = "approved" /\ rows[q].scope \in {"persist", "session"}
    BY <1>i DEF Inheritable
  <2>2. Granted(rows[q].scope)
    BY <1>0, <2>1 DEF RowsOK, Granted, RowType
  <2>3. GrantedNext(rows[q].scope)
    BY <1>g, <2>2 DEF Granted, GrantedNext, RowsGrow, Terminal
  <2> QED BY <1>i, <2>1, <2>3 DEF Inheritable, InheritableNext, HasRealSession
<1>1. ASSUME Start(c) PROVE CallsOK'
  <2>0. rows' = rows /\ call[c].pc = "idle" /\ call[c].req = None
    BY <1>1, <1>c DEF Start, db, At, CallOK, Early
  <2>1. CASE SessionOf[c] \in RealSessions /\ SessionOf[c] \in allow /\ Return(c, "approved")
    <3>1. Granted("session")
      BY <1>0, <2>1 DEF GrantsOK
    <3>2. InheritableNext(c)
      BY <2>0, <2>1, <3>1 DEF Granted, InheritableNext
    <3> QED BY <1>0, <1>g, <2>0, <2>1, <3>2, ReturnKeeps DEF Finished
  <2>2. CASE call' = [call EXCEPT ![c] = [@ EXCEPT !.pc = "insert", !.start = now]]
    <3> DEFINE rec == [call[c] EXCEPT !.pc = "insert", !.start = now]
    <3>1. rec \in CallType /\ rec.pc = "insert" /\ rec.req = None
      BY <1>c, <1>n, <2>0 DEF CallType
    <3>2. call' = [call EXCEPT ![c] = rec] /\ rows'[c].status = "none"
      BY <1>c, <2>0, <2>2 DEF CallOK
    <3> HIDE DEF rec
    <3>3. Arrives(c, rec)
      BY <3>1, <3>2 DEF Arrives, Early, Own, Joined
    <3> QED BY <1>m, <3>3
  <2> QED BY <1>1, <2>1, <2>2 DEF Start, HasRealSession
<1>2. ASSUME InsertPending(c) PROVE CallsOK'
  <2>0. call[c].pc = "insert" /\ call[c].req = None
    BY <1>2, <1>c DEF InsertPending, At, CallOK, Early
  <2>1. CASE Pending = {}
    <3> DEFINE rec == [call[c] EXCEPT !.pc = "inherit", !.req = c]
    <3>1. rec \in CallType /\ rec.pc = "inherit" /\ rec.req = c
      BY <1>c DEF CallType
    <3>2. call' = [call EXCEPT ![c] = rec]
      BY <1>2, <2>1 DEF InsertPending
    <3>3. rows'[c].status = "pending"
      <4>1. \E x : rows' = [rows EXCEPT ![c] = [NoRow EXCEPT
                   !.status = "pending", !.session = SessionOf[c], !.expires_at = x]]
        BY <1>2, <2>1 DEF InsertPending
      <4> QED BY <1>0, <4>1 DEF RowsOK, NoRow
    <3> HIDE DEF rec
    <3>4. Arrives(c, rec)
      BY <1>n, <3>1, <3>2, <3>3 DEF Arrives, Early, Own, Joined
    <3> QED BY <1>m, <3>4
  <2>2. CASE Goto(c, "select")
    <3>1. PICK rec \in CallType : /\ call' = [call EXCEPT ![c] = rec]
                                  /\ rec.pc = "select" /\ rec.req = call[c].req
      BY <1>0, <2>2, GotoRec DEF Early
    <3>2. Arrives(c, rec)
      BY <2>0, <3>1 DEF Arrives, Early, Own, Joined
    <3> QED BY <1>m, <3>2
  <2> QED BY <1>2, <2>1, <2>2 DEF InsertPending
<1>3. ASSUME FetchPending(c) PROVE CallsOK'
  <2>0. call[c].pc = "select" /\ call[c].req = None /\ rows' = rows
    BY <1>3, <1>c DEF FetchPending, At, CallOK, Early, db
  <2>1. ASSUME NEW r \in Pending, call' = [call EXCEPT ![c] = [@ EXCEPT !.pc = "register", !.req = r]]
        PROVE  CallsOK'
    <3> DEFINE rec == [call[c] EXCEPT !.pc = "register", !.req = r]
    <3>0. r \in Callers /\ rows[r].status = "pending"
      BY DEF Pending
    <3>1. rec \in CallType /\ rec.pc = "register" /\ rec.req = r
      BY <1>c, <3>0 DEF CallType
    <3>2. call' = [call EXCEPT ![c] = rec]
      BY <2>1
    <3> HIDE DEF rec
    <3>4. Arrives(c, rec)
      BY <1>n, <2>0, <3>0, <3>1, <3>2 DEF Arrives, Early, Own, Joined
    <3> QED BY <1>m, <3>4
  <2>2. CASE Goto(c, "vanished")
    <3>1. PICK rec \in CallType : /\ call' = [call EXCEPT ![c] = rec]
                                  /\ rec.pc = "vanished" /\ rec.req = call[c].req
      BY <1>0, <2>2, GotoRec DEF Early
    <3>2. Arrives(c, rec)
      BY <2>0, <3>1 DEF Arrives, Early, Own, Joined
    <3> QED BY <1>m, <3>2
  <2> QED BY <1>3, <2>1, <2>2 DEF FetchPending
<1>4. ASSUME Vanished(c) PROVE CallsOK'
  <2>0. call[c].pc = "vanished" /\ call[c].req = None /\ rows' = rows
    BY <1>4, <1>c DEF Vanished, At, CallOK, Early, db
  <2>1. ASSUME NEW r \in Callers, Inheritable(c, r),
               IF rows[r].scope = "session" THEN Goto(c, "vanishedAllow") ELSE Return(c, "approved")
        PROVE  CallsOK'
    <3>1. /\ InheritableNext(c) /\ GrantedNext(rows[r].scope)
          /\ rows[r].scope = "session" => SessionOf[c] \in RealSessions
      BY <1>i, <2>0, <2>1
    <3>2. CASE rows[r].scope = "session"
      <4>1. PICK rec \in CallType : /\ call' = [call EXCEPT ![c] = rec]
                                    /\ rec.pc = "vanishedAllow" /\ rec.req = call[c].req
        BY <1>0, <2>1, <3>2, GotoRec DEF Early
      <4>2. Arrives(c, rec)
        BY <2>0, <3>1, <3>2, <4>1 DEF Arrives, Early, Own, Joined
      <4> QED BY <1>m, <4>2
    <3>3. CASE rows[r].scope # "session"
      BY <1>0, <1>g, <2>0, <2>1, <3>1, <3>3, ReturnKeeps DEF Finished
    <3> QED BY <3>2, <3>3
  <2>2. CASE Return(c, "closed")
    BY <1>q, <2>2
  <2>3. \A t, X : RecentDecisions(t, X) \subseteq Callers
    BY DEF RecentDecisions
  <2> QED BY <1>4, <2>1, <2>2, <2>3 DEF Vanished
<1>5. ASSUME VanishedAllow(c) PROVE CallsOK'
  <2>0. /\ call[c].pc = "vanishedAllow" /\ call[c].req = None /\ rows' = rows
        /\ Return(c, "approved") /\ SessionOf[c] \in RealSessions /\ Granted("session")
    BY <1>5, <1>c DEF VanishedAllow, At, CallOK, Early
  <2>1. InheritableNext(c)
    BY <2>0 DEF Granted, InheritableNext
  <2> QED BY <1>0, <1>g, <2>0, <2>1, ReturnKeeps DEF Finished
<1>6. ASSUME InheritRecent(c) PROVE CallsOK'
  <2>0. call[c].pc = "inherit" /\ call[c].req = c /\ rows' = rows
    BY <1>6, <1>c DEF InheritRecent, At, CallOK, Own, db
  <2>1. ASSUME NEW r \in Callers, Inheritable(c, r),
               call' = [call EXCEPT ![c] = [@ EXCEPT !.pc = "adopt", !.scope = rows[r].scope]]
        PROVE  CallsOK'
    <3> DEFINE rec == [call[c] EXCEPT !.pc = "adopt", !.scope = rows[r].scope]
    <3>1. /\ rows[r].scope \in {"persist", "session"} /\ GrantedNext(rows[r].scope)
          /\ rows[r].scope = "session" => SessionOf[c] \in RealSessions
      BY <1>i, <2>0, <2>1
    <3>2. rec \in CallType /\ rec.pc = "adopt" /\ rec.req = c /\ rec.scope = rows[r].scope
      BY <1>c, <2>0, <3>1 DEF CallType, AllScopes
    <3>3. call' = [call EXCEPT ![c] = rec]
      BY <2>1
    <3> HIDE DEF rec
    <3>4. Arrives(c, rec)
      BY <1>n, <1>r, <2>0, <3>1, <3>2, <3>3 DEF Arrives, Early, Own, Joined
    <3> QED BY <1>m, <3>4
  <2>2. ASSUME Goto(c, "register") PROVE CallsOK'
    <3>1. PICK rec \in CallType : /\ call' = [call EXCEPT ![c] = rec]
                                  /\ rec.pc = "register" /\ rec.req = call[c].req
      BY <1>0, <2>2, GotoRec DEF Joined
    <3>2. Arrives(c, rec)
      BY <1>n, <1>r, <2>0, <3>1 DEF Arrives, Early, Own, Joined
    <3> QED BY <1>m, <3>2
  <2>3. \A t, X : RecentDecisions(t, X) \subseteq Callers
    BY DEF RecentDecisions
  <2> QED BY <1>6, <2>1, <2>2, <2>3 DEF InheritRecent
<1>7. ASSUME Adopt(c) PROVE CallsOK'
  <2>0. call[c].pc = "adopt" /\ call[c].req = c
    BY <1>7, <1>c DEF Adopt, At, CallOK, Own
  <2>1. CASE CanTransition(c, "approved", call[c].start)
    <3>1. rows'[c].status = "approved"
      <4>1. Transition(c, "approved", call[c].scope, call[c].start, TRUE)
        BY <1>7, <2>1 DEF Adopt
      <4>2. rows \in [Callers -> RowType] /\ rows[c] \in RowType
        BY <1>0 DEF RowsOK
      <4>3. rows' = [rows EXCEPT ![c] = [rows[c] EXCEPT !.status = "approved",
                        !.decided_at = call[c].start, !.scope = call[c].scope, !.inherited = TRUE]]
        BY <4>1 DEF Transition
      <4> QED BY <4>2, <4>3 DEF RowType
    <3>2. /\ Granted(call[c].scope)
          /\ call[c].scope = "session" => SessionOf[c] \in RealSessions
      BY <1>c, <2>0 DEF CallOK
    <3>3. GrantedNext(call[c].scope)
      BY <1>g, <3>2 DEF Granted, GrantedNext, RowsGrow, Terminal
    <3>4. \E pc \in {"adoptAllow", "adopted"} :
              Goto(c, pc) /\ (pc = "adoptAllow" => call[c].scope = "session")
      BY <1>7, <2>1 DEF Adopt
    <3>5. PICK rec \in CallType :
              /\ call' = [call EXCEPT ![c] = rec]
              /\ rec.pc \in {"adoptAllow", "adopted"} /\ rec.req = call[c].req
              /\ rec.pc = "adoptAllow" => call[c].scope = "session"
      BY <1>0, <3>4, GotoRec DEF Own
    <3>6. Arrives(c, rec)
      BY <1>n, <1>r, <2>0, <3>1, <3>2, <3>3, <3>5 DEF Arrives, Early, Own, Joined
    <3> QED BY <1>m, <3>6
  <2>2. CASE Goto(c, "register")
    <3>1. PICK rec \in CallType : /\ call' = [call EXCEPT ![c] = rec]
                                  /\ rec.pc = "register" /\ rec.req = call[c].req
      BY <1>0, <2>2, GotoRec DEF Joined
    <3>2. Arrives(c, rec)
      BY <1>n, <1>r, <2>0, <3>1 DEF Arrives, Early, Own, Joined
    <3> QED BY <1>m, <3>2
  <2> QED BY <1>7, <2>1, <2>2 DEF Adopt
<1>8. ASSUME AdoptAllow(c) PROVE CallsOK'
  <2>0. /\ call[c].pc = "adoptAllow" /\ call[c].req = c /\ rows' = rows /\ Goto(c, "adopted")
        /\ rows[c].status = "approved"
    BY <1>8, <1>c DEF AdoptAllow, At, CallOK, Own
  <2>1. PICK rec \in CallType : /\ call' = [call EXCEPT ![c] = rec]
                                /\ rec.pc = "adopted" /\ rec.req = call[c].req
    BY <1>0, <2>0, GotoRec DEF Own
  <2>2. Arrives(c, rec)
    BY <1>n, <2>0, <2>1 DEF Arrives, Early, Own, Joined
  <2> QED BY <1>m, <2>2
<1>9. ASSUME Adopted(c) PROVE CallsOK'
  <2>0. /\ call[c].req = c /\ rows' = rows /\ Return(c, "approved") /\ rows[c].status = "approved"
    BY <1>9, <1>c DEF Adopted, At, CallOK, Own, db
  <2> QED BY <1>0, <1>g, <1>n, <2>0, ReturnKeeps DEF Finished
<1>10. ASSUME Register(c) PROVE CallsOK'
  <2>0. call[c].pc = "register" /\ call[c].req # None /\ Goto(c, "recheck")
    BY <1>10, <1>c DEF Register, At, CallOK, Joined
  <2>1. PICK rec \in CallType : /\ call' = [call EXCEPT ![c] = rec]
                                /\ rec.pc = "recheck" /\ rec.req = call[c].req
    BY <1>0, <2>0, GotoRec DEF Joined
  <2>2. Arrives(c, rec)
    BY <1>r, <2>0, <2>1 DEF Arrives, Early, Own, Joined
  <2> QED BY <1>m, <2>2
<1>11. ASSUME Recheck(c) PROVE CallsOK'
  <2>0. call[c].req # None /\ call[c].req \in Callers
    BY <1>11, <1>c, <1>r DEF Recheck, At, CallOK, Joined
  <2>1. CASE rows[call[c].req].status \in Terminal
    BY <1>11, <1>j, <2>0, <2>1 DEF Recheck
  <2>2. CASE rows[call[c].req].status \notin Terminal
    <3> DEFINE rec == [call[c] EXCEPT !.pc = "wait", !.until = now + TimeoutOf[c]]
    <3>0. now + TimeoutOf[c] \in Nat
      BY <1>n, ApprovalsAssumption
    <3>1. rec \in CallType /\ rec.pc = "wait" /\ rec.req = call[c].req
      BY <1>c, <3>0 DEF CallType
    <3>2. call' = [call EXCEPT ![c] = rec]
      BY <1>11, <2>2 DEF Recheck
    <3> HIDE DEF rec
    <3>3. Arrives(c, rec)
      BY <1>r, <2>0, <3>1, <3>2 DEF Arrives, Early, Own, Joined
    <3> QED BY <1>m, <3>3
  <2> QED BY <2>1, <2>2
<1>12. ASSUME Wake(c) PROVE CallsOK'
  <2>0. /\ call[c].req # None /\ rows' = rows
        /\ result[c] = "approved" => rows[call[c].req].status = "approved"
        /\ result[c] # "approved" => rows[call[c].req].status \in {"rejected", "expired"}
    BY <1>0, <1>12 DEF Wake, FuturesOK, FutureOK, db
  <2>1. CASE result[c] = "approved" /\ Return(c, "approved")
    BY <1>0, <1>g, <2>0, <2>1, ReturnKeeps DEF Finished
  <2>2. CASE result[c] # "approved" /\ Goto(c, "reread")
    <3>1. PICK rec \in CallType : /\ call' = [call EXCEPT ![c] = rec]
                                  /\ rec.pc = "reread" /\ rec.req = call[c].req
      BY <1>0, <2>2, GotoRec DEF Joined
    <3>2. Arrives(c, rec)
      BY <1>r, <2>0, <2>2, <3>1 DEF Arrives, Early, Own, Joined
    <3> QED BY <1>m, <3>2
  <2> QED BY <1>12, <2>1, <2>2 DEF Wake
<1>13. ASSUME Reread(c) PROVE CallsOK'
  <2>0. /\ call[c].req # None /\ rows' = rows
        /\ rows[call[c].req].status \in {"rejected", "expired"}
    BY <1>13, <1>c DEF Reread, At, CallOK, Joined, db
  <2>1. CASE rows[call[c].req].status = "expired"
    BY <1>13, <1>q, <2>1 DEF Reread
  <2>2. CASE rows[call[c].req].status = "rejected"
    <3>1. Return(c, "denied")
      BY <1>13, <2>2 DEF Reread
    <3> QED BY <1>0, <1>g, <2>0, <2>2, <3>1, ReturnKeeps DEF Finished
  <2> QED BY <2>0, <2>1, <2>2
<1>14. ASSUME TimesOut(c) PROVE CallsOK'
  <2>0. call[c].pc = "wait" /\ call[c].req # None /\ Goto(c, "late")
    BY <1>14, <1>c DEF TimesOut, At, CallOK, Joined
  <2>1. PICK rec \in CallType : /\ call' = [call EXCEPT ![c] = rec]
                                /\ rec.pc = "late" /\ rec.req = call[c].req
    BY <1>0, <2>0, GotoRec DEF Joined
  <2>2. Arrives(c, rec)
    BY <1>r, <2>0, <2>1 DEF Arrives, Early, Own, Joined
  <2> QED BY <1>m, <2>2
<1>15. ASSUME Late(c) PROVE CallsOK'
  <2> DEFINE r == call[c].req
  <2>0. r # None /\ r \in Callers /\ rows' = rows
    BY <1>15, <1>c, <1>r DEF Late, At, CallOK, Joined, db
  <2>1. CASE rows[r].status \in Terminal
    BY <1>15, <1>j, <2>0, <2>1 DEF Late
  <2>2. CASE rows[r].expires_at <= now /\ rows[r].status \notin Terminal
    <3> DEFINE rec == [call[c] EXCEPT !.pc = "expire", !.until = now]
    <3>1. rec \in CallType /\ rec.pc = "expire" /\ rec.req = call[c].req /\ rec.until = now
      BY <1>c, <1>n DEF CallType
    <3>2. call' = [call EXCEPT ![c] = rec]
      BY <1>15, <2>2 DEF Late
    <3> HIDE DEF rec
    <3>3. Arrives(c, rec)
      BY <1>r, <2>0, <2>2, <3>1, <3>2 DEF Arrives, Early, Own, Joined
    <3> QED BY <1>m, <3>3
  <2>3. CASE ~(rows[r].expires_at <= now) /\ rows[r].status \notin Terminal
    BY <1>15, <1>q, <2>3 DEF Late
  <2> QED BY <2>1, <2>2, <2>3
<1>16. ASSUME Expire(c) PROVE CallsOK'
  <2> DEFINE r == call[c].req
  <2>0. r # None /\ r \in Callers /\ rows[r].status # "none"
    BY <1>16, <1>c, <1>r DEF Expire, At, CallOK, Joined
  <2>1. CASE CanTransition(r, "expired", call[c].until)
    <3>1. rows'[r].status = "expired" /\ Goto(c, "expired")
      <4>1. Transition(r, "expired", "once", call[c].until, FALSE) /\ Goto(c, "expired")
        BY <1>16, <2>1 DEF Expire
      <4>2. rows \in [Callers -> RowType] /\ rows[r] \in RowType
        BY <1>0, <2>0 DEF RowsOK
      <4>3. rows' = [rows EXCEPT ![r] = [rows[r] EXCEPT !.status = "expired",
                        !.decided_at = call[c].until, !.scope = "once", !.inherited = FALSE]]
        BY <4>1 DEF Transition
      <4> QED BY <2>0, <4>1, <4>2, <4>3 DEF RowType
    <3>2. PICK rec \in CallType : /\ call' = [call EXCEPT ![c] = rec]
                                  /\ rec.pc = "expired" /\ rec.req = call[c].req
      BY <1>0, <3>1, GotoRec DEF Joined
    <3>3. Arrives(c, rec)
      BY <1>r, <2>0, <3>1, <3>2 DEF Arrives, Early, Own, Joined
    <3> QED BY <1>m, <3>3
  <2>2. CASE ~CanTransition(r, "expired", call[c].until)
    <3>1. Goto(c, "lost") /\ rows' = rows
      BY <1>16, <2>2 DEF Expire
    <3>2. rows[r].status \in Terminal
      BY <1>0, <2>0, <2>2 DEF CanTransition, RowsOK, RowType, Statuses, Terminal
    <3>3. PICK rec \in CallType : /\ call' = [call EXCEPT ![c] = rec]
                                  /\ rec.pc = "lost" /\ rec.req = call[c].req
      BY <1>0, <3>1, GotoRec DEF Joined
    <3>4. Arrives(c, rec)
      BY <1>r, <2>0, <3>1, <3>2, <3>3 DEF Arrives, Early, Own, Joined
    <3> QED BY <1>m, <3>4
  <2> QED BY <2>1, <2>2
<1>17. ASSUME LostExpiry(c) PROVE CallsOK'
  <2>1. call[c].req \in Callers /\ rows[call[c].req].status \in Terminal
    BY <1>17, <1>c, <1>r DEF LostExpiry, At, CallOK, Joined
  <2>2. CASE rows[call[c].req].status = "approved"
    <3>1. Return(c, RowToDecision(call[c].req))
      BY <1>17, <2>2 DEF LostExpiry, RowToDecision
    <3> QED BY <1>j, <2>1, <3>1
  <2>3. CASE rows[call[c].req].status # "approved"
    BY <1>17, <1>q, <2>3 DEF LostExpiry
  <2> QED BY <2>2, <2>3
<1>18. ASSUME ExpiredFanOut(c) PROVE CallsOK'
  BY <1>18, <1>q DEF ExpiredFanOut
<1> QED BY <1>1, <1>2, <1>3, <1>4, <1>5, <1>6, <1>7, <1>8, <1>9, <1>10, <1>11, <1>12, <1>13,
           <1>14, <1>15, <1>16, <1>17, <1>18 DEF CallStep

\* Steps that leave the calls alone.
LEMMA QuietCalls ==
    ASSUME RowsOK, CallsOK, RowsGrow, call' = call
    PROVE  CallsOK'
BY CallStable DEF CallsOK

\* Every step keeps what the calls know.
LEMMA CallsKept ==
    ASSUME Inv, [Next]_vars
    PROVE  CallsOK'
<1>0. RowsOK /\ CallsOK /\ CountersOK
  BY DEF Inv
<1>g. RowsOK' /\ RowsGrow
  BY RowsKept
<1>u. ASSUME call' = call PROVE CallsOK'
  BY <1>0, <1>g, <1>u, QuietCalls
<1>1. ASSUME NEW c \in Callers, CallStep(c) PROVE CallsOK'
  BY <1>1, CallStepKeepsCalls
<1>2. ASSUME NEW c \in Callers, CallFails(c) PROVE CallsOK'
  <2>1. ASSUME NEW answer \in {"closed", "error", "timeout"}, Return(c, answer) PROVE CallsOK'
    BY <1>0, <1>g, <2>1, ReturnKeeps DEF Finished
  <2>2. ASSUME LateBlind(c) PROVE CallsOK'
    <3> DEFINE rec == [call[c] EXCEPT !.pc = "expire", !.until = now]
    <3>0. call[c] \in CallType /\ CallOK(c) /\ now \in Nat /\ call[c].req # None
      BY <1>0, <2>2, ApprovalsAssumption DEF CallsOK, CallOK, CountersOK, LateBlind, At, Joined
    <3>1. rec \in CallType /\ rec.pc = "expire" /\ rec.req = call[c].req
      BY <3>0 DEF CallType
    <3>2. call' = [call EXCEPT ![c] = rec] /\ faults' = faults + 1
      BY <2>2 DEF LateBlind, Fault
    <3>3. faults' > 0
      BY <1>g, <3>2 DEF RowsGrow
    <3>4. rows'[call[c].req].status # "none"
      BY <1>g, <3>0 DEF CallOK, CallType, RowsGrow
    <3> HIDE DEF rec
    <3>5. Arrives(c, rec)
      BY <3>0, <3>1, <3>2, <3>3, <3>4 DEF Arrives, Early, Own, Joined
    <3> QED BY <1>0, <1>g, <3>5, CallMoves
  <2> QED BY <1>2, <2>1, <2>2 DEF CallFails, LookupFails, InsertFails, InheritFails, RecheckFails, RereadFails, ExpireFails
<1>3. ASSUME NEW o \in Operators,
             \/ \E r \in Callers, scope \in Scopes : DecideStart(o, r, "approved", scope)
             \/ \E r \in Callers : DecideStart(o, r, "rejected", "once")
             \/ DecideCommit(o) \/ DecideFanOut(o) \/ DecideReturn(o)
             \/ \E s \in Sessions : DecideInsert(o, s)
      PROVE  CallsOK'
  BY <1>3, <1>u DEF DecideStart, DecideCommit, DecideFanOut, DecideReturn, DecideInsert
<1>4. ASSUME NEW w \in Workers,
             (\E r \in Callers : Settle(w, r)) \/ (\E s \in Sessions : InsertAllow(w, s))
      PROVE  CallsOK'
  BY <1>4, <1>u DEF Settle, InsertAllow
<1>5. ASSUME NEW w \in Workers, Crash(w) PROVE CallsOK'
  <2> DEFINE dies(c) == WorkerOf[c] = w /\ call[c].pc \notin Finished \cup {"idle"}
             dead(c) == [Idle EXCEPT !.pc = "gone", !.req = call[c].req]
  <2>1. call' = [c \in Callers |-> IF dies(c) THEN dead(c) ELSE call[c]]
    BY <1>5 DEF Crash
  <2>2. \A c \in Callers : dead(c) \in CallType /\ dead(c).pc = "gone" /\ dead(c).req = call[c].req
    BY <1>0 DEF CallsOK, CallType, Idle, Finished, AllScopes
  <2> HIDE DEF dies, dead
  <2>3. /\ call' \in [Callers -> CallType]
        /\ \A c \in Callers : call'[c] = IF dies(c) THEN dead(c) ELSE call[c]
    BY <1>0, <2>1, <2>2 DEF CallsOK
  <2>4. ASSUME NEW c \in Callers, dies(c) PROVE CallOK(c)'
    <3>1. call'[c].pc = "gone" /\ call'[c].req = call[c].req
      BY <2>2, <2>3, <2>4
    <3>2. call[c].req # None => rows'[call[c].req].status # "none"
      BY <1>0, <1>g DEF CallsOK, CallOK, CallType, RowsGrow
    <3> QED BY <3>1, <3>2 DEF CallOK, Early, Own, Joined
  <2>5. ASSUME NEW c \in Callers, ~dies(c) PROVE CallOK(c)'
    BY <1>0, <1>g, <2>3, <2>5, CallStable
  <2> QED BY <2>3, <2>4, <2>5 DEF CallsOK
<1>6. CASE SweepExpired
  BY <1>6, <1>u DEF SweepExpired
<1>7. CASE Tick
  BY <1>7, <1>u DEF Tick
<1>8. CASE UNCHANGED vars
  BY <1>8, <1>u DEF vars
<1> QED BY <1>1, <1>2, <1>3, <1>4, <1>5, <1>6, <1>7, <1>8 DEF Next

----------------------------------------------------------------------------
(* The futures *)

\* A call's row does not change once it has one.
LEMMA RequestsStay ==
    ASSUME Inv, [Next]_vars, NEW c \in Callers, call[c].req # None
    PROVE  call'[c].req = call[c].req
<1>0. call \in [Callers -> CallType] /\ CallOK(c)
  BY DEF Inv, CallsOK
<1>1. ASSUME NEW d \in Callers, NEW pc, Goto(d, pc) PROVE call'[c].req = call[c].req
  BY <1>0, <1>1 DEF Goto, CallType
<1>2. ASSUME NEW d \in Callers, NEW answer, Return(d, answer) PROVE call'[c].req = call[c].req
  BY <1>0, <1>2 DEF Return, Idle, CallType
<1>3. ASSUME NEW d \in Callers, NEW pc, NEW x, call' = [call EXCEPT ![d] = [@ EXCEPT !.pc = pc, !.until = x]]
      PROVE  call'[c].req = call[c].req
  BY <1>0, <1>3 DEF CallType
<1>4. ASSUME NEW d \in Callers, NEW pc, NEW x, call' = [call EXCEPT ![d] = [@ EXCEPT !.pc = pc, !.start = x]]
      PROVE  call'[c].req = call[c].req
  BY <1>0, <1>4 DEF CallType
<1>5. ASSUME NEW d \in Callers, NEW pc, NEW x, call' = [call EXCEPT ![d] = [@ EXCEPT !.pc = pc, !.scope = x]]
      PROVE  call'[c].req = call[c].req
  BY <1>0, <1>5 DEF CallType
<1>6. ASSUME NEW d \in Callers, call[d].pc \in Early PROVE d # c
  BY <1>0, <1>6 DEF CallOK
<1>7. ASSUME call' = call PROVE call'[c].req = call[c].req
  BY <1>7
<1>8. ASSUME NEW d \in Callers, CallStep(d) PROVE call'[c].req = call[c].req
  <2>1. CASE Start(d)
    BY <2>1, <1>2, <1>4 DEF Start
  <2>2. CASE InsertPending(d)
    <3>1. d # c
      BY <2>2, <1>6 DEF InsertPending, At, Early
    <3> QED BY <1>0, <2>2, <3>1 DEF InsertPending, Goto
  <2>3. CASE FetchPending(d)
    <3>1. d # c
      BY <2>3, <1>6 DEF FetchPending, At, Early
    <3> QED BY <1>0, <2>3, <3>1 DEF FetchPending, Goto
  <2>4. CASE Vanished(d)
    BY <2>4, <1>1, <1>2 DEF Vanished
  <2>5. CASE InheritRecent(d)
    BY <2>5, <1>1, <1>5 DEF InheritRecent
  <2>6. CASE Recheck(d)
    BY <2>6, <1>2, <1>3 DEF Recheck
  <2>7. CASE Late(d)
    BY <2>7, <1>2, <1>3 DEF Late
  <2>8. CASE Adopt(d) \/ Expire(d) \/ Wake(d)
    BY <2>8, <1>1, <1>2 DEF Adopt, Expire, Wake
  <2>9. CASE \/ VanishedAllow(d) \/ AdoptAllow(d) \/ Adopted(d) \/ Register(d)
             \/ Reread(d) \/ TimesOut(d) \/ LostExpiry(d) \/ ExpiredFanOut(d)
    BY <2>9, <1>1, <1>2
       DEF VanishedAllow, AdoptAllow, Adopted, Register, Reread, TimesOut, LostExpiry, ExpiredFanOut
  <2> QED BY <1>8, <2>1, <2>2, <2>3, <2>4, <2>5, <2>6, <2>7, <2>8, <2>9 DEF CallStep
<1>9. ASSUME NEW d \in Callers, CallFails(d) PROVE call'[c].req = call[c].req
  BY <1>9, <1>2, <1>3 DEF CallFails, LookupFails, InsertFails, InheritFails, RecheckFails, RereadFails,
                          LateBlind, ExpireFails
<1>10. ASSUME NEW w \in Workers, Crash(w) PROVE call'[c].req = call[c].req
  BY <1>0, <1>10 DEF Crash, Idle, CallType
<1>11. ASSUME NEW o \in Operators,
             \/ \E r \in Callers, scope \in Scopes : DecideStart(o, r, "approved", scope)
             \/ \E r \in Callers : DecideStart(o, r, "rejected", "once")
             \/ DecideCommit(o) \/ DecideFanOut(o) \/ DecideReturn(o)
             \/ \E s \in Sessions : DecideInsert(o, s)
      PROVE  call'[c].req = call[c].req
  BY <1>11, <1>7 DEF DecideStart, DecideCommit, DecideFanOut, DecideReturn, DecideInsert
<1>12. ASSUME NEW w \in Workers,
             (\E r \in Callers : Settle(w, r)) \/ (\E s \in Sessions : InsertAllow(w, s))
      PROVE  call'[c].req = call[c].req
  BY <1>12, <1>7 DEF Settle, InsertAllow
<1>13. CASE SweepExpired \/ Tick \/ UNCHANGED vars
  BY <1>13, <1>7 DEF SweepExpired, Tick, vars
<1> QED BY <1>8, <1>9, <1>10, <1>11, <1>12, <1>13 DEF Next

\* A future that stays or goes still says what its row says.
LEMMA FutureStable ==
    ASSUME Inv, [Next]_vars, NEW c \in Callers,
           waiter'[c] \in {waiter[c], None}, result'[c] \in {result[c], None}
    PROVE  FutureOK(c)'
<1>0. FutureOK(c) /\ RowsGrow /\ waiter[c] \in Callers \cup {None}
  BY RowsKept DEF Inv, FuturesOK
<1>1. call[c].req \in Callers \cup {None} /\ None \notin Callers
  BY ApprovalsAssumption DEF Inv, CallsOK, CallType
<1>2. call[c].req # None => call'[c].req = call[c].req
  BY RequestsStay
<1>3. waiter'[c] # None => waiter'[c] = call'[c].req
  BY <1>0, <1>1, <1>2 DEF FutureOK
<1>4. ASSUME result'[c] # None
      PROVE  /\ call'[c].req # None
             /\ result'[c] = "approved" => rows'[call'[c].req].status = "approved"
             /\ result'[c] # "approved" => rows'[call'[c].req].status \in {"rejected", "expired"}
  <2> DEFINE r == call[c].req
  <2>1. /\ r # None /\ result'[c] = result[c] /\ r \in Callers /\ call'[c].req = r
        /\ result[c] = "approved" => rows[r].status = "approved"
        /\ result[c] # "approved" => rows[r].status \in {"rejected", "expired"}
    BY <1>0, <1>1, <1>2, <1>4 DEF FutureOK
  <2>2. rows'[r] = rows[r]
    BY <1>0, <2>1 DEF RowsGrow, Terminal
  <2> QED BY <2>1, <2>2
<1> QED BY <1>3, <1>4 DEF FutureOK

\* The waiters of a worker are told what their row says.
LEMMA ResolveKeeps ==
    ASSUME Inv, [Next]_vars, NEW w, NEW r \in Callers, NEW decision \in {"approved", "denied"},
           Resolve(w, r, decision),
           decision = "approved" => rows'[r].status = "approved",
           decision = "denied" => rows'[r].status \in {"rejected", "expired"}
    PROVE  FuturesOK'
<1>0. FuturesOK /\ None \notin Callers
  BY ApprovalsAssumption DEF Inv
<1>1. /\ waiter' \in [Callers -> Callers \cup {None}]
      /\ result' \in [Callers -> {"approved", "denied", None}]
  BY <1>0 DEF Resolve, FuturesOK
<1>2. ASSUME NEW c \in Callers, c \in WaitersOn(w, r) PROVE FutureOK(c)'
  <2>1. waiter'[c] = None /\ result'[c] = decision
    BY <1>2 DEF Resolve
  <2>2. call[c].req = r
    BY <1>0, <1>2 DEF WaitersOn, FuturesOK, FutureOK
  <2>3. call'[c].req = r
    BY <1>0, <2>2, RequestsStay
  <2> QED BY <1>0, <2>1, <2>3 DEF FutureOK
<1>3. ASSUME NEW c \in Callers, c \notin WaitersOn(w, r) PROVE FutureOK(c)'
  <2>1. waiter'[c] = waiter[c] /\ result'[c] = result[c]
    BY <1>3 DEF Resolve
  <2> QED BY <2>1, FutureStable
<1> QED BY <1>1, <1>2, <1>3 DEF FuturesOK

\* Every step keeps the futures honest.
LEMMA FuturesKept ==
    ASSUME Inv, [Next]_vars
    PROVE  FuturesOK'
<1>0. RowsOK /\ CallsOK /\ FuturesOK /\ DecidesOK /\ RowsGrow /\ CallsOK' /\ None \notin Callers
  BY RowsKept, CallsKept, ApprovalsAssumption DEF Inv
<1>t. /\ waiter \in [Callers -> Callers \cup {None}]
      /\ result \in [Callers -> {"approved", "denied", None}]
  BY <1>0 DEF FuturesOK
<1>u. ASSUME UNCHANGED futures PROVE FuturesOK'
  <2>1. waiter' = waiter /\ result' = result
    BY <1>u DEF futures
  <2> QED BY <1>t, <2>1, FutureStable DEF FuturesOK
<1>g. ASSUME NEW c \in Callers, waiter' = [waiter EXCEPT ![c] = None], result' = [result EXCEPT ![c] = None]
      PROVE  FuturesOK'
  <2>1. /\ waiter' \in [Callers -> Callers \cup {None}]
        /\ result' \in [Callers -> {"approved", "denied", None}]
    BY <1>t, <1>g
  <2>2. \A d \in Callers : waiter'[d] \in {waiter[d], None} /\ result'[d] \in {result[d], None}
    BY <1>t, <1>g
  <2> QED BY <2>1, <2>2, FutureStable DEF FuturesOK
<1>d. ASSUME NEW w, NEW r \in Callers, rows[r].status \in Terminal, rows' = rows,
             Resolve(w, r, DecisionOf(r))
      PROVE  FuturesOK'
  <2>1. CASE rows[r].status = "approved"
    BY <1>d, <2>1, ResolveKeeps DEF DecisionOf
  <2>2. CASE rows[r].status # "approved"
    BY <1>d, <2>2, ResolveKeeps DEF DecisionOf, Terminal
  <2> QED BY <2>1, <2>2
<1>1. ASSUME NEW c \in Callers, CallStep(c) PROVE FuturesOK'
  <2>1. CASE Adopted(c)
    <3>1. rows' = rows /\ rows[c].status = "approved" /\ Resolve(WorkerOf[c], c, "approved")
      BY <1>0, <2>1 DEF Adopted, At, CallsOK, CallOK, db
    <3> QED BY <3>1, ResolveKeeps
  <2>2. CASE ExpiredFanOut(c)
    <3>1. /\ rows' = rows /\ call[c].req \in Callers /\ rows[call[c].req].status = "expired"
          /\ Resolve(WorkerOf[c], call[c].req, "denied")
      BY <1>0, <2>2 DEF ExpiredFanOut, At, CallsOK, CallOK, CallType, Joined, db
    <3> QED BY <3>1, ResolveKeeps
  <2>3. CASE Register(c)
    <3>1. /\ waiter' = [waiter EXCEPT ![c] = call[c].req] /\ result' = result
          /\ call[c].req # None /\ call[c].req \in Callers
      BY <1>0, <2>3 DEF Register, At, CallsOK, CallOK, CallType, Joined
    <3>2. call'[c].req = call[c].req
      BY <3>1, RequestsStay
    <3>3. ASSUME NEW d \in Callers, d # c PROVE FutureOK(d)'
      <4>1. waiter'[d] = waiter[d] /\ result'[d] = result[d]
        BY <1>t, <3>1, <3>3
      <4> QED BY <4>1, FutureStable
    <3>4. FutureOK(c)'
      <4>1. waiter'[c] = call'[c].req
        BY <1>t, <3>1, <3>2
      <4>2. FutureOK(c) /\ result'[c] = result[c]
        BY <1>0, <3>1 DEF FuturesOK
      <4>3. rows[call[c].req].status \in Terminal => rows'[call[c].req] = rows[call[c].req]
        BY <1>0, <3>1 DEF RowsGrow
      <4> QED BY <3>1, <3>2, <4>1, <4>2, <4>3 DEF FutureOK, Terminal
    <3>5. waiter' \in [Callers -> Callers \cup {None}]
      BY <1>t, <3>1
    <3> QED BY <1>t, <3>1, <3>3, <3>4, <3>5 DEF FuturesOK
  <2>4. CASE Recheck(c)
    <3>1. UNCHANGED futures \/ Cancel(c)
      BY <2>4 DEF Recheck
    <3> QED BY <1>g, <1>u, <3>1 DEF Cancel
  <2>5. CASE TimesOut(c)
    BY <1>g, <2>5 DEF TimesOut, Cancel
  <2>6. CASE Wake(c)
    <3>1. waiter' = waiter /\ result' = [result EXCEPT ![c] = None]
      BY <2>6 DEF Wake
    <3>2. /\ waiter' \in [Callers -> Callers \cup {None}]
          /\ result' \in [Callers -> {"approved", "denied", None}]
      BY <1>t, <3>1
    <3>3. \A d \in Callers : waiter'[d] \in {waiter[d], None} /\ result'[d] \in {result[d], None}
      BY <1>t, <3>1
    <3> QED BY <3>2, <3>3, FutureStable DEF FuturesOK
  <2>7. CASE \/ Start(c) \/ InsertPending(c) \/ FetchPending(c) \/ Vanished(c) \/ VanishedAllow(c)
             \/ InheritRecent(c) \/ Adopt(c) \/ AdoptAllow(c) \/ Reread(c) \/ Late(c) \/ Expire(c)
             \/ LostExpiry(c)
    <3>1. UNCHANGED futures
      BY <2>7 DEF Start, InsertPending, FetchPending, Vanished, VanishedAllow, InheritRecent, Adopt,
                  AdoptAllow, Reread, Late, Expire, LostExpiry, futures
    <3> QED BY <1>u, <3>1
  <2> QED BY <1>1, <2>1, <2>2, <2>3, <2>4, <2>5, <2>6, <2>7 DEF CallStep
<1>2. ASSUME NEW c \in Callers, CallFails(c) PROVE FuturesOK'
  <2>1. UNCHANGED futures
    BY <1>2 DEF CallFails, LookupFails, InsertFails, InheritFails, RecheckFails, RereadFails, LateBlind,
                ExpireFails, futures
  <2> QED BY <1>u, <2>1
<1>3. ASSUME NEW o \in Operators, DecideFanOut(o) PROVE FuturesOK'
  <2> DEFINE r == dec[o].req
  <2>1. rows' = rows /\ Resolve(WorkerOf[o], r, DecisionOf(r)) /\ dec[o].pc = "fanout"
    BY <1>3 DEF DecideFanOut, db
  <2>2. dec[o] \in DecideType /\ r # None /\ rows[r].status = dec[o].status
    BY <1>0, <2>1 DEF DecidesOK, DecideOK
  <2>3. r \in Callers /\ rows[r].status \in Terminal
    BY <2>2 DEF DecideType, Terminal
  <2> QED BY <1>d, <2>1, <2>3
<1>4. ASSUME NEW o \in Operators,
             \/ \E r \in Callers, scope \in Scopes : DecideStart(o, r, "approved", scope)
             \/ \E r \in Callers : DecideStart(o, r, "rejected", "once")
             \/ DecideCommit(o) \/ DecideReturn(o)
             \/ \E s \in Sessions : DecideInsert(o, s)
      PROVE  FuturesOK'
  <2>1. UNCHANGED futures
    BY <1>4 DEF DecideStart, DecideCommit, DecideReturn, DecideInsert, futures
  <2> QED BY <1>u, <2>1
<1>5. ASSUME NEW w \in Workers, NEW r \in Callers, Settle(w, r) PROVE FuturesOK'
  BY <1>5, <1>d DEF Settle, db
<1>6. ASSUME NEW w \in Workers, NEW s \in Sessions, InsertAllow(w, s) PROVE FuturesOK'
  BY <1>6, <1>u DEF InsertAllow
<1>7. ASSUME NEW w \in Workers, Crash(w) PROVE FuturesOK'
  <2>1. /\ waiter' \in [Callers -> Callers \cup {None}]
        /\ result' \in [Callers -> {"approved", "denied", None}]
    BY <1>t, <1>7 DEF Crash
  <2>2. \A d \in Callers : waiter'[d] \in {waiter[d], None} /\ result'[d] \in {result[d], None}
    BY <1>t, <1>7 DEF Crash
  <2> QED BY <2>1, <2>2, FutureStable DEF FuturesOK
<1>8. ASSUME SweepExpired \/ Tick PROVE FuturesOK'
  <2>1. UNCHANGED futures
    BY <1>8 DEF SweepExpired, Tick, futures
  <2> QED BY <1>u, <2>1
<1>9. CASE UNCHANGED vars
  BY <1>9, <1>u DEF vars, futures
<1> QED BY <1>1, <1>2, <1>3, <1>4, <1>5, <1>6, <1>7, <1>8, <1>9 DEF Next

----------------------------------------------------------------------------
(* The operators and the cached sessions *)

\* What an operator's call knows stays true while others work.
LEMMA DecideStable ==
    ASSUME RowsOK, DecidesOK, RowsGrow, NEW o \in Operators, dec'[o] = dec[o]
    PROVE  DecideOK(o)'
<1>0. DecideOK(o) /\ dec[o] \in DecideType
  BY DEF DecidesOK
<1>1. Granted("session") => Granted("session")'
  BY GrantedStays
<1>2. dec[o].pc = "fanout" => rows'[dec[o].req] = rows[dec[o].req]
  <2> SUFFICES ASSUME dec[o].pc = "fanout" PROVE rows'[dec[o].req] = rows[dec[o].req]
    OBVIOUS
  <2>1. dec[o].req \in Callers /\ rows[dec[o].req].status \in Terminal
    BY <1>0 DEF DecideOK, DecideType, Terminal
  <2> QED BY <2>1 DEF RowsGrow
<1> QED BY <1>0, <1>1, <1>2 DEF DecideOK

\* One operator's call moves on, and knows what it needs where it is now.
LEMMA DecideMoves ==
    ASSUME RowsOK, DecidesOK, RowsGrow, NEW o \in Operators, NEW rec \in DecideType,
           dec' = [dec EXCEPT ![o] = rec], DecideOK(o)'
    PROVE  DecidesOK'
<1>1. /\ dec' \in [Operators -> DecideType]
      /\ \A k \in Operators : k # o => dec'[k] = dec[k]
  BY DEF DecidesOK
<1>2. \A k \in Operators : DecideOK(k)'
  BY <1>1, DecideStable
<1> QED BY <1>1, <1>2 DEF DecidesOK

\* Every step keeps what the operators' calls know.
LEMMA DecidesKept ==
    ASSUME Inv, [Next]_vars
    PROVE  DecidesOK'
<1>0. RowsOK /\ DecidesOK /\ CountersOK /\ RowsGrow /\ None \notin Callers /\ now \in Nat
  BY RowsKept, ApprovalsAssumption DEF Inv, CountersOK
<1>t. dec \in [Operators -> DecideType]
  BY <1>0 DEF DecidesOK
<1>u. ASSUME dec' = dec PROVE DecidesOK'
  <2>1. \A o \in Operators : DecideOK(o)'
    BY <1>0, <1>u, DecideStable
  <2> QED BY <1>t, <1>u, <2>1 DEF DecidesOK
<1>e. /\ [NoDecide EXCEPT !.pc = "done"] \in DecideType
      /\ [NoDecide EXCEPT !.pc = "done"].pc = "done" /\ [NoDecide EXCEPT !.pc = "done"].sids = {}
  BY DEF NoDecide, DecideType, AllScopes
<1>d. ASSUME NEW o \in Operators, dec' = [dec EXCEPT ![o] = [NoDecide EXCEPT !.pc = "done"]]
      PROVE  DecidesOK'
  <2> DEFINE rec == [NoDecide EXCEPT !.pc = "done"]
  <2>1. dec'[o] = rec /\ rec \in DecideType /\ rec.pc = "done" /\ rec.sids = {}
    BY <1>t, <1>d, <1>e
  <2> HIDE DEF rec
  <2>2. DecideOK(o)'
    BY <2>1 DEF DecideOK
  <2> QED BY <1>0, <1>d, <2>1, <2>2, DecideMoves DEF rec
<1>1. ASSUME NEW c \in Callers, CallStep(c) \/ CallFails(c) PROVE DecidesOK'
  <2>1. dec' = dec
    BY <1>1 DEF CallStep, CallFails, Start, InsertPending, FetchPending, Vanished, VanishedAllow,
                InheritRecent, Adopt, AdoptAllow, Adopted, Register, Recheck, Wake, Reread,
                TimesOut, Late, Expire, LostExpiry, ExpiredFanOut, LookupFails, InsertFails, InheritFails,
                RecheckFails, RereadFails, LateBlind, ExpireFails, others
  <2> QED BY <1>u, <2>1
<1>2. ASSUME NEW o \in Operators, NEW r \in Callers, NEW status \in {"approved", "rejected"},
             NEW scope \in AllScopes, DecideStart(o, r, status, scope)
      PROVE  DecidesOK'
  <2> DEFINE rec == [dec[o] EXCEPT !.pc = "commit", !.req = r, !.status = status,
                                   !.scope = scope, !.start = now]
  <2>1. /\ rec \in DecideType /\ rec.pc = "commit" /\ rec.req = r /\ rec.sids = dec[o].sids
    BY <1>0, <1>t DEF DecideType
  <2>2. dec' = [dec EXCEPT ![o] = rec]
    BY <1>2 DEF DecideStart
  <2> HIDE DEF rec
  <2>3. dec'[o] = rec /\ DecideOK(o)
    BY <1>0, <1>t, <2>2 DEF DecidesOK
  <2>4. Granted("session") => Granted("session")'
    BY <1>0, GrantedStays
  <2>5. DecideOK(o)'
    BY <1>0, <2>1, <2>3, <2>4 DEF DecideOK
  <2> QED BY <1>0, <2>1, <2>2, <2>5, DecideMoves
<1>3. ASSUME NEW o \in Operators, DecideCommit(o) PROVE DecidesOK'
  <2> DEFINE r == dec[o].req
  <2>1. CASE CanTransition(r, dec[o].status, dec[o].start)
    <3> DEFINE rec == [dec[o] EXCEPT !.pc = "fanout"]
    <3>0. dec[o] \in DecideType /\ DecideOK(o) /\ dec[o].pc = "commit" /\ r # None
      BY <1>0, <1>3 DEF DecidesOK, DecideCommit, DecideOK
    <3>r. r \in Callers
      BY <3>0 DEF DecideType
    <3>1. /\ rec \in DecideType /\ rec.pc = "fanout" /\ rec.req = r /\ rec.sids = dec[o].sids
          /\ rec.status = dec[o].status /\ rec.scope = dec[o].scope
      BY <3>0 DEF DecideType
    <3>2. dec' = [dec EXCEPT ![o] = rec]
      BY <1>3, <2>1 DEF DecideCommit
    <3>3. /\ rows'[r].status = dec[o].status /\ rows'[r].scope = dec[o].scope
          /\ ~rows'[r].inherited
      <4>1. Transition(r, dec[o].status, dec[o].scope, dec[o].start, FALSE)
        BY <1>3, <2>1 DEF DecideCommit
      <4>2. rows \in [Callers -> RowType] /\ rows[r] \in RowType
        BY <1>0, <3>r DEF RowsOK
      <4>3. rows' = [rows EXCEPT ![r] = [rows[r] EXCEPT !.status = dec[o].status,
                        !.decided_at = dec[o].start, !.scope = dec[o].scope, !.inherited = FALSE]]
        BY <4>1 DEF Transition
      <4> QED BY <3>r, <4>2, <4>3 DEF RowType
    <3> HIDE DEF rec
    <3>4. dec'[o] = rec
      BY <1>t, <3>2
    <3>5. Granted("session") => Granted("session")'
      BY <1>0, GrantedStays
    <3>6. DecideOK(o)'
      BY <3>0, <3>1, <3>3, <3>4, <3>5 DEF DecideOK
    <3> QED BY <1>0, <3>1, <3>2, <3>6, DecideMoves
  <2>2. CASE ~CanTransition(r, dec[o].status, dec[o].start)
    BY <1>3, <1>d, <2>2 DEF DecideCommit
  <2> QED BY <2>1, <2>2
<1>4. ASSUME NEW o \in Operators, DecideFanOut(o) PROVE DecidesOK'
  <2> DEFINE r == dec[o].req
             ok == dec[o].status = "approved" /\ dec[o].scope = "session"
             sids == IF ok THEN ({rows[r].session} \cap RealSessions) \cup SessionIdsFor(WorkerOf[o], r)
                     ELSE {}
             rec == [dec[o] EXCEPT !.pc = "insert", !.sids = sids]
  <2>0. /\ dec[o] \in DecideType /\ dec[o].pc = "fanout" /\ r # None /\ rows' = rows
        /\ rows[r].status = dec[o].status /\ rows[r].scope = dec[o].scope /\ ~rows[r].inherited
    BY <1>0, <1>4 DEF DecidesOK, DecideFanOut, DecideOK, db
  <2>1. sids \subseteq RealSessions /\ (sids # {} => ok)
    BY DEF SessionIdsFor
  <2>2. dec' = [dec EXCEPT ![o] = rec]
    BY <1>4 DEF DecideFanOut
  <2> HIDE DEF sids
  <2>3. /\ rec \in DecideType /\ rec.pc = "insert" /\ rec.req = r /\ rec.sids = sids
    BY <2>0, <2>1, ApprovalsAssumption DEF DecideType
  <2>4. ok => Granted("session")'
    <3>1. r \in Callers
      BY <2>0 DEF DecideType
    <3> QED BY <2>0, <3>1 DEF Granted
  <2> HIDE DEF rec, ok
  <2>5. dec'[o] = rec
    BY <1>t, <2>2
  <2>6. DecideOK(o)'
    BY <2>0, <2>1, <2>3, <2>4, <2>5 DEF DecideOK
  <2> QED BY <1>0, <2>2, <2>3, <2>6, DecideMoves
<1>5. ASSUME NEW o \in Operators, DecideReturn(o) PROVE DecidesOK'
  BY <1>5, <1>d DEF DecideReturn
<1>6. ASSUME NEW o \in Operators, NEW s \in Sessions, DecideInsert(o, s) PROVE DecidesOK'
  <2> DEFINE rec == [dec[o] EXCEPT !.sids = dec[o].sids \ {s}]
  <2>0. dec[o] \in DecideType /\ DecideOK(o) /\ dec[o].pc = "insert"
    BY <1>0, <1>6 DEF DecidesOK, DecideInsert
  <2>1. /\ rec \in DecideType /\ rec.pc = "insert" /\ rec.req = dec[o].req
        /\ rec.sids = dec[o].sids \ {s}
    BY <2>0 DEF DecideType
  <2>2. dec' = [dec EXCEPT ![o] = rec]
    BY <1>6 DEF DecideInsert
  <2> HIDE DEF rec
  <2>3. dec'[o] = rec
    BY <1>t, <2>2
  <2>4. Granted("session") => Granted("session")'
    BY <1>0, GrantedStays
  <2>5. DecideOK(o)'
    BY <2>0, <2>1, <2>3, <2>4 DEF DecideOK
  <2> QED BY <1>0, <2>1, <2>2, <2>5, DecideMoves
<1>7. ASSUME NEW w \in Workers, Crash(w) PROVE DecidesOK'
  <2> DEFINE rec == [NoDecide EXCEPT !.pc = "done"]
             dies(o) == WorkerOf[o] = w /\ dec[o].pc # "idle"
  <2>1. dec' = [o \in Operators |-> IF dies(o) THEN rec ELSE dec[o]]
    BY <1>7 DEF Crash
  <2>2. rec \in DecideType /\ rec.pc = "done" /\ rec.sids = {}
    BY <1>e
  <2> HIDE DEF rec, dies
  <2>3. /\ dec' \in [Operators -> DecideType]
        /\ \A o \in Operators : dec'[o] = IF dies(o) THEN rec ELSE dec[o]
    BY <1>t, <2>1, <2>2
  <2>4. ASSUME NEW o \in Operators, dies(o) PROVE DecideOK(o)'
    BY <2>2, <2>3, <2>4 DEF DecideOK
  <2>5. ASSUME NEW o \in Operators, ~dies(o) PROVE DecideOK(o)'
    BY <1>0, <2>3, <2>5, DecideStable
  <2> QED BY <2>3, <2>4, <2>5 DEF DecidesOK
<1>8. ASSUME NEW w \in Workers,
             (\E r \in Callers : Settle(w, r)) \/ (\E s \in Sessions : InsertAllow(w, s))
      PROVE  DecidesOK'
  BY <1>8, <1>u DEF Settle, InsertAllow
<1>9. ASSUME SweepExpired \/ Tick PROVE DecidesOK'
  BY <1>9, <1>u DEF SweepExpired, Tick, others
<1>10. CASE UNCHANGED vars
  BY <1>10, <1>u DEF vars
<1>11. Scopes \subseteq AllScopes /\ "once" \in AllScopes
  BY ApprovalsAssumption DEF AllScopes
<1> QED BY <1>1, <1>2, <1>3, <1>4, <1>5, <1>6, <1>7, <1>8, <1>9, <1>10, <1>11 DEF Next
\* Every step that caches a session, or means to, has a SESSION approval behind it.
LEMMA GrantsKept ==
    ASSUME Inv, [Next]_vars
    PROVE  GrantsOK'
<1>0. /\ RowsOK /\ CallsOK /\ DecidesOK /\ GrantsOK /\ RowsGrow
      /\ (Granted("session") => Granted("session")')
  BY RowsKept, GrantedStays DEF Inv
<1>u. ASSUME allow' = allow, inserts' = inserts PROVE GrantsOK'
  BY <1>0, <1>u DEF GrantsOK
<1>a. ASSUME NEW s \in RealSessions, Granted("session"), allow' = allow \cup {s} \/ allow' = allow,
             inserts' \subseteq inserts
      PROVE  GrantsOK'
  BY <1>0, <1>a DEF GrantsOK
<1>1. ASSUME NEW c \in Callers, CallStep(c) PROVE GrantsOK'
  <2>1. CASE VanishedAllow(c)
    <3>1. SessionOf[c] \in RealSessions /\ Granted("session")
      BY <1>0, <2>1 DEF VanishedAllow, At, CallsOK, CallOK
    <3>2. (allow' = allow \cup {SessionOf[c]} \/ allow' = allow) /\ inserts' = inserts
      BY <2>1 DEF VanishedAllow, others
    <3> QED BY <1>a, <3>1, <3>2
  <2>2. CASE AdoptAllow(c)
    <3>1. SessionOf[c] \in RealSessions /\ Granted("session")
      BY <1>0, <2>2 DEF AdoptAllow, At, CallsOK, CallOK
    <3>2. allow' = allow \cup {SessionOf[c]} /\ inserts' = inserts
      BY <2>2 DEF AdoptAllow, others
    <3> QED BY <1>a, <3>1, <3>2
  <2>3. CASE \/ Start(c) \/ InsertPending(c) \/ FetchPending(c) \/ Vanished(c) \/ InheritRecent(c)
             \/ Adopt(c) \/ Adopted(c) \/ Register(c) \/ Recheck(c) \/ Wake(c) \/ Reread(c)
             \/ TimesOut(c) \/ Late(c) \/ Expire(c) \/ LostExpiry(c) \/ ExpiredFanOut(c)
    <3>1. allow' = allow /\ inserts' = inserts
      BY <2>3 DEF Start, InsertPending, FetchPending, Vanished, InheritRecent, Adopt, Adopted,
                  Register, Recheck, Wake, Reread, TimesOut, Late, Expire, LostExpiry,
                  ExpiredFanOut, db, others
    <3> QED BY <1>u, <3>1
  <2> QED BY <1>1, <2>1, <2>2, <2>3 DEF CallStep
<1>2. ASSUME NEW c \in Callers, CallFails(c) PROVE GrantsOK'
  <2>1. allow' = allow /\ inserts' = inserts
    BY <1>2 DEF CallFails, LookupFails, InsertFails, InheritFails, RecheckFails, RereadFails, LateBlind,
                ExpireFails, db, others
  <2> QED BY <1>u, <2>1
<1>3. ASSUME NEW o \in Operators, NEW s \in Sessions, DecideInsert(o, s) PROVE GrantsOK'
  <2>1. s \in RealSessions /\ Granted("session")
    BY <1>0, <1>3 DEF DecideInsert, DecidesOK, DecideOK
  <2>2. (allow' = allow \cup {s} \/ allow' = allow) /\ inserts' = inserts
    BY <1>3 DEF DecideInsert
  <2> QED BY <1>a, <2>1, <2>2
<1>4. ASSUME NEW o \in Operators,
             \/ \E r \in Callers, scope \in Scopes : DecideStart(o, r, "approved", scope)
             \/ \E r \in Callers : DecideStart(o, r, "rejected", "once")
             \/ DecideCommit(o) \/ DecideFanOut(o) \/ DecideReturn(o)
      PROVE  GrantsOK'
  <2>1. allow' = allow /\ inserts' = inserts
    BY <1>4 DEF DecideStart, DecideCommit, DecideFanOut, DecideReturn, db
  <2> QED BY <1>u, <2>1
<1>5. ASSUME NEW w \in Workers, NEW r \in Callers, Settle(w, r) PROVE GrantsOK'
  <2>1. CASE rows[r].status = "approved" /\ rows[r].scope = "session"
    <3>1. Granted("session")
      <4>1. CASE rows[r].inherited
        BY <1>0, <2>1, <4>1 DEF RowsOK
      <4>2. CASE ~rows[r].inherited
        BY <2>1, <4>2 DEF Granted
      <4> QED BY <4>1, <4>2
    <3>2. allow' = allow /\ inserts' = inserts \cup ({w} \X SessionIdsFor(w, r))
      BY <1>5, <2>1 DEF Settle, db
    <3>3. SessionIdsFor(w, r) \subseteq RealSessions
      BY DEF SessionIdsFor
    <3>4. inserts' \in SUBSET (Workers \X RealSessions)
      BY <1>0, <3>2, <3>3 DEF GrantsOK
    <3> QED BY <1>0, <3>1, <3>2, <3>4 DEF GrantsOK
  <2>2. CASE ~(rows[r].status = "approved" /\ rows[r].scope = "session")
    BY <1>5, <1>u, <2>2 DEF Settle, db
  <2> QED BY <2>1, <2>2
<1>6. ASSUME NEW w \in Workers, NEW s \in Sessions, InsertAllow(w, s) PROVE GrantsOK'
  <2>1. <<w, s>> \in inserts /\ inserts \in SUBSET (Workers \X RealSessions) /\ Granted("session")
    BY <1>0, <1>6 DEF InsertAllow, GrantsOK
  <2>2. (allow' = allow \cup {s} \/ allow' = allow) /\ inserts' \subseteq inserts /\ s \in RealSessions
    BY <1>6, <2>1 DEF InsertAllow
  <2> QED BY <1>a, <2>1, <2>2
<1>7. ASSUME NEW w \in Workers, Crash(w) PROVE GrantsOK'
  <2>1. allow' = allow /\ inserts' \subseteq inserts
    BY <1>7 DEF Crash, db
  <2> QED BY <1>0, <2>1 DEF GrantsOK
<1>8. ASSUME SweepExpired \/ Tick PROVE GrantsOK'
  BY <1>8, <1>u DEF SweepExpired, Tick, others, db
<1>9. CASE UNCHANGED vars
  BY <1>9, <1>u DEF vars
<1> QED BY <1>1, <1>2, <1>3, <1>4, <1>5, <1>6, <1>7, <1>8, <1>9 DEF Next

----------------------------------------------------------------------------
(* The theorems *)

\* The first state satisfies the invariant: nothing was asked yet.
LEMMA InitInv ==
    ASSUME Init PROVE Inv
<1>1. NoRow \in RowType /\ NoRow.status = "none" /\ NoRow.inherited = FALSE
  BY DEF NoRow, RowType, Statuses, AllScopes
<1>2. Idle \in CallType /\ Idle.pc = "idle" /\ Idle.req = None
  BY DEF Idle, CallType, AllScopes
<1>3. NoDecide \in DecideType /\ NoDecide.pc = "idle" /\ NoDecide.sids = {}
  BY DEF NoDecide, DecideType, AllScopes
<1>4. \A r \in Callers : rows[r] = NoRow /\ audit[r] = <<>> /\ call[r] = Idle
                         /\ waiter[r] = None /\ result[r] = None
  BY DEF Init
<1>5. RowsOK
  <2>1. rows \in [Callers -> RowType] /\ audit \in [Callers -> Seq(Terminal)]
    BY <1>1 DEF Init
  <2>2. AuditExact /\ ExpiredInTime
    BY <1>1, <1>4 DEF AuditExact, ExpiredInTime, Terminal
  <2> QED BY <1>1, <1>4, <2>1, <2>2 DEF RowsOK
<1>6. CallsOK
  <2>1. call \in [Callers -> CallType]
    BY <1>2 DEF Init
  <2>2. ASSUME NEW c \in Callers PROVE CallOK(c)
    BY <1>1, <1>2, <1>4 DEF CallOK, Early, Own, Joined
  <2> QED BY <2>1, <2>2 DEF CallsOK
<1>7. FuturesOK
  BY DEF Init, FuturesOK, FutureOK
<1>8. DecidesOK
  <2>1. dec \in [Operators -> DecideType] /\ \A o \in Operators : dec[o] = NoDecide
    BY <1>3 DEF Init
  <2> QED BY <1>3, <2>1 DEF DecidesOK, DecideOK
<1>9. GrantsOK /\ CountersOK
  BY ApprovalsAssumption DEF Init, GrantsOK, CountersOK
<1> QED BY <1>5, <1>6, <1>7, <1>8, <1>9 DEF Inv

\* Every step keeps it, part by part.
LEMMA StepInv ==
    ASSUME Inv, [Next]_vars PROVE Inv'
BY RowsKept, CallsKept, FuturesKept, DecidesKept, GrantsKept, CountersKept DEF Inv

\* The rows, the calls, the futures, the operators and the cache agree in every
\* reachable state.
THEOREM ApprovalsInvariant == Spec => []Inv
BY InitInv, StepInv, PTL DEF Spec

\* Every variable keeps its type: in particular no fabricated session is cached.
THEOREM ApprovalsTypeOK == Spec => []TypeOK
<1>1. Inv => TypeOK
  BY DEF Inv, RowsOK, CallsOK, FuturesOK, DecidesOK, GrantsOK, CountersOK, TypeOK
<1> QED BY <1>1, ApprovalsInvariant, PTL

\* transition() and sweep_expired write one audit record per decided row, whoever
\* races for it.
THEOREM ApprovalsAuditExact == Spec => []AuditExact
<1>1. Inv => AuditExact
  BY DEF Inv, RowsOK
<1> QED BY <1>1, ApprovalsInvariant, PTL

\* request_and_wait tells no caller "approved" or "denied" without the row, or the
\* lasting approval, that says so.
THEOREM ApprovalsAnswersHonest == Spec => []AnswersHonest
<1>1. Inv => AnswersHonest
  BY DEF Inv, CallsOK, CallOK, AnswersHonest, At
<1> QED BY <1>1, ApprovalsInvariant, PTL

\* Inherited rows and session_allow go back to an operator's approval of that scope.
THEOREM ApprovalsGrants == Spec => []GrantsComeFromOperators
<1>1. Inv => GrantsComeFromOperators
  BY DEF Inv, RowsOK, GrantsOK, Granted, GrantsComeFromOperators
<1> QED BY <1>1, ApprovalsInvariant, PTL

\* While the database answers, no caller's short timeout expires a shared row early.
THEOREM ApprovalsExpiredInTime == Spec => []ExpiredInTime
<1>1. Inv => ExpiredInTime
  BY DEF Inv, RowsOK
<1> QED BY <1>1, ApprovalsInvariant, PTL

\* No decision is overruled.
THEOREM ApprovalsDecisionsFinal == Spec => DecisionsFinal
<1>1. Inv /\ [Next]_vars => [\A r \in Callers : rows[r].status \in Terminal =>
                               rows'[r] = rows[r] /\ audit'[r] = audit[r]]_vars
  BY RowsKept DEF RowsGrow
<1> QED BY <1>1, ApprovalsInvariant, PTL DEF Spec, DecisionsFinal
\* A step that tells a caller its time is over although its row is decided is one
\* in which a database call failed, or the caller lost the race to a rejection.
LEMMA TimeoutsTrue ==
    ASSUME Inv, [Next]_vars, NEW c \in Callers, call'[c].pc = "timeout", call[c].pc # "timeout",
           rows[call[c].req].status \in {"approved", "rejected"},
           ~ (rows[call[c].req].status = "rejected" /\ call[c].pc = "lost")
    PROVE  faults' > faults
<1>0. /\ call \in [Callers -> CallType] /\ \A d \in Callers : CallOK(d)
      /\ faults \in Nat
  BY ApprovalsAssumption DEF Inv, CallsOK, CountersOK
<1>g. ASSUME NEW d \in Callers, NEW pc, Goto(d, pc), pc # "timeout" PROVE FALSE
  BY <1>0, <1>g DEF Goto, CallType
<1>r. ASSUME NEW d \in Callers, NEW answer, Return(d, answer) PROVE d = c /\ answer = "timeout"
  BY <1>0, <1>r DEF Return, Idle, CallType
<1>e. ASSUME NEW d \in Callers, NEW rec, call' = [call EXCEPT ![d] = rec], rec.pc # "timeout"
      PROVE  FALSE
  BY <1>0, <1>e
<1>d. ASSUME rows[call[c].req].status \in Terminal PROVE RowToDecision(call[c].req) # "timeout"
  BY DEF RowToDecision
<1>q. ASSUME call' = call PROVE FALSE
  BY <1>q
<1>1. ASSUME NEW d \in Callers, CallStep(d) PROVE FALSE
  <2>0. call[d] \in CallType
    BY <1>0
  <2>1. CASE Start(d)
    <3>1. Return(d, "approved") \/ call' = [call EXCEPT ![d] = [call[d] EXCEPT !.pc = "insert", !.start = now]]
      BY <2>1 DEF Start
    <3>2. [call[d] EXCEPT !.pc = "insert", !.start = now].pc = "insert"
      BY <2>0 DEF CallType
    <3>3. ~ Return(d, "approved")
      BY <1>r
    <3> QED BY <1>e, <3>1, <3>2, <3>3
  <2>2. CASE InsertPending(d)
    <3>1. Goto(d, "select") \/ call' = [call EXCEPT ![d] = [call[d] EXCEPT !.pc = "inherit", !.req = d]]
      BY <2>2 DEF InsertPending
    <3>2. [call[d] EXCEPT !.pc = "inherit", !.req = d].pc = "inherit"
      BY <2>0 DEF CallType
    <3> QED BY <1>g, <1>e, <3>1, <3>2
  <2>3. CASE FetchPending(d)
    <3>1. \/ Goto(d, "vanished")
          \/ \E r \in Pending : call' = [call EXCEPT ![d] = [call[d] EXCEPT !.pc = "register", !.req = r]]
      BY <2>3 DEF FetchPending
    <3>2. ASSUME NEW r PROVE [call[d] EXCEPT !.pc = "register", !.req = r].pc = "register"
      BY <2>0 DEF CallType
    <3> QED BY <1>g, <1>e, <3>1, <3>2
  <2>4. CASE Vanished(d)
    BY <1>g, <1>r, <2>4 DEF Vanished
  <2>5. CASE InheritRecent(d)
    <3>1. \/ Goto(d, "register")
          \/ \E r \in Callers : call' = [call EXCEPT ![d] = [call[d] EXCEPT !.pc = "adopt", !.scope = rows[r].scope]]
      BY <2>5 DEF InheritRecent, RecentDecisions
    <3>2. ASSUME NEW r \in Callers PROVE [call[d] EXCEPT !.pc = "adopt", !.scope = rows[r].scope].pc = "adopt"
      BY <2>0 DEF CallType
    <3> QED BY <1>g, <1>e, <3>1, <3>2
  <2>6. CASE Recheck(d)
    <3>1. \/ /\ rows[call[d].req].status \in Terminal
             /\ Return(d, RowToDecision(call[d].req))
          \/ call' = [call EXCEPT ![d] = [call[d] EXCEPT !.pc = "wait", !.until = now + TimeoutOf[d]]]
      BY <2>6 DEF Recheck
    <3>2. [call[d] EXCEPT !.pc = "wait", !.until = now + TimeoutOf[d]].pc = "wait"
      BY <2>0 DEF CallType
    <3> QED BY <1>d, <1>r, <1>e, <3>1, <3>2
  <2>7. CASE Late(d)
    <3>1. \/ /\ rows[call[d].req].status \in Terminal
             /\ Return(d, RowToDecision(call[d].req))
          \/ call' = [call EXCEPT ![d] = [call[d] EXCEPT !.pc = "expire", !.until = now]]
          \/ rows[call[d].req].status \notin Terminal /\ Return(d, "timeout")
      BY <2>7 DEF Late
    <3>2. [call[d] EXCEPT !.pc = "expire", !.until = now].pc = "expire"
      BY <2>0 DEF CallType
    <3> QED BY <1>d, <1>r, <1>e, <3>1, <3>2 DEF Terminal
  <2>8. CASE Reread(d) \/ LostExpiry(d) \/ ExpiredFanOut(d)
    <3>1. \/ Return(d, IF rows[call[d].req].status = "expired" THEN "timeout" ELSE "denied")
          \/ /\ call[d].pc = "lost"
             /\ Return(d, IF rows[call[d].req].status = "approved" THEN "approved" ELSE "timeout")
          \/ rows[call[d].req].status = "expired" /\ Return(d, "timeout")
      BY <1>0, <2>8 DEF Reread, LostExpiry, ExpiredFanOut, At, CallOK
    <3>2. \A answer : Return(d, answer) => d = c /\ answer = "timeout"
      BY <1>r
    <3> HIDE DEF Return
    <3> QED BY <3>1, <3>2
  <2>9. CASE Adopt(d) \/ Expire(d) \/ Wake(d) \/ VanishedAllow(d) \/ AdoptAllow(d) \/ Adopted(d)
             \/ Register(d) \/ TimesOut(d)
    <3>1. ~ Goto(d, "register") /\ ~ Goto(d, "adopted") /\ ~ Goto(d, "adoptAllow")
          /\ ~ Goto(d, "expired") /\ ~ Goto(d, "lost") /\ ~ Goto(d, "reread")
          /\ ~ Goto(d, "recheck") /\ ~ Goto(d, "late") /\ ~ Return(d, "approved")
      BY <1>g, <1>r
    <3> QED
      BY <2>9, <3>1 DEF Adopt, Expire, Wake, VanishedAllow, AdoptAllow, Adopted, Register, TimesOut
  <2> QED BY <1>1, <2>1, <2>2, <2>3, <2>4, <2>5, <2>6, <2>7, <2>8, <2>9 DEF CallStep
<1>2. ASSUME NEW d \in Callers, CallFails(d) PROVE faults' > faults
  <2>1. Fault
    BY <1>2 DEF CallFails, LookupFails, InsertFails, InheritFails, RecheckFails, RereadFails, LateBlind, ExpireFails
  <2> QED BY <1>0, <2>1 DEF Fault
<1>3. ASSUME NEW w \in Workers, Crash(w) PROVE faults' > faults
  <2>1. Fault
    BY <1>3 DEF Crash
  <2> QED BY <1>0, <2>1 DEF Fault
<1>4. ASSUME NEW o \in Operators,
             \/ \E r \in Callers, scope \in Scopes : DecideStart(o, r, "approved", scope)
             \/ \E r \in Callers : DecideStart(o, r, "rejected", "once")
             \/ DecideCommit(o) \/ DecideFanOut(o) \/ DecideReturn(o)
             \/ \E s \in Sessions : DecideInsert(o, s)
      PROVE  FALSE
  BY <1>4, <1>q DEF DecideStart, DecideCommit, DecideFanOut, DecideReturn, DecideInsert
<1>5. ASSUME NEW w \in Workers,
             (\E r \in Callers : Settle(w, r)) \/ (\E s \in Sessions : InsertAllow(w, s))
      PROVE  FALSE
  BY <1>5, <1>q DEF Settle, InsertAllow
<1>6. ASSUME SweepExpired \/ Tick \/ UNCHANGED vars PROVE FALSE
  BY <1>6, <1>q DEF SweepExpired, Tick, vars
<1> QED BY <1>1, <1>2, <1>3, <1>4, <1>5, <1>6 DEF Next

\* While the database answers, request_and_wait reports no timeout over an approval,
\* and over a rejection only where the caller lost the race to expire the row.
THEOREM ApprovalsTimeoutIsTrue == Spec => TimeoutIsTrue
<1>1. Inv /\ [Next]_vars =>
          [\A c \in Callers : call'[c].pc = "timeout" /\ ~At(c, "timeout") =>
              \/ rows[call[c].req].status \notin {"approved", "rejected"}
              \/ rows[call[c].req].status = "rejected" /\ At(c, "lost")
              \/ faults' > faults]_vars
  BY TimeoutsTrue DEF At
<1> QED BY <1>1, ApprovalsInvariant, PTL DEF Spec, TimeoutIsTrue
=============================================================================
