----------------------------- MODULE Approvals -----------------------------
(* The approval queue (nexus/bricks/approvals): callers on several worker     *)
(* processes wait for an operator's decision on one coalesce key (zone, kind, *)
(* subject).  Rows, the audit table and session_allow are in Postgres and     *)
(* outlive a worker; the futures callers wait on are in a worker's memory.    *)
(*                                                                            *)
(* A step is the code between two awaits, a database transaction included.    *)
(* LISTEN/NOTIFY only hints that a row is worth reading again: a hint may be   *)
(* lost, late or spurious, so Settle, its handler's body, is always enabled,   *)
(* and it is also what the reconcile watchdog does to every row waited for.    *)
(*                                                                            *)
(* Left out: the watch streams and the pending gauge (output only), and        *)
(* PolicyGate's own look at session_allow, which precedes the same look here.  *)
EXTENDS Naturals, Sequences, FiniteSets

CONSTANTS
    Workers,
    Callers,      \* calls of request_and_wait; a caller's name is its request_id
    Operators,    \* calls of decide
    Sessions,
    RealSessions, \* the rest are fabricated by the server (hub:...)
    WorkerOf,     \* [caller or operator]: the worker it runs on
    SessionOf,    \* [caller]: its session, or None
    TimeoutOf,    \* [caller]: how long it waits, after clamping
    AutoDeny,     \* auto_deny_after_seconds: the least life of a row
    Grace,        \* _INHERIT_GRACE_SECONDS
    Scopes,       \* the scopes operators use
    MaxFaults,    \* bound on failed database calls and worker crashes
    MaxTime,      \* bound on the clock
    None

AllScopes == {"once", "session", "persist"}
Statuses == {"none", "pending", "approved", "rejected", "expired"}
Terminal == {"approved", "rejected", "expired"}

ASSUME ApprovalsAssumption ==
    /\ None \notin Callers \cup Sessions
    /\ RealSessions \subseteq Sessions
    /\ WorkerOf \in [Callers \cup Operators -> Workers]
    /\ SessionOf \in [Callers -> Sessions \cup {None}]
    /\ TimeoutOf \in [Callers -> Nat \ {0}]
    /\ AutoDeny \in Nat \ {0} /\ Grace \in Nat
    /\ Scopes \subseteq AllScopes
    /\ MaxFaults \in Nat /\ MaxTime \in Nat

VARIABLES
    rows,     \* [request]: its row of approval_requests
    audit,    \* [request]: the decisions recorded for it, in order
    allow,    \* the sessions with a session_allow row for the key
    waiter,   \* [caller]: the request its registered future is filed under
    result,   \* [caller]: what the future was resolved to
    call,     \* [caller]: where request_and_wait is, and its locals
    dec,      \* [operator]: where decide is, and its locals
    inserts,  \* <<worker, session>>: session_allow inserts still to be made
    faults,
    now

db == <<rows, audit, allow>>
vars == <<rows, audit, allow, waiter, result, call, dec, inserts, faults, now>>

NoRow == [status |-> "none", session |-> None, expires_at |-> 0,
          decided_at |-> 0, scope |-> "once", inherited |-> FALSE]

Finished == {"approved", "denied", "timeout", "closed", "error", "gone"}

----------------------------------------------------------------------------
(* Rows *)

HasRealSession(s) == s \in RealSessions

Pending == {r \in Callers : rows[r].status = "pending"}

\* The terminal rows get_recent_decision may answer with: the latest of those
\* decided since t.  Of two decided at the same time either comes first.
RecentDecisions(t, exclude) ==
    LET recent == {r \in Callers \ exclude : rows[r].status \in Terminal /\ rows[r].decided_at >= t}
    IN  {r \in recent : \A q \in recent : rows[q].decided_at <= rows[r].decided_at}

Since(t, d) == IF t > d THEN t - d ELSE 0

\* What caller c may take over from the decision on row r.
Inheritable(c, r) ==
    /\ rows[r].status = "approved"
    /\ \/ rows[r].scope = "persist"
       \/ rows[r].scope = "session" /\ HasRealSession(SessionOf[c])

\* Mutant: the update is not conditional on the row being pending.
MutTransitionAnyRow(r, status, t) ==
    status # "expired" => rows[r].expires_at > t

\* Whether transition() finds the row it is to update.
CanTransition(r, status, t) ==
    /\ rows[r].status = "pending"
    /\ status # "expired" => rows[r].expires_at > t

\* The update and its audit record, in one transaction.
Transition(r, status, scope, t, inherited) ==
    /\ rows' = [rows EXCEPT ![r] = [@ EXCEPT !.status = status, !.decided_at = t,
                                             !.scope = scope, !.inherited = inherited]]
    /\ audit' = [audit EXCEPT ![r] = Append(@, status)]

\* One of a bounded number of database calls that raise.
Fault == faults < MaxFaults /\ faults' = faults + 1

----------------------------------------------------------------------------
(* Futures *)

WaitersOn(w, r) == {c \in Callers : waiter[c] = r /\ WorkerOf[c] = w}

Resolve(w, r, decision) ==
    /\ result' = [c \in Callers |-> IF c \in WaitersOn(w, r) THEN decision ELSE result[c]]
    /\ waiter' = [c \in Callers |-> IF c \in WaitersOn(w, r) THEN None ELSE waiter[c]]

DecisionOf(r) == IF rows[r].status = "approved" THEN "approved" ELSE "denied"

\* The sessions of a worker's waiters that a SESSION approval is recorded for.
SessionIdsFor(w, r) == {SessionOf[c] : c \in WaitersOn(w, r)} \cap RealSessions

\* How a terminal row answers the caller.
RowToDecision(r) ==
    CASE rows[r].status = "approved" -> "approved"
      [] rows[r].status = "rejected" -> "denied"
      [] rows[r].status = "expired" -> "timeout"

----------------------------------------------------------------------------
Idle == [pc |-> "idle", req |-> None, start |-> 0, until |-> 0, scope |-> "once"]

NoDecide == [pc |-> "idle", req |-> None, status |-> "approved", scope |-> "once",
             start |-> 0, sids |-> {}]

Init ==
    /\ rows = [r \in Callers |-> NoRow]
    /\ audit = [r \in Callers |-> <<>>]
    /\ allow = {}
    /\ waiter = [c \in Callers |-> None]
    /\ result = [c \in Callers |-> None]
    /\ call = [c \in Callers |-> Idle]
    /\ dec = [o \in Operators |-> NoDecide]
    /\ inserts = {}
    /\ faults = 0
    /\ now = 0

At(c, pc) == call[c].pc = pc

Goto(c, pc) == call' = [call EXCEPT ![c].pc = pc]

\* The call ends with an answer; only its row is remembered.
Return(c, answer) == call' = [call EXCEPT ![c] = [Idle EXCEPT !.pc = answer, !.req = call[c].req]]

futures == <<waiter, result>>
others == <<dec, inserts, now>>

----------------------------------------------------------------------------
(* request_and_wait *)

\* The clock is read once, at the start.  Only a real session can be covered by
\* an earlier SESSION approval.
Start(c) ==
    /\ At(c, "idle")
    /\ IF HasRealSession(SessionOf[c]) /\ SessionOf[c] \in allow
       THEN Return(c, "approved")
       ELSE call' = [call EXCEPT ![c] = [@ EXCEPT !.pc = "insert", !.start = now]]
    /\ UNCHANGED <<db, futures, faults, others>>

\* Nothing catches a failure of the two look-ups outside the insert: that of the
\* session at the start, and that of a recent decision when the row vanished.
LookupFails(c) ==
    /\ \/ At(c, "idle") /\ HasRealSession(SessionOf[c])
       \/ At(c, "vanished")
    /\ Fault
    /\ Return(c, "error")
    /\ UNCHANGED <<db, futures, others>>

Durable(c) == IF TimeoutOf[c] > AutoDeny THEN TimeoutOf[c] ELSE AutoDeny

\* INSERT ... ON CONFLICT DO NOTHING on the index of pending rows.
InsertPending(c) ==
    /\ At(c, "insert")
    /\ IF Pending = {}
       THEN /\ rows' = [rows EXCEPT ![c] = [NoRow EXCEPT
                   !.status = "pending", !.session = SessionOf[c],
                   !.expires_at = call[c].start + Durable(c)]]
            /\ call' = [call EXCEPT ![c] = [@ EXCEPT !.pc = "inherit", !.req = c]]
       ELSE Goto(c, "select") /\ UNCHANGED rows
    /\ UNCHANGED <<audit, allow, futures, faults, others>>

\* The SELECT after a conflict: the row may have been decided meanwhile.
FetchPending(c) ==
    /\ At(c, "select")
    /\ \/ \E r \in Pending : call' = [call EXCEPT ![c] = [@ EXCEPT !.pc = "register", !.req = r]]
       \/ Pending = {} /\ Goto(c, "vanished")
    /\ UNCHANGED <<db, futures, faults, others>>

InsertFails(c) ==
    /\ At(c, "insert") \/ At(c, "select")
    /\ Fault
    /\ Return(c, "closed")
    /\ UNCHANGED <<db, futures, others>>

\* The conflicting row is gone: take a recent decision over without a row.
Vanished(c) ==
    /\ At(c, "vanished")
    /\ LET recent == RecentDecisions(Since(now, 5 * Grace), {})
       IN  \/ \E r \in recent :
                 /\ Inheritable(c, r)
                 /\ IF rows[r].scope = "session" THEN Goto(c, "vanishedAllow")
                                                 ELSE Return(c, "approved")
           \/ /\ recent = {} \/ \E r \in recent : ~Inheritable(c, r)
              /\ Return(c, "closed")
    /\ UNCHANGED <<db, futures, faults, others>>

\* A session_allow row that cannot be written is only logged here.
VanishedAllow(c) ==
    /\ At(c, "vanishedAllow")
    /\ \/ allow' = allow \cup {SessionOf[c]} /\ UNCHANGED faults
       \/ Fault /\ UNCHANGED allow
    /\ Return(c, "approved")
    /\ UNCHANGED <<rows, audit, futures, others>>

\* Mutant: a decision of any scope is inherited.
MutInheritAnyScope(c) ==
    /\ At(c, "inherit")
    /\ LET recent == RecentDecisions(Since(call[c].start, Grace), {c})
       IN  \/ \E r \in recent :
                 /\ rows[r].status = "approved"
                 /\ call' = [call EXCEPT ![c] = [@ EXCEPT !.pc = "adopt", !.scope = rows[r].scope]]
           \/ /\ recent = {} \/ \E r \in recent : ~Inheritable(c, r)
              /\ Goto(c, "register")
    /\ UNCHANGED <<db, futures, faults, others>>

\* A new row looks for a decision on an earlier row of the key.
InheritRecent(c) ==
    /\ At(c, "inherit")
    /\ LET recent == RecentDecisions(Since(call[c].start, Grace), {c})
       IN  \/ \E r \in recent :
                 /\ Inheritable(c, r)
                 /\ call' = [call EXCEPT ![c] = [@ EXCEPT !.pc = "adopt", !.scope = rows[r].scope]]
           \/ /\ recent = {} \/ \E r \in recent : ~Inheritable(c, r)
              /\ Goto(c, "register")
    /\ UNCHANGED <<db, futures, faults, others>>

\* The row takes the inherited decision, dated when the call began; an operator
\* or the sweeper may have been first.
Adopt(c) ==
    /\ At(c, "adopt")
    /\ IF CanTransition(c, "approved", call[c].start)
       THEN /\ Transition(c, "approved", call[c].scope, call[c].start, TRUE)
            /\ Goto(c, IF call[c].scope = "session" THEN "adoptAllow" ELSE "adopted")
       ELSE Goto(c, "register") /\ UNCHANGED <<rows, audit>>
    /\ UNCHANGED <<allow, futures, faults, others>>

AdoptAllow(c) ==
    /\ At(c, "adoptAllow")
    /\ allow' = allow \cup {SessionOf[c]}
    /\ Goto(c, "adopted")
    /\ UNCHANGED <<rows, audit, futures, faults, others>>

Adopted(c) ==
    /\ At(c, "adopted")
    /\ Resolve(WorkerOf[c], c, "approved")
    /\ Return(c, "approved")
    /\ UNCHANGED <<db, faults, others>>

\* Nothing catches a failure of the inheriting path: the caller sees the error
\* whatever its row is by then.
InheritFails(c) ==
    /\ call[c].pc \in {"inherit", "adopt", "adoptAllow"}
    /\ Fault
    /\ Return(c, "error")
    /\ UNCHANGED <<db, futures, others>>

Register(c) ==
    /\ At(c, "register")
    /\ waiter' = [waiter EXCEPT ![c] = call[c].req]
    /\ Goto(c, "recheck")
    /\ UNCHANGED <<db, result, faults, others>>

Cancel(c) == waiter' = [waiter EXCEPT ![c] = None] /\ result' = [result EXCEPT ![c] = None]

\* The row may have been decided before the future was there to be resolved.
Recheck(c) ==
    /\ At(c, "recheck")
    /\ IF rows[call[c].req].status \in Terminal
       THEN Cancel(c) /\ Return(c, RowToDecision(call[c].req))
       ELSE /\ call' = [call EXCEPT ![c] = [@ EXCEPT !.pc = "wait", !.until = now + TimeoutOf[c]]]
            /\ UNCHANGED futures
    /\ UNCHANGED <<db, faults, others>>

\* The error leaves the future registered.
RecheckFails(c) ==
    /\ At(c, "recheck")
    /\ Fault
    /\ Return(c, "error")
    /\ UNCHANGED <<db, futures, others>>

Wake(c) ==
    /\ At(c, "wait")
    /\ result[c] # None
    /\ result' = [result EXCEPT ![c] = None]
    /\ IF result[c] = "approved" THEN Return(c, "approved") ELSE Goto(c, "reread")
    /\ UNCHANGED <<db, waiter, faults, others>>

\* Mutant: the answer is not read from the row again.
MutRereadSkipped(c) ==
    /\ At(c, "reread")
    /\ Return(c, "denied")
    /\ UNCHANGED <<db, futures, faults, others>>

\* A denied future stands for a rejected row and for an expired one.
Reread(c) ==
    /\ At(c, "reread")
    /\ Return(c, IF rows[call[c].req].status = "expired" THEN "timeout" ELSE "denied")
    /\ UNCHANGED <<db, futures, faults, others>>

RereadFails(c) ==
    /\ At(c, "reread")
    /\ Fault
    /\ Return(c, "error")
    /\ UNCHANGED <<db, futures, others>>

TimesOut(c) ==
    /\ At(c, "wait")
    /\ result[c] = None
    /\ now >= call[c].until
    /\ Cancel(c)
    /\ Goto(c, "late")
    /\ UNCHANGED <<db, faults, others>>

\* Mutant: the row's own expiry is not asked for.
MutLateExpiresShared(c) ==
    /\ At(c, "late")
    /\ LET r == call[c].req
       IN  IF rows[r].status \in Terminal
           THEN Return(c, RowToDecision(r))
           ELSE call' = [call EXCEPT ![c] = [@ EXCEPT !.pc = "expire", !.until = now]]
    /\ UNCHANGED <<db, futures, faults, others>>

\* The row is read again before it is expired: a short wait of one caller does
\* not end the time the others, and the operator, have.
Late(c) ==
    /\ At(c, "late")
    /\ LET r == call[c].req
       IN  IF rows[r].status \in Terminal
           THEN Return(c, RowToDecision(r))
           ELSE IF rows[r].expires_at <= now
           THEN call' = [call EXCEPT ![c] = [@ EXCEPT !.pc = "expire", !.until = now]]
           ELSE Return(c, "timeout")
    /\ UNCHANGED <<db, futures, faults, others>>

\* When that read fails the row is expired all the same.
LateBlind(c) ==
    /\ At(c, "late")
    /\ Fault
    /\ call' = [call EXCEPT ![c] = [@ EXCEPT !.pc = "expire", !.until = now]]
    /\ UNCHANGED <<db, futures, others>>

Expire(c) ==
    /\ At(c, "expire")
    /\ IF CanTransition(call[c].req, "expired", call[c].until)
       THEN /\ Transition(call[c].req, "expired", "once", call[c].until, FALSE)
            /\ Goto(c, "expired")
       ELSE Goto(c, "lost") /\ UNCHANGED <<rows, audit>>
    /\ UNCHANGED <<allow, futures, faults, others>>

\* Mutant: the winner is not asked.
MutLostExpiryTimesOut(c) ==
    /\ At(c, "lost")
    /\ Return(c, "timeout")
    /\ UNCHANGED <<db, futures, faults, others>>

\* A concurrent decision won and the row is read again.  An approval is the
\* caller's answer; the ApprovalDenied of a rejected row is raised inside the try
\* of the transition, whose handler swallows it, and the caller times out.
LostExpiry(c) ==
    /\ At(c, "lost")
    /\ Return(c, IF rows[call[c].req].status = "approved" THEN "approved" ELSE "timeout")
    /\ UNCHANGED <<db, futures, faults, others>>

ExpireFails(c) ==
    /\ At(c, "expire") \/ At(c, "lost")
    /\ Fault
    /\ Return(c, "timeout")
    /\ UNCHANGED <<db, futures, others>>

ExpiredFanOut(c) ==
    /\ At(c, "expired")
    /\ Resolve(WorkerOf[c], call[c].req, "denied")
    /\ Return(c, "timeout")
    /\ UNCHANGED <<db, faults, others>>

----------------------------------------------------------------------------
(* decide *)

\* The operator answers a request it has seen in the list of pending ones.
DecideStart(o, r, status, scope) ==
    /\ dec[o].pc = "idle"
    /\ rows[r].status = "pending"
    /\ dec' = [dec EXCEPT ![o] = [@ EXCEPT !.pc = "commit", !.req = r, !.status = status,
                                           !.scope = scope, !.start = now]]
    /\ UNCHANGED <<db, futures, call, inserts, faults, now>>

DecideCommit(o) ==
    /\ dec[o].pc = "commit"
    /\ IF CanTransition(dec[o].req, dec[o].status, dec[o].start)
       THEN /\ Transition(dec[o].req, dec[o].status, dec[o].scope, dec[o].start, FALSE)
            /\ dec' = [dec EXCEPT ![o].pc = "fanout"]
       ELSE dec' = [dec EXCEPT ![o] = [NoDecide EXCEPT !.pc = "done"]] /\ UNCHANGED <<rows, audit>>
    /\ UNCHANGED <<allow, futures, call, inserts, faults, now>>

\* Mutant: fabricated sessions are cached as well.
MutFanOutAllSessions(o) ==
    /\ dec[o].pc = "fanout"
    /\ LET r == dec[o].req
           w == WorkerOf[o]
           sids == ({rows[r].session} \cup {SessionOf[c] : c \in WaitersOn(w, r)}) \ {None}
       IN  /\ dec' = [dec EXCEPT ![o] = [@ EXCEPT !.pc = "insert",
                  !.sids = IF dec[o].status = "approved" /\ dec[o].scope = "session"
                           THEN sids ELSE {}]]
           /\ Resolve(w, r, DecisionOf(r))
    /\ UNCHANGED <<db, call, inserts, faults, now>>

\* The sessions are noted before the futures, and their sessions with them, go.
DecideFanOut(o) ==
    /\ dec[o].pc = "fanout"
    /\ LET r == dec[o].req
           w == WorkerOf[o]
           sids == ({rows[r].session} \cap RealSessions) \cup SessionIdsFor(w, r)
       IN  /\ dec' = [dec EXCEPT ![o] = [@ EXCEPT !.pc = "insert",
                  !.sids = IF dec[o].status = "approved" /\ dec[o].scope = "session"
                           THEN sids ELSE {}]]
           /\ Resolve(w, r, DecisionOf(r))
    /\ UNCHANGED <<db, call, inserts, faults, now>>

\* One insert per session; one that fails is logged, and the next one made.
DecideInsert(o, s) ==
    /\ dec[o].pc = "insert"
    /\ s \in dec[o].sids
    /\ dec' = [dec EXCEPT ![o].sids = @ \ {s}]
    /\ \/ allow' = allow \cup {s} /\ UNCHANGED faults
       \/ Fault /\ UNCHANGED allow
    /\ UNCHANGED <<rows, audit, futures, call, inserts, now>>

DecideReturn(o) ==
    /\ dec[o].pc = "insert"
    /\ dec[o].sids = {}
    /\ dec' = [dec EXCEPT ![o] = [NoDecide EXCEPT !.pc = "done"]]
    /\ UNCHANGED <<db, futures, call, inserts, faults, now>>

----------------------------------------------------------------------------
(* Background tasks of a worker *)

\* Mutant: only approvals are settled.
MutSettleApprovalsOnly(w, r) ==
    /\ rows[r].status = "approved"
    /\ WaitersOn(w, r) # {}
    /\ Resolve(w, r, DecisionOf(r))
    /\ inserts' = IF rows[r].scope = "session"
                  THEN inserts \cup ({w} \X SessionIdsFor(w, r)) ELSE inserts
    /\ UNCHANGED <<db, call, dec, faults, now>>

\* _on_decided_payload, reconcile_in_flight and _on_expired_ids, for one row: the
\* row is read, and what it says is told to the waiters of this worker.
Settle(w, r) ==
    /\ rows[r].status \in Terminal
    /\ WaitersOn(w, r) # {}
    /\ Resolve(w, r, DecisionOf(r))
    /\ inserts' = IF rows[r].status = "approved" /\ rows[r].scope = "session"
                  THEN inserts \cup ({w} \X SessionIdsFor(w, r)) ELSE inserts
    /\ UNCHANGED <<db, call, dec, faults, now>>

\* The session_allow inserts of a settled row, each on its own.
InsertAllow(w, s) ==
    /\ <<w, s>> \in inserts
    /\ inserts' = inserts \ {<<w, s>>}
    /\ \/ allow' = allow \cup {s} /\ UNCHANGED faults
       \/ Fault /\ UNCHANGED allow
    /\ UNCHANGED <<rows, audit, futures, call, dec, now>>

\* sweep_expired: every overdue row and its audit record in one transaction.
SweepExpired ==
    LET late == {r \in Pending : rows[r].expires_at < now}
    IN  /\ late # {}
        /\ rows' = [r \in Callers |->
               IF r \in late
               THEN [rows[r] EXCEPT !.status = "expired", !.decided_at = now, !.scope = "once"]
               ELSE rows[r]]
        /\ audit' = [r \in Callers |-> IF r \in late THEN Append(audit[r], "expired") ELSE audit[r]]
        /\ UNCHANGED <<allow, futures, call, faults, others>>

\* A worker dies with the calls, the futures and the tasks in its memory.
Crash(w) ==
    /\ Fault
    /\ call' = [c \in Callers |->
           IF WorkerOf[c] = w /\ call[c].pc \notin Finished \cup {"idle"}
           THEN [Idle EXCEPT !.pc = "gone", !.req = call[c].req] ELSE call[c]]
    /\ waiter' = [c \in Callers |-> IF WorkerOf[c] = w THEN None ELSE waiter[c]]
    /\ result' = [c \in Callers |-> IF WorkerOf[c] = w THEN None ELSE result[c]]
    /\ dec' = [o \in Operators |->
           IF WorkerOf[o] = w /\ dec[o].pc # "idle" THEN [NoDecide EXCEPT !.pc = "done"] ELSE dec[o]]
    /\ inserts' = {i \in inserts : i[1] # w}
    /\ UNCHANGED <<db, now>>

Tick ==
    /\ now < MaxTime
    /\ now' = now + 1
    /\ UNCHANGED <<db, futures, call, dec, inserts, faults>>

CallStep(c) ==
    \/ Start(c) \/ InsertPending(c) \/ FetchPending(c)
    \/ Vanished(c) \/ VanishedAllow(c) \/ InheritRecent(c) \/ Adopt(c)
    \/ AdoptAllow(c) \/ Adopted(c) \/ Register(c) \/ Recheck(c) \/ Wake(c)
    \/ Reread(c) \/ TimesOut(c) \/ Late(c) \/ Expire(c) \/ LostExpiry(c)
    \/ ExpiredFanOut(c)

CallFails(c) ==
    \/ LookupFails(c) \/ InsertFails(c) \/ InheritFails(c) \/ RecheckFails(c) \/ RereadFails(c)
    \/ LateBlind(c) \/ ExpireFails(c)

Next ==
    \/ \E c \in Callers : CallStep(c) \/ CallFails(c)
    \/ \E o \in Operators :
          \/ \E r \in Callers, scope \in Scopes : DecideStart(o, r, "approved", scope)
          \/ \E r \in Callers : DecideStart(o, r, "rejected", "once")
          \/ DecideCommit(o) \/ DecideFanOut(o) \/ DecideReturn(o)
          \/ \E s \in Sessions : DecideInsert(o, s)
    \/ \E w \in Workers :
          \/ \E r \in Callers : Settle(w, r)
          \/ \E s \in Sessions : InsertAllow(w, s)
          \/ Crash(w)
    \/ SweepExpired
    \/ Tick

Spec == Init /\ [][Next]_vars

\* The event loops run the calls, and the watchdog reads the rows waited for
\* every reconcile_interval_seconds.  No NOTIFY, and no tick, is assumed.
FairSpec ==
    /\ Spec
    /\ \A c \in Callers : WF_vars(CallStep(c))
    /\ \A w \in Workers, r \in Callers : WF_vars(Settle(w, r))

----------------------------------------------------------------------------
(* Properties *)

RowType == [status : Statuses, session : Sessions \cup {None}, expires_at : Nat,
            decided_at : Nat, scope : AllScopes, inherited : BOOLEAN]

CallType == [pc : {"idle", "insert", "select", "vanished", "vanishedAllow",
                   "inherit", "adopt", "adoptAllow", "adopted", "register", "recheck",
                   "wait", "reread", "late", "expire", "expired", "lost"} \cup Finished,
             req : Callers \cup {None}, start : Nat, until : Nat, scope : AllScopes]

DecideType == [pc : {"idle", "commit", "fanout", "insert", "done"},
               req : Callers \cup {None}, status : {"approved", "rejected"},
               scope : AllScopes, start : Nat, sids : SUBSET Sessions]

\* The variables hold values of their types: rows are numbered by the request
\* that inserted them, and only real sessions are ever cached.
TypeOK ==
    /\ rows \in [Callers -> RowType]
    /\ audit \in [Callers -> Seq(Terminal)]
    /\ allow \in SUBSET RealSessions
    /\ waiter \in [Callers -> Callers \cup {None}]
    /\ result \in [Callers -> {"approved", "denied", None}]
    /\ call \in [Callers -> CallType]
    /\ dec \in [Operators -> DecideType]
    /\ inserts \in SUBSET (Workers \X RealSessions)
    /\ faults \in 0..MaxFaults
    /\ now \in 0..MaxTime

\* The audit table tells each row's story exactly: nothing for a pending row, and
\* for a terminal one the single decision that ended it, whichever of operator,
\* sweeper, timed-out caller and inheriting caller raced for it.
AuditExact ==
    \A r \in Callers :
        audit[r] = IF rows[r].status \in Terminal THEN <<rows[r].status>> ELSE <<>>

\* A caller is told "approved" only for a row that is approved, or, having no row,
\* under an approval that outlives its request; "denied" only for a row that an
\* operator rejected, never for one that expired.
AnswersHonest ==
    \A c \in Callers :
        LET r == call[c].req IN
        /\ At(c, "approved") /\ r # None => rows[r].status = "approved"
        /\ At(c, "approved") /\ r = None =>
              \E q \in Callers : Inheritable(c, q)
        /\ At(c, "denied") => rows[r].status = "rejected"

\* Whatever is granted without asking again goes back to an operator: an inherited
\* row to an operator's approval of the same scope, which was not ONCE, and a
\* cached session, which is never a fabricated one, to a SESSION approval.
GrantsComeFromOperators ==
    LET granted(scope) == \E q \in Callers :
            rows[q].status = "approved" /\ rows[q].scope = scope /\ ~rows[q].inherited
    IN  /\ \A r \in Callers :
              rows[r].inherited => rows[r].scope # "once" /\ granted(rows[r].scope)
        /\ allow \subseteq RealSessions
        /\ allow # {} => granted("session")

\* As long as the database answers, a row expires only when its own time is over:
\* a coalesced caller with a short timeout does not take the others' time away.
ExpiredInTime ==
    \A r \in Callers :
        rows[r].status = "expired" /\ rows[r].decided_at < rows[r].expires_at => faults > 0

\* As long as the database answers, a caller is told that its time is over only
\* while its row is pending or expired: an approval that beat the timeout is
\* honoured wherever it did, and so is a rejection, but for one that came between
\* the caller's last look at the row and its attempt to expire it.
TimeoutIsTrue ==
    [][\A c \in Callers :
          call'[c].pc = "timeout" /\ ~At(c, "timeout") =>
              \/ rows[call[c].req].status \notin {"approved", "rejected"}
              \/ rows[call[c].req].status = "rejected" /\ At(c, "lost")
              \/ faults' > faults]_vars

\* A decision reaches everyone who waits for it, on every worker, without any
\* NOTIFY and without waiting for a timeout.
DecisionReachesWaiters ==
    \A c \in Callers :
        (At(c, "wait") /\ rows[call[c].req].status \in Terminal) ~> call[c].pc \in Finished
=============================================================================
