--------------------------- MODULE EventDelivery ---------------------------
(* The transactional outbox: RecordStoreWriteObserver collects the mutations  *)
(* of a process and flushes them, debounced, to operation_log                  *)
(* (nexus/storage/piped_record_store_write_observer.py), and the               *)
(* EventDeliveryWorker of every process polls the log and dispatches its rows  *)
(* to the bus, the webhooks and the exporters                                  *)
(* (nexus/services/event_log/delivery.py, dead_letter.py).  Whether a webhook   *)
(* answers is not part of it: SubscriptionManager.broadcast waits for the posts  *)
(* and swallows every failure, so a dispatch fails only when the bus refuses.    *)
(*                                                                             *)
(* The log is shared by the processes; what they collect, the batches their     *)
(* timer threads flush and the workers' progress are in memory.  A step is what *)
(* a thread does under the observer's lock, one database transaction, or the    *)
(* worker's code between two awaits.  Row locks are not modelled: nothing       *)
(* turns them on, and they would end with the session that loads the rows.      *)
(*                                                                              *)
(* The signal is one asyncio.Event per process, set by the timer's thread and    *)
(* shared with the event streams (replay.py), which clear it as well.  Setting it *)
(* resolves the worker's wait but does not wake the event loop from outside it:   *)
(* when the worker runs again is left open.                                       *)
(*                                                                              *)
(* A row's sequence_number is its position in the log.  Left out: the contents  *)
(* of events, the version and MCL records written beside a row, the metrics,    *)
(* the post-flush hooks, replay_dlq, which nothing calls, and cancel(), the last *)
(* call of a process that closes: what it strands is lost as in a crash.         *)
EXTENDS Naturals, Sequences, FiniteSets, SequencesExt

CONSTANTS
    Procs,
    Events,       \* mutations, each observed once
    ProcOf,       \* [event]: the process that observes it
    ZoneOf,       \* [event]: the zone it is ordered in
    Renames,      \* the events that rename, and log two rows
    Workloads,    \* which processes run a worker, which events happen, how many faults
    MaxPending,   \* maxlen of the observer's deque
    FlushRetries, \* _MAX_RETRIES of the observer
    BatchSize,    \* rows a poll loads
    MaxRetries,   \* max_retries of the worker
    MaxFaults     \* bound on failures and crashes

ASSUME EventDeliveryAssumption ==
    /\ IsFiniteSet(Events) /\ ProcOf \in [Events -> Procs]
    /\ DOMAIN ZoneOf = Events /\ Renames \subseteq Events
    /\ Workloads \subseteq [workers : SUBSET Procs, events : SUBSET Events, faults : 0..MaxFaults]
    /\ MaxPending \in Nat \ {0} /\ BatchSize \in Nat \ {0} /\ MaxRetries \in Nat \ {0}
    /\ FlushRetries \in Nat /\ MaxFaults \in Nat

VARIABLES
    seen,      \* the events observed so far
    pending,   \* [process]: the deque of events to flush
    armed,     \* [process]: whether _timer refers to a timer
    timers,    \* [process]: timers that will still call _flush
    flights,   \* batches being flushed: [proc, events, attempt]
    log,       \* operation_log: rows [entry, delivered, retries], entry = <<event, which row of it>>
    dead,      \* the dead letter queue: <<row, "internal" or "exporter">>
    signal,    \* [process]: the event that wakes its worker
    worker,    \* [process]: where its worker is, and its locals
    sent,      \* rows whose dispatch returned: any bus took it, any broadcast ended
    exported,  \* rows that the exporter has accepted
    redone,    \* events of committed batches that were sent around again
    faults

observer == <<seen, pending, armed, timers, flights>>
sinks == <<sent, exported, redone>>
vars == <<seen, pending, armed, timers, flights, log, dead, signal, worker, sent, exported,
          redone, faults>>

Rows == 1..Len(log)

\* batch: the rows loaded; queue: those not yet dispatched; done: those dispatched;
\* failed: those the exporter refused; item, retries: the failure being recorded.
Polling == [pc |-> "clear", batch |-> {}, queue |-> {}, done |-> {}, failed |-> {},
            item |-> 0, retries |-> 0]

\* A process without a worker: its profile leaves the event log out.
NoWorker == [Polling EXCEPT !.pc = "off"]

Init ==
    /\ \E load \in Workloads :
          /\ seen = Events \ load.events
          /\ faults = MaxFaults - load.faults
          /\ worker = [p \in Procs |-> IF p \in load.workers THEN Polling ELSE NoWorker]
    /\ pending = [p \in Procs |-> <<>>]
    /\ armed = [p \in Procs |-> FALSE]
    /\ timers = [p \in Procs |-> 0]
    /\ flights = {}
    /\ log = <<>>
    /\ dead = {}
    /\ signal = [p \in Procs |-> FALSE]
    /\ sent = {}
    /\ exported = {}
    /\ redone = {}

Fault == faults < MaxFaults /\ faults' = faults + 1

----------------------------------------------------------------------------
(* The observer *)

\* Mutant: a timer that is still referred to is cancelled and not replaced.
MutEnqueueOneTimer(e) ==
    LET p == ProcOf[e] IN
    /\ e \notin seen
    /\ seen' = seen \cup {e}
    /\ pending' = [pending EXCEPT ![p] = Append(
           IF Len(@) = MaxPending THEN Tail(@) ELSE @, e)]
    /\ timers' = [timers EXCEPT ![p] = IF armed[p] THEN @ - 1 ELSE @ + 1]
    /\ armed' = [armed EXCEPT ![p] = TRUE]
    /\ UNCHANGED <<flights, log, dead, signal, worker, sinks, faults>>

\* Mutant: the deque grows.
MutEnqueueUnbounded(e) ==
    LET p == ProcOf[e] IN
    /\ e \notin seen
    /\ seen' = seen \cup {e}
    /\ pending' = [pending EXCEPT ![p] = Append(@, e)]
    /\ \/ timers' = [timers EXCEPT ![p] = @ + 1]
       \/ armed[p] /\ timers[p] > 0 /\ UNCHANGED timers
    /\ armed' = [armed EXCEPT ![p] = TRUE]
    /\ UNCHANGED <<flights, log, dead, signal, worker, sinks, faults>>

\* The debounce timer starts again: the one running is cancelled, unless it has
\* fired and only waits for the lock.  A full deque forgets its oldest event.
Enqueue(e) ==
    LET p == ProcOf[e] IN
    /\ e \notin seen
    /\ seen' = seen \cup {e}
    /\ pending' = [pending EXCEPT ![p] = Append(
           IF Len(@) = MaxPending THEN Tail(@) ELSE @, e)]
    /\ \/ timers' = [timers EXCEPT ![p] = @ + 1]
       \/ armed[p] /\ timers[p] > 0 /\ UNCHANGED timers
    /\ armed' = [armed EXCEPT ![p] = TRUE]
    /\ UNCHANGED <<flights, log, dead, signal, worker, sinks, faults>>

Drain(p) ==
    /\ pending' = [pending EXCEPT ![p] = <<>>]
    /\ armed' = [armed EXCEPT ![p] = FALSE]

\* A timer fires: what was collected becomes a batch of its own.
Flush(p) ==
    /\ timers[p] > 0
    /\ timers' = [timers EXCEPT ![p] = @ - 1]
    /\ Drain(p)
    /\ flights' = IF pending[p] = <<>> THEN flights
                  ELSE flights \cup {[proc |-> p, events |-> pending[p], attempt |-> 0]}
    /\ UNCHANGED <<seen, log, dead, signal, worker, sinks, faults>>

\* The rows of a batch, in the order of its events: a rename logs the old path and
\* then the new one, any other event one row.  The set has one member.
NewRows(events) ==
    LET places == {place \in (DOMAIN events) \X {1, 2} :
                      place[2] = 2 => events[place[1]] \in Renames}
        Before(a, b) == a[1] < b[1] \/ (a[1] = b[1] /\ a[2] < b[2])
        orders == {s \in [1..Cardinality(places) -> places] :
                      \A i, j \in DOMAIN s : i < j => Before(s[i], s[j])}
    IN  {[i \in DOMAIN s |-> [entry |-> <<events[s[i][1]], s[i][2]>>,
                              delivered |-> FALSE, retries |-> 0]] : s \in orders}

\* One transaction inserts a batch.
Commit(events) == \E rows \in NewRows(events) : log' = log \o rows

At(p, pc) == worker[p].pc = pc

\* Event.set: unless it is set already, the wait of the worker is resolved.
Signal(p) ==
    /\ signal' = [signal EXCEPT ![p] = TRUE]
    /\ worker' = IF At(p, "wait") /\ ~signal[p] THEN [worker EXCEPT ![p].pc = "woken"] ELSE worker

\* The batch is committed; then the worker is signalled.
FlushBatch(f) ==
    /\ f \in flights
    /\ Commit(f.events)
    /\ Signal(f.proc)
    /\ flights' = flights \ {f}
    /\ UNCHANGED <<seen, pending, armed, timers, dead, sinks, faults>>

\* A failed batch waits for its retry; after the last its events are dropped.
Retry(f) == IF f.attempt < FlushRetries THEN {[f EXCEPT !.attempt = @ + 1]} ELSE {}

\* Mutant: each event has its own transaction, and the first one's is committed.
MutFlushFailsPartly(f) ==
    /\ f \in flights
    /\ Fault
    /\ Commit(<<Head(f.events)>>)
    /\ flights' = (flights \ {f}) \cup Retry(f)
    /\ UNCHANGED <<seen, pending, armed, timers, dead, signal, worker, sinks>>

\* The transaction fails.  Later events may overtake the batch.
FlushFails(f) ==
    /\ f \in flights
    /\ Fault
    /\ flights' = (flights \ {f}) \cup Retry(f)
    /\ UNCHANGED <<seen, pending, armed, timers, log, dead, signal, worker, sinks>>

\* The batch is committed and set() raises: called from the timer's thread, it goes
\* through waiters that the loop may be changing.  It is inside the same try, so the
\* batch is retried although it is in the log.
SignalFails(f) ==
    /\ f \in flights
    /\ ~signal[f.proc]
    /\ Fault
    /\ Commit(f.events)
    /\ \/ Signal(f.proc)
       \/ signal' = [signal EXCEPT ![f.proc] = TRUE] /\ UNCHANGED worker
    /\ flights' = (flights \ {f}) \cup Retry(f)
    /\ redone' = redone \cup (UNION {ToSet(g.events) : g \in Retry(f)})
    /\ UNCHANGED <<seen, pending, armed, timers, dead, sent, exported>>

\* flush_sync: the caller's thread flushes, once, and signals nobody.
FlushSync(p) ==
    /\ pending[p] # <<>>
    /\ Drain(p)
    /\ \/ UNCHANGED timers
       \/ armed[p] /\ timers[p] > 0 /\ timers' = [timers EXCEPT ![p] = @ - 1]
    /\ \/ Commit(pending[p]) /\ UNCHANGED faults
       \/ Fault /\ UNCHANGED log
    /\ UNCHANGED <<seen, flights, dead, signal, worker, sinks>>

\* A flush of events that are not modelled, in a worker's process.
OtherFlush(p) ==
    /\ ~signal[p] /\ ~At(p, "off")
    /\ Signal(p)
    /\ UNCHANGED <<observer, log, dead, sinks, faults>>

\* A stream of the process's event replay clears the signal before each of its reads.
StreamClears(p) ==
    /\ signal[p]
    /\ signal' = [signal EXCEPT ![p] = FALSE]
    /\ UNCHANGED <<observer, log, dead, worker, sinks, faults>>

----------------------------------------------------------------------------
(* The delivery worker *)

Goto(p, pc) == worker' = [worker EXCEPT ![p].pc = pc]

\* The signal is cleared before the poll, so that a flush during it is noticed.
Clear(p) ==
    /\ At(p, "clear")
    /\ signal' = [signal EXCEPT ![p] = FALSE]
    /\ Goto(p, "load")
    /\ UNCHANGED <<observer, log, dead, sinks, faults>>

Undelivered == {i \in Rows : ~log[i].delivered}

\* The first BatchSize undelivered rows.
Oldest == {i \in Undelivered : Cardinality({j \in Undelivered : j < i}) < BatchSize}

\* Event.wait returns at once when the event is set.
Idle(p) == IF signal[p] THEN "clear" ELSE "wait"

Load(p) ==
    /\ At(p, "load")
    /\ IF Undelivered = {}
       THEN Goto(p, Idle(p))
       ELSE worker' = [worker EXCEPT ![p] = [Polling EXCEPT
                !.pc = "dispatch", !.batch = Oldest, !.queue = Oldest]]
    /\ UNCHANGED <<observer, log, dead, signal, sinks, faults>>

\* Rows of one zone in their order; the order of the zones is left open.
NextItem(p, i) ==
    /\ i \in worker[p].queue
    /\ \A j \in worker[p].queue : ZoneOf[log[j].entry[1]] = ZoneOf[log[i].entry[1]] => i <= j

\* bus.publish, where there is a bus, and broadcast, where there are subscriptions,
\* have returned.
DispatchEvent(p, i) ==
    /\ At(p, "dispatch")
    /\ NextItem(p, i)
    /\ sent' = sent \cup {i}
    /\ worker' = [worker EXCEPT ![p] = [@ EXCEPT !.queue = worker[p].queue \ {i},
                                                 !.done = worker[p].done \cup {i}]]
    /\ UNCHANGED <<observer, log, dead, signal, exported, redone, faults>>

\* The bus refuses.  The transaction that records it starts by reading the retry
\* count, which the worker of another process may be raising as well.
DispatchFails(p, i) ==
    /\ At(p, "dispatch")
    /\ NextItem(p, i)
    /\ worker' = [worker EXCEPT ![p] = [@ EXCEPT
           !.pc = "failing", !.queue = worker[p].queue \ {i},
           !.item = i, !.retries = log[i].retries]]
    /\ UNCHANGED <<observer, log, dead, signal, sinks, faults>>

\* Mutant: the count that was raised is not stored.
MutFailureNotCounted(p) ==
    /\ At(p, "failing")
    /\ LET i == worker[p].item
           retries == worker[p].retries + 1
       IN  IF retries >= MaxRetries
           THEN /\ log' = [log EXCEPT ![i].delivered = TRUE]
                /\ dead' = dead \cup {<<i, "internal">>}
           ELSE UNCHANGED <<log, dead>>
    /\ worker' = [worker EXCEPT ![p] = [@ EXCEPT !.pc = "dispatch", !.item = 0, !.retries = 0]]
    /\ UNCHANGED <<observer, signal, sinks, faults>>

\* The transaction stores the count.  The last failure moves the row to the dead
\* letter queue and ends its delivery; when no dead letter can be made of it, the row
\* stays and is dispatched again.
RecordFailure(p) ==
    /\ At(p, "failing")
    /\ LET i == worker[p].item
           retries == worker[p].retries + 1
       IN  IF retries >= MaxRetries
           THEN \/ /\ log' = [log EXCEPT ![i] = [@ EXCEPT !.retries = retries, !.delivered = TRUE]]
                   /\ dead' = dead \cup {<<i, "internal">>}
                   /\ UNCHANGED faults
                \/ Fault /\ log' = [log EXCEPT ![i].retries = retries] /\ UNCHANGED dead
           ELSE log' = [log EXCEPT ![i].retries = retries] /\ UNCHANGED <<dead, faults>>
    /\ worker' = [worker EXCEPT ![p] = [@ EXCEPT !.pc = "dispatch", !.item = 0, !.retries = 0]]
    /\ UNCHANGED <<observer, signal, sinks>>

\* The whole batch goes to the exporter, which may refuse part of it, time out,
\* or be cut off by its circuit breaker.  dispatch_batch itself does not raise: the
\* registry catches what an exporter throws and reports its events as failed.
Export(p, refused) ==
    /\ At(p, "dispatch")
    /\ worker[p].queue = {}
    /\ refused \subseteq worker[p].batch
    /\ exported' = exported \cup (worker[p].batch \ refused)
    /\ worker' = [worker EXCEPT ![p] = [@ EXCEPT !.pc = IF refused = {} THEN "mark" ELSE "route",
                                                 !.failed = refused]]
    /\ UNCHANGED <<observer, log, dead, signal, sent, redone, faults>>

\* Mutant: refused rows are only logged.
MutRouteForgets(p) ==
    /\ At(p, "route")
    /\ Goto(p, "mark")
    /\ UNCHANGED <<observer, log, dead, signal, sinks, faults>>

RouteFailures(p) ==
    /\ At(p, "route")
    /\ dead' = dead \cup (worker[p].failed \X {"exporter"})
    /\ worker' = [worker EXCEPT ![p] = [@ EXCEPT !.pc = "mark", !.failed = {}]]
    /\ UNCHANGED <<observer, log, signal, sinks, faults>>

\* Mutant: the batch is marked, not what was dispatched of it.
MutMarkBatch(p) ==
    /\ At(p, "mark")
    /\ log' = [i \in Rows |-> [log[i] EXCEPT !.delivered = @ \/ i \in worker[p].batch]]
    /\ worker' = [worker EXCEPT ![p] = [Polling EXCEPT
           !.pc = IF worker[p].done = {} THEN Idle(p) ELSE "clear"]]
    /\ UNCHANGED <<observer, dead, signal, sinks, faults>>

\* What was dispatched is delivered.  Having dispatched nothing, the worker waits
\* for the signal, whatever is left to retry.
MarkDelivered(p) ==
    /\ At(p, "mark")
    /\ log' = [i \in Rows |-> [log[i] EXCEPT !.delivered = @ \/ i \in worker[p].done]]
    /\ worker' = [worker EXCEPT ![p] = [Polling EXCEPT
           !.pc = IF worker[p].done = {} THEN Idle(p) ELSE "clear"]]
    /\ UNCHANGED <<observer, dead, signal, sinks, faults>>

\* A database error anywhere ends the poll; the worker sleeps and starts over.
PollFails(p) ==
    /\ worker[p].pc \in {"load", "failing", "route", "mark"}
    /\ Fault
    /\ worker' = [worker EXCEPT ![p] = Polling]
    /\ UNCHANGED <<observer, log, dead, signal, sinks>>

\* The event loop gets round to the worker whose wait was resolved.
Wake(p) ==
    /\ At(p, "woken")
    /\ worker' = [worker EXCEPT ![p] = Polling]
    /\ UNCHANGED <<observer, log, dead, signal, sinks, faults>>

\* A process dies and starts again; the log and the dead letters remain.
Crash(p) ==
    /\ Fault
    /\ pending' = [pending EXCEPT ![p] = <<>>]
    /\ armed' = [armed EXCEPT ![p] = FALSE]
    /\ timers' = [timers EXCEPT ![p] = 0]
    /\ flights' = {f \in flights : f.proc # p}
    /\ signal' = [signal EXCEPT ![p] = FALSE]
    /\ worker' = [worker EXCEPT ![p] = IF @.pc = "off" THEN NoWorker ELSE Polling]
    /\ UNCHANGED <<seen, log, dead, sinks>>

PollStep(p) ==
    \/ Clear(p) \/ Load(p) \/ RecordFailure(p) \/ RouteFailures(p) \/ MarkDelivered(p)
    \/ \E i \in Rows : DispatchEvent(p, i) \/ DispatchFails(p, i)
    \/ \E refused \in SUBSET worker[p].batch : Export(p, refused)

Next ==
    \/ \E e \in Events : Enqueue(e)
    \/ \E f \in flights : FlushBatch(f) \/ FlushFails(f) \/ SignalFails(f)
    \/ \E p \in Procs : \/ Flush(p) \/ FlushSync(p) \/ OtherFlush(p) \/ StreamClears(p)
                        \/ PollStep(p) \/ PollFails(p) \/ Wake(p) \/ Crash(p)

Spec == Init /\ [][Next]_vars

\* A poll that has started goes on.  Nothing is assumed of the observer's threads, and
\* nothing of Wake: a set() from another thread does not make the loop run.
FairSpec == Spec /\ \A p \in Procs : WF_vars(PollStep(p))

----------------------------------------------------------------------------
(* Properties *)

\* The variables hold values of their types.
TypeOK ==
    /\ seen \subseteq Events
    /\ pending \in [Procs -> BoundedSeq(Events, MaxPending)]
    /\ armed \in [Procs -> BOOLEAN]
    /\ timers \in [Procs -> 0..Cardinality(Events)]
    /\ \A f \in flights : f.proc \in Procs /\ f.events # <<>> /\ f.attempt \in 0..FlushRetries
    /\ \A i \in Rows : log[i] \in [entry : Events \X {1, 2}, delivered : BOOLEAN, retries : Nat]
    /\ dead \subseteq Rows \X {"internal", "exporter"}
    /\ signal \in [Procs -> BOOLEAN]
    /\ sent \subseteq Rows /\ exported \subseteq Rows /\ redone \subseteq seen
    /\ \A p \in Procs :
          /\ worker[p].pc \in {"clear", "load", "dispatch", "failing", "route", "mark", "wait", "woken", "off"}
          /\ worker[p].queue \cup worker[p].done \cup worker[p].failed \subseteq worker[p].batch
          /\ worker[p].batch \subseteq Rows
    /\ faults \in 0..MaxFaults

\* Collected events are never stranded: while the deque of a process holds one, a
\* timer of it is still to fire, whatever timers were cancelled too late.
PendingHasTimer == \A p \in Procs : pending[p] # <<>> => timers[p] > 0

\* Each row of an event - one, or for a rename two - is logged once, and not while the
\* event is still to be flushed: the retry of a batch repeats nothing that was
\* committed, except a batch whose wake-up call raised after its commit.
LoggedOnce ==
    LET unflushed == (UNION {ToSet(pending[p]) : p \in Procs})
                     \cup (UNION {ToSet(f.events) : f \in flights})
    IN  \A i \in Rows : log[i].entry[1] \notin redone =>
            /\ \A j \in Rows : log[i].entry = log[j].entry => i = j
            /\ log[i].entry[1] \notin unflushed

\* A row is marked delivered only after a dispatch of this very row returned - a bus, if
\* there is one, took it, and the webhooks were tried - or the dead letter queue holds
\* it, after any crash and with several workers on the same row.
DeliveredIsAccounted ==
    \A i \in Rows : log[i].delivered => i \in sent \/ <<i, "internal">> \in dead

\* A row that was delivered, and not given up, was also taken by the exporter or
\* put in the dead letter queue for it.
ExporterIsServed ==
    \A i \in Rows : log[i].delivered /\ <<i, "internal">> \notin dead =>
        i \in exported \/ <<i, "exporter">> \in dead

\* While some worker polls again and again, the log is drained again and again: the
\* stored count makes every row delivered or given up in the end, whatever the bus
\* refuses.  That a worker polls again is not promised: one that dispatched nothing
\* sleeps, and its wake-up can be missed.
RowsSettleWhilePolled ==
    (\E p \in Procs : []<>At(p, "load")) => []<>(Undelivered = {})
=============================================================================
