------------------------ MODULE EventDeliveryProofs ------------------------
(* EventDelivery: no collected event is stranded or logged twice, and no row   *)
(* is marked delivered behind the back of a sink, for any number of processes, *)
(* workers, events and zones, any batch size and retry limits, and any         *)
(* interleaving with failures and crashes.                                     *)
EXTENDS EventDelivery, SequenceTheorems, FiniteSetTheorems, TLAPS

LogRow == [entry : Events \X {1, 2}, delivered : BOOLEAN, retries : Nat]

FlightType == [proc : Procs, events : Seq(Events), attempt : 0..FlushRetries]

WorkerType ==
    [pc : {"clear", "load", "dispatch", "failing", "route", "mark", "wait", "woken", "off"},
     batch : SUBSET Nat, queue : SUBSET Nat, done : SUBSET Nat, failed : SUBSET Nat,
     item : Nat, retries : Nat]

\* The observer's own state.  A timer was started for some observed event.
ObserverOK ==
    /\ seen \subseteq Events /\ redone \subseteq seen
    /\ pending \in [Procs -> Seq(Events)]
    /\ armed \in [Procs -> BOOLEAN]
    /\ timers \in [Procs -> Nat]
    /\ flights \subseteq FlightType
    /\ \A f \in flights : f.events # <<>>
    /\ signal \in [Procs -> BOOLEAN]
    /\ faults \in 0..MaxFaults
    /\ \A p \in Procs : Len(pending[p]) <= MaxPending /\ timers[p] <= Cardinality(seen)
    /\ PendingHasTimer

\* Two sequences of events have none in common.
Apart(s, t) == \A i \in DOMAIN s, j \in DOMAIN t : s[i] # t[j]

\* The event of each row, and which row of it.
Logged == [i \in Rows |-> log[i].entry]

\* No event of the sequence is in the log, but for those that were sent around again.
Fresh(s) == \A i \in Rows, j \in DOMAIN s : log[i].entry[1] = s[j] => s[j] \in redone

\* An observed event is in one place, the deque of its process, one batch, or the log
\* with each of its rows once, unless its batch was sent around after the commit.
OnceOK ==
    /\ \A p \in Procs :
          /\ IsInjective(pending[p])
          /\ \A i \in DOMAIN pending[p] : pending[p][i] \in seen /\ ProcOf[pending[p][i]] = p
          /\ Fresh(pending[p])
          /\ \A f \in flights : Apart(pending[p], f.events)
    /\ \A f \in flights :
          /\ IsInjective(f.events)
          /\ \A i \in DOMAIN f.events : f.events[i] \in seen
          /\ Fresh(f.events)
          /\ \A g \in flights : f # g => Apart(f.events, g.events)
    /\ \A i, j \in Rows : log[i].entry = log[j].entry => i = j \/ log[i].entry[1] \in redone
    /\ \A i \in Rows : log[i].entry[1] \in seen

\* The log and what became of its rows.
LogOK ==
    /\ log \in Seq(LogRow)
    /\ dead \subseteq Rows \X {"internal", "exporter"}
    /\ sent \subseteq Rows /\ exported \subseteq Rows
    /\ DeliveredIsAccounted
    /\ ExporterIsServed

\* What a worker knows of its batch: what it counts as dispatched was sent, and by
\* the time it marks it, the exporter has it or the dead letter queue does.
WorkerOK(p) ==
    LET w == worker[p] IN
    /\ w.queue \cup w.done \cup w.failed \subseteq w.batch
    /\ w.batch \subseteq Rows
    /\ w.done \subseteq sent
    /\ w.pc = "failing" => w.item \in Rows
    /\ w.pc = "route" => \A i \in w.done : i \in exported \/ i \in w.failed
    /\ w.pc = "mark" => \A i \in w.done : i \in exported \/ <<i, "exporter">> \in dead

WorkersOK == worker \in [Procs -> WorkerType] /\ \A p \in Procs : WorkerOK(p)

Inv == ObserverOK /\ OnceOK /\ LogOK /\ WorkersOK

\* The log only grows: a row keeps its entry, and a row that was delivered or given
\* up stays so, whatever a second worker with the same row in hand does to it.
DeliveryIsFinal ==
    [][/\ Len(log) <= Len(log')
       /\ \A i \in Rows : log'[i].entry = log[i].entry /\ (log[i].delivered => log'[i].delivered)]_vars
----------------------------------------------------------------------------
(* Sequences of events *)

\* A sequence with one event more.
LEMMA AppendFacts ==
    ASSUME NEW s \in Seq(Events), NEW e \in Events
    PROVE  /\ Append(s, e) \in Seq(Events) /\ Len(Append(s, e)) = Len(s) + 1
           /\ \A i \in DOMAIN Append(s, e) :
                 Append(s, e)[i] = e \/ \E j \in DOMAIN s : Append(s, e)[i] = s[j]
           /\ IsInjective(s) /\ (\A j \in DOMAIN s : s[j] # e) => IsInjective(Append(s, e))
<1> DEFINE t == Append(s, e)
           n == Len(s)
<1>1. n \in Nat /\ DOMAIN s = 1..n
  BY LenProperties
<1>2. t \in Seq(Events) /\ Len(t) = n + 1 /\ t[n + 1] = e /\ \A i \in 1..n : t[i] = s[i]
  BY AppendProperties
<1>3. DOMAIN t = 1..(n + 1)
  BY <1>2, LenProperties
<1> HIDE DEF t, n
<1>4. \A i \in DOMAIN t : i = n + 1 \/ i \in 1..n
  BY <1>1, <1>3
<1>5. \A i \in DOMAIN t : t[i] = e \/ \E j \in DOMAIN s : t[i] = s[j]
  BY <1>1, <1>2, <1>4
<1>6. ASSUME IsInjective(s), \A j \in DOMAIN s : s[j] # e,
             NEW a \in DOMAIN t, NEW b \in DOMAIN t, t[a] = t[b]
      PROVE  a = b
  BY <1>1, <1>2, <1>4, <1>6 DEF IsInjective
<1>7. IsInjective(s) /\ (\A j \in DOMAIN s : s[j] # e) => IsInjective(t)
  BY <1>6 DEF IsInjective
<1> QED BY <1>2, <1>5, <1>7 DEF t, n

\* A sequence without its first event.
LEMMA TailFacts ==
    ASSUME NEW s \in Seq(Events), s # <<>>
    PROVE  /\ Tail(s) \in Seq(Events) /\ Len(Tail(s)) = Len(s) - 1
           /\ \A i \in DOMAIN Tail(s) : \E j \in DOMAIN s : Tail(s)[i] = s[j]
           /\ IsInjective(s) => IsInjective(Tail(s))
<1> DEFINE t == Tail(s)
           n == Len(t)
<1>1. t \in Seq(Events) /\ n = Len(s) - 1 /\ \A i \in 1..n : t[i] = s[i + 1]
  BY HeadTailProperties
<1>2. n \in Nat /\ DOMAIN t = 1..n /\ Len(s) \in Nat /\ DOMAIN s = 1..Len(s)
  BY <1>1, LenProperties
<1> HIDE DEF t, n
<1>3. \A i \in DOMAIN t : i \in Nat /\ i + 1 \in DOMAIN s /\ t[i] = s[i + 1]
  BY <1>1, <1>2
<1>4. ASSUME IsInjective(s), NEW a \in DOMAIN t, NEW b \in DOMAIN t, t[a] = t[b]
      PROVE  a = b
  <2>1. a + 1 = b + 1
    BY <1>3, <1>4 DEF IsInjective
  <2> QED BY <1>3, <2>1
<1>5. IsInjective(s) => IsInjective(t)
  BY <1>4 DEF IsInjective
<1> QED BY <1>1, <1>3, <1>5 DEF t, n

\* The deque with one event more, the oldest dropped when it is full.
Push(s, e) == Append(IF Len(s) = MaxPending THEN Tail(s) ELSE s, e)

\* It stays within its bound, holds old events and the new one, and repeats none.
LEMMA PushFacts ==
    ASSUME NEW s \in Seq(Events), Len(s) <= MaxPending, NEW e \in Events
    PROVE  /\ Push(s, e) \in Seq(Events) /\ Len(Push(s, e)) <= MaxPending
           /\ \A i \in DOMAIN Push(s, e) :
                 Push(s, e)[i] = e \/ \E j \in DOMAIN s : Push(s, e)[i] = s[j]
           /\ IsInjective(s) /\ (\A j \in DOMAIN s : s[j] # e) => IsInjective(Push(s, e))
<1>0. MaxPending \in Nat \ {0} /\ Len(s) \in Nat
  BY EventDeliveryAssumption, LenProperties
<1>1. CASE Len(s) = MaxPending
  <2> DEFINE b == Tail(s)
             t == Append(b, e)
  <2>1. s # <<>>
    BY <1>0, <1>1, EmptySeq
  <2>2. /\ b \in Seq(Events) /\ Len(b) = Len(s) - 1
        /\ \A i \in DOMAIN b : \E j \in DOMAIN s : b[i] = s[j]
        /\ IsInjective(s) => IsInjective(b)
    BY <2>1, TailFacts
  <2> HIDE DEF b
  <2>3. /\ t \in Seq(Events) /\ Len(t) = Len(b) + 1
        /\ \A i \in DOMAIN t : t[i] = e \/ \E j \in DOMAIN b : t[i] = b[j]
        /\ IsInjective(b) /\ (\A j \in DOMAIN b : b[j] # e) => IsInjective(t)
    BY <2>2, AppendFacts
  <2>4. Push(s, e) = t
    BY <1>1 DEF Push, b
  <2> HIDE DEF t
  <2>5. Len(t) <= MaxPending
    BY <1>0, <1>1, <2>2, <2>3
  <2>6. \A i \in DOMAIN t : t[i] = e \/ \E j \in DOMAIN s : t[i] = s[j]
    BY <2>2, <2>3
  <2>7. IsInjective(s) /\ (\A j \in DOMAIN s : s[j] # e) => IsInjective(t)
    BY <2>2, <2>3
  <2> QED BY <2>3, <2>4, <2>5, <2>6, <2>7
<1>2. CASE Len(s) # MaxPending
  <2>1. Push(s, e) = Append(s, e)
    BY <1>2 DEF Push
  <2>2. Len(Append(s, e)) <= MaxPending
    BY <1>0, <1>2, AppendFacts
  <2> QED BY <2>1, <2>2, AppendFacts
<1> QED BY <1>1, <1>2

\* The rows of a batch: undelivered rows of its events, and when no event is in it
\* twice, no entry is.
LEMMA BatchRows ==
    ASSUME NEW s \in Seq(Events), NEW rows \in NewRows(s)
    PROVE  /\ rows \in Seq(LogRow)
           /\ \A i \in DOMAIN rows :
                 rows[i].delivered = FALSE /\ \E k \in DOMAIN s : rows[i].entry[1] = s[k]
           /\ IsInjective(s) => \A i, j \in DOMAIN rows : rows[i].entry = rows[j].entry => i = j
<1> DEFINE places == {place \in (DOMAIN s) \X {1, 2} : place[2] = 2 => s[place[1]] \in Renames}
           Before(a, b) == a[1] < b[1] \/ (a[1] = b[1] /\ a[2] < b[2])
           row(q, i) == [entry |-> <<s[q[i][1]], q[i][2]>>, delivered |-> FALSE, retries |-> 0]
           n == Cardinality(places)
<1>0. Len(s) \in Nat /\ DOMAIN s = 1..Len(s) /\ \A k \in DOMAIN s : s[k] \in Events
  BY LenProperties, ElementOfSeq
<1>1. n \in Nat
  <2>1. IsFiniteSet(1..Len(s)) /\ IsFiniteSet({1, 2})
    <3>1. 1 \in Int /\ 2 \in Int /\ Len(s) \in Int /\ {1, 2} = 1..2
      BY <1>0
    <3> QED BY <3>1, FS_Interval
  <2>2. IsFiniteSet((DOMAIN s) \X {1, 2})
    BY <1>0, <2>1, FS_Product
  <2>3. places \subseteq (DOMAIN s) \X {1, 2}
    OBVIOUS
  <2> HIDE DEF places
  <2> QED BY <2>2, <2>3, FS_Subset, FS_CardinalityType
<1>2. PICK q \in [1..n -> places] :
          /\ \A i, j \in DOMAIN q : i < j => Before(q[i], q[j])
          /\ rows = [i \in DOMAIN q |-> row(q, i)]
  BY DEF NewRows
<1>3. \A i \in 1..n : q[i] = <<q[i][1], q[i][2]>> /\ q[i][1] \in DOMAIN s /\ q[i][2] \in {1, 2}
  BY <1>2
<1>4. DOMAIN q = 1..n
  BY <1>2
<1> HIDE DEF n, places
<1>5. \A i \in 1..n : row(q, i) \in LogRow /\ row(q, i).entry = <<s[q[i][1]], q[i][2]>>
                      /\ row(q, i).delivered = FALSE
  BY <1>0, <1>3 DEF LogRow
<1>6. rows = [i \in 1..n |-> row(q, i)] /\ DOMAIN rows = 1..n
  BY <1>2, <1>4
<1> HIDE DEF row
<1>7. rows \in Seq(LogRow)
  BY <1>1, <1>5, <1>6
<1>8. \A i \in 1..n : rows[i].entry = <<s[q[i][1]], q[i][2]>> /\ rows[i].delivered = FALSE
  BY <1>5, <1>6
<1>9. ASSUME IsInjective(s), NEW i \in 1..n, NEW j \in 1..n, rows[i].entry = rows[j].entry
      PROVE  i = j
  <2>1. s[q[i][1]] = s[q[j][1]] /\ q[i][2] = q[j][2]
    BY <1>8, <1>9
  <2>2. q[i][1] = q[j][1]
    BY <1>3, <1>9, <2>1 DEF IsInjective
  <2>3. q[i][1] \in Nat /\ q[i][2] \in Nat
    BY <1>0, <1>3
  <2>4. ~Before(q[i], q[j]) /\ ~Before(q[j], q[i])
    BY <2>1, <2>2, <2>3
  <2> HIDE DEF Before
  <2>5. ~(i < j) /\ ~(j < i)
    BY <1>2, <1>4, <2>4
  <2> QED BY <1>1, <2>5
<1>10. \A i \in DOMAIN rows :
          rows[i].delivered = FALSE /\ \E k \in DOMAIN s : rows[i].entry[1] = s[k]
  <2> SUFFICES ASSUME NEW i \in 1..n
               PROVE  rows[i].delivered = FALSE /\ \E k \in DOMAIN s : rows[i].entry[1] = s[k]
    BY <1>6
  <2>1. q[i][1] \in DOMAIN s /\ rows[i].entry[1] = s[q[i][1]] /\ rows[i].delivered = FALSE
    BY <1>3, <1>8
  <2> QED BY <2>1
<1>11. IsInjective(s) => \A i, j \in DOMAIN rows : rows[i].entry = rows[j].entry => i = j
  BY <1>6, <1>9
<1> QED BY <1>7, <1>10, <1>11

\* A transaction appends the rows of the batch.
LEMMA AppendedRows ==
    ASSUME NEW old \in Seq(LogRow), NEW s \in Seq(Events), NEW rows \in NewRows(s)
    PROVE  LET new == old \o rows IN
           /\ new \in Seq(LogRow) /\ Len(new) \in Nat /\ Len(old) <= Len(new)
           /\ \A i \in 1..Len(old) : new[i] = old[i]
           /\ \A i \in 1..Len(new) : i \notin 1..Len(old) =>
                 new[i].delivered = FALSE /\ \E k \in DOMAIN s : new[i].entry[1] = s[k]
           /\ IsInjective(s) => \A i, j \in 1..Len(new) :
                 i \notin 1..Len(old) /\ j \notin 1..Len(old) /\ new[i].entry = new[j].entry => i = j
<1> DEFINE new == old \o rows
<1>1. /\ rows \in Seq(LogRow)
      /\ \A i \in DOMAIN rows :
            rows[i].delivered = FALSE /\ \E k \in DOMAIN s : rows[i].entry[1] = s[k]
      /\ IsInjective(s) => \A i, j \in DOMAIN rows : rows[i].entry = rows[j].entry => i = j
  BY BatchRows
<1>2. Len(old) \in Nat /\ Len(rows) \in Nat /\ DOMAIN rows = 1..Len(rows)
  BY <1>1, LenProperties
<1>3. /\ new \in Seq(LogRow) /\ Len(new) = Len(old) + Len(rows)
      /\ \A i \in 1..Len(old) + Len(rows) :
            new[i] = IF i <= Len(old) THEN old[i] ELSE rows[i - Len(old)]
  BY <1>1, ConcatProperties
<1> HIDE DEF new
<1>4. \A i \in 1..Len(new) : i \notin 1..Len(old) =>
          i \in Nat /\ i - Len(old) \in DOMAIN rows /\ new[i] = rows[i - Len(old)]
  BY <1>2, <1>3
<1>5. \A i \in 1..Len(old) : new[i] = old[i]
  BY <1>2, <1>3
<1>6. Len(new) \in Nat /\ Len(old) <= Len(new)
  BY <1>2, <1>3
<1>7. \A i \in 1..Len(new) : i \notin 1..Len(old) =>
          new[i].delivered = FALSE /\ \E k \in DOMAIN s : new[i].entry[1] = s[k]
  <2> SUFFICES ASSUME NEW i \in 1..Len(new), i \notin 1..Len(old)
               PROVE  new[i].delivered = FALSE /\ \E k \in DOMAIN s : new[i].entry[1] = s[k]
    OBVIOUS
  <2> DEFINE k == i - Len(old)
  <2>1. k \in DOMAIN rows /\ new[i] = rows[k]
    BY <1>4
  <2> HIDE DEF k
  <2> QED BY <1>1, <2>1
<1>8. ASSUME IsInjective(s), NEW i \in 1..Len(new), NEW j \in 1..Len(new),
             i \notin 1..Len(old), j \notin 1..Len(old), new[i].entry = new[j].entry
      PROVE  i = j
  <2> DEFINE k == i - Len(old)
             l == j - Len(old)
  <2>0. k \in DOMAIN rows /\ new[i] = rows[k] /\ l \in DOMAIN rows /\ new[j] = rows[l]
    BY <1>4, <1>8
  <2>1. k = l
    <3> HIDE DEF k, l
    <3> QED BY <1>1, <1>8, <2>0
  <2>2. i \in Nat /\ j \in Nat
    BY <1>4, <1>8
  <2> QED BY <1>2, <2>1, <2>2
<1>9. IsInjective(s) => \A i, j \in 1..Len(new) :
          i \notin 1..Len(old) /\ j \notin 1..Len(old) /\ new[i].entry = new[j].entry => i = j
  BY <1>8
<1> QED BY <1>3, <1>5, <1>6, <1>7, <1>9 DEF new
----------------------------------------------------------------------------
(* The observer *)

\* Steps of the workers change at most the signal and the count of faults.
LEMMA PollQuiet ==
    ASSUME NEW p \in Procs,
           PollStep(p) \/ PollFails(p) \/ OtherFlush(p) \/ StreamClears(p) \/ Wake(p)
    PROVE  /\ UNCHANGED <<observer, redone>>
           /\ faults' = faults \/ Fault
           /\ signal' = signal \/ \E v \in BOOLEAN : signal' = [signal EXCEPT ![p] = v]
BY DEF PollStep, PollFails, OtherFlush, StreamClears, Signal, sinks, Clear, Load, RecordFailure, RouteFailures, MarkDelivered, Wake,
       DispatchEvent, DispatchFails, Export

\* A batch that failed comes back with the same events, at most once.
LEMMA RetryFacts ==
    ASSUME FlushRetries \in Nat, NEW f \in FlightType
    PROVE  /\ \A g \in Retry(f) : g \in FlightType /\ g.events = f.events
           /\ \A g, h \in Retry(f) : g = h
BY DEF Retry, FlightType

\* Every step keeps the observer's part: in particular, one that leaves events in a
\* deque leaves a timer for them.
LEMMA ObserverKept ==
    ASSUME ObserverOK, OnceOK, [Next]_vars
    PROVE  ObserverOK'
<1>0. /\ seen \subseteq Events /\ redone \subseteq seen
      /\ pending \in [Procs -> Seq(Events)]
      /\ armed \in [Procs -> BOOLEAN]
      /\ timers \in [Procs -> Nat]
      /\ flights \subseteq FlightType
      /\ signal \in [Procs -> BOOLEAN]
      /\ faults \in 0..MaxFaults
  BY DEF ObserverOK
<1>1. /\ \A f \in flights : f.events # <<>>
      /\ \A p \in Procs : /\ Len(pending[p]) <= MaxPending /\ timers[p] <= Cardinality(seen)
                          /\ pending[p] # <<>> => timers[p] > 0
  BY DEF ObserverOK, PendingHasTimer
<1>c. IsFiniteSet(seen) /\ Cardinality(seen) \in Nat /\ MaxPending \in Nat \ {0} /\ MaxFaults \in Nat
      /\ FlushRetries \in Nat /\ ProcOf \in [Events -> Procs]
  BY <1>0, EventDeliveryAssumption, FS_Subset, FS_CardinalityType
<1>e. \A S : <<>> \in Seq(S) /\ Len(<<>>) = 0
  BY EmptySeq
<1>f. ASSUME faults' = faults \/ Fault PROVE faults' \in 0..MaxFaults
  BY <1>0, <1>c, <1>f DEF Fault
<1>2. ASSUME NEW e \in Events, Enqueue(e) PROVE ObserverOK'
  <2> DEFINE p == ProcOf[e]
             q == Push(pending[p], e)
  <2>1. /\ p \in Procs /\ e \notin seen /\ seen' = seen \cup {e}
        /\ pending' = [pending EXCEPT ![p] = q]
        /\ timers' = [timers EXCEPT ![p] = timers[p] + 1] \/ (timers[p] > 0 /\ timers' = timers)
        /\ armed' = [armed EXCEPT ![p] = TRUE]
        /\ UNCHANGED <<flights, signal, redone, faults>>
    BY <1>c, <1>2 DEF Enqueue, Push, sinks
  <2>2. q \in Seq(Events) /\ Len(q) <= MaxPending
    BY <1>0, <1>1, <2>1, PushFacts
  <2>3. Cardinality(seen') = Cardinality(seen) + 1
    BY <1>c, <2>1, FS_AddElement
  <2> HIDE DEF p, q
  <2>t. timers' \in [Procs -> Nat] /\ \A r \in Procs : timers'[r] \in {timers[r], timers[r] + 1}
    <3>1. timers[p] + 1 \in Nat
      BY <1>0, <2>1
    <3> QED BY <1>0, <2>1, <3>1
  <2>4. pending' \in [Procs -> Seq(Events)] /\ armed' \in [Procs -> BOOLEAN] /\ seen' \subseteq Events
    BY <1>0, <2>1, <2>2
  <2>5. \A r \in Procs : Len(pending'[r]) <= MaxPending
    BY <1>0, <1>1, <2>1, <2>2
  <2>6. ASSUME NEW r \in Procs PROVE timers'[r] <= Cardinality(seen')
    <3>1. timers[r] \in Nat /\ timers[r] <= Cardinality(seen)
      BY <1>0, <1>1
    <3> QED BY <1>c, <2>3, <2>t, <3>1
  <2>7. ASSUME NEW r \in Procs, pending'[r] # <<>> PROVE timers'[r] > 0
    <3>1. CASE r = p
      BY <1>0, <2>1, <3>1
    <3>2. CASE r # p
      BY <1>0, <1>1, <2>1, <2>7, <3>2
    <3> QED BY <3>1, <3>2
  <2> QED BY <1>0, <1>1, <2>1, <2>t, <2>4, <2>5, <2>6, <2>7 DEF ObserverOK, PendingHasTimer
<1>d. ASSUME NEW p \in Procs, pending' = [pending EXCEPT ![p] = <<>>], armed' = [armed EXCEPT ![p] = FALSE],
             NEW n \in Nat, n <= timers[p], timers' = [timers EXCEPT ![p] = n],
             flights' \subseteq FlightType, \A f \in flights' : f.events # <<>>, UNCHANGED <<seen, redone>>,
             signal' \in [Procs -> BOOLEAN], faults' = faults \/ Fault
      PROVE  ObserverOK'
  <2>1. /\ pending' \in [Procs -> Seq(Events)] /\ armed' \in [Procs -> BOOLEAN]
        /\ timers' \in [Procs -> Nat]
    BY <1>0, <1>d, <1>e
  <2>2. \A r \in Procs : Len(pending'[r]) <= MaxPending
    BY <1>0, <1>1, <1>c, <1>d, <1>e
  <2>3. ASSUME NEW r \in Procs PROVE timers'[r] <= Cardinality(seen')
    <3>1. timers'[r] <= timers[r] /\ timers[r] \in Nat /\ timers'[r] \in Nat
      BY <1>0, <1>d
    <3> QED BY <1>1, <1>c, <1>d, <3>1
  <2>4. ASSUME NEW r \in Procs, pending'[r] # <<>> PROVE timers'[r] > 0
    BY <1>0, <1>1, <1>d, <2>4
  <2>5. faults' \in 0..MaxFaults
    BY <1>d, <1>f
  <2> QED BY <1>0, <1>d, <2>1, <2>2, <2>3, <2>4, <2>5 DEF ObserverOK, PendingHasTimer
<1>3. ASSUME NEW p \in Procs, Flush(p) PROVE ObserverOK'
  <2> DEFINE n == timers[p] - 1
             f == [proc |-> p, events |-> pending[p], attempt |-> 0]
  <2>1. n \in Nat /\ n <= timers[p]
    BY <1>0, <1>3 DEF Flush
  <2>2. f \in FlightType /\ f.events = pending[p]
    BY <1>0, <1>c, <1>3 DEF FlightType
  <2>3. /\ pending' = [pending EXCEPT ![p] = <<>>] /\ armed' = [armed EXCEPT ![p] = FALSE]
        /\ timers' = [timers EXCEPT ![p] = n] /\ UNCHANGED <<seen, signal, redone, faults>>
        /\ flights' = flights \/ (pending[p] # <<>> /\ flights' = flights \cup {f})
    BY <1>3 DEF Flush, Drain, sinks
  <2> HIDE DEF n, f
  <2>4. flights' \subseteq FlightType /\ \A g \in flights' : g.events # <<>>
    BY <1>0, <1>1, <2>2, <2>3
  <2> QED BY <1>0, <1>d, <2>1, <2>3, <2>4
<1>4. ASSUME NEW p \in Procs, FlushSync(p) PROVE ObserverOK'
  <2>1. \E n \in Nat : n <= timers[p] /\ timers' = [timers EXCEPT ![p] = n]
    <3>1. CASE UNCHANGED timers
      <4>1. timers' = [timers EXCEPT ![p] = timers[p]] /\ timers[p] \in Nat /\ timers[p] <= timers[p]
        BY <1>0, <3>1
      <4> QED BY <4>1
    <3>2. CASE timers[p] > 0 /\ timers' = [timers EXCEPT ![p] = timers[p] - 1]
      <4>1. timers[p] - 1 \in Nat /\ timers[p] - 1 <= timers[p]
        BY <1>0, <3>2
      <4> QED BY <3>2, <4>1
    <3> QED BY <1>4, <3>1, <3>2 DEF FlushSync
  <2>2. /\ pending' = [pending EXCEPT ![p] = <<>>] /\ armed' = [armed EXCEPT ![p] = FALSE]
        /\ UNCHANGED <<seen, signal, redone, flights>> /\ (faults' = faults \/ Fault)
    BY <1>4 DEF FlushSync, Drain, sinks
  <2> QED BY <1>0, <1>1, <1>d, <2>1, <2>2
<1>5. ASSUME NEW p \in Procs, Crash(p) PROVE ObserverOK'
  <2>1. /\ pending' = [pending EXCEPT ![p] = <<>>] /\ armed' = [armed EXCEPT ![p] = FALSE]
        /\ timers' = [timers EXCEPT ![p] = 0] /\ UNCHANGED <<seen, redone>> /\ flights' \subseteq flights
        /\ signal' = [signal EXCEPT ![p] = FALSE] /\ Fault
    BY <1>5 DEF Crash, sinks
  <2>2. 0 \in Nat /\ 0 <= timers[p]
    BY <1>0
  <2>3. signal' \in [Procs -> BOOLEAN]
    BY <1>0, <2>1
  <2>4. flights' \subseteq FlightType /\ \A f \in flights' : f.events # <<>>
    BY <1>0, <1>1, <2>1
  <2> QED BY <1>d, <2>1, <2>2, <2>3, <2>4
<1>q. ASSUME UNCHANGED <<seen, pending, armed, timers>>, flights' \subseteq FlightType,
             \A f \in flights' : f.events # <<>>,
             signal' = signal \/ \E p \in Procs : \E v \in BOOLEAN : signal' = [signal EXCEPT ![p] = v],
             faults' = faults \/ Fault, redone' \subseteq seen
      PROVE  ObserverOK'
  <2>1. signal' \in [Procs -> BOOLEAN]
    BY <1>0, <1>q
  <2>2. faults' \in 0..MaxFaults
    BY <1>f, <1>q
  <2>3. \A p \in Procs : /\ Len(pending'[p]) <= MaxPending /\ timers'[p] <= Cardinality(seen')
                         /\ pending'[p] # <<>> => timers'[p] > 0
    BY <1>1, <1>q
  <2> QED BY <1>0, <1>q, <2>1, <2>2, <2>3 DEF ObserverOK, PendingHasTimer
<1>6. ASSUME NEW f \in flights, FlushBatch(f) PROVE ObserverOK'
  <2>1. f.proc \in Procs
    BY <1>0 DEF FlightType
  <2>2. /\ UNCHANGED <<seen, pending, armed, timers, redone, faults>> /\ flights' \subseteq flights
        /\ signal' = [signal EXCEPT ![f.proc] = TRUE]
    BY <1>6 DEF FlushBatch, Signal, sinks
  <2> QED BY <1>0, <1>1, <1>q, <2>1, <2>2
<1>7. ASSUME NEW f \in flights, FlushFails(f) \/ SignalFails(f) PROVE ObserverOK'
  <2>1. /\ UNCHANGED <<seen, pending, armed, timers>> /\ Fault
        /\ signal' = signal \/ signal' = [signal EXCEPT ![f.proc] = TRUE]
        /\ flights' = (flights \ {f}) \cup Retry(f)
        /\ redone' = redone \/ redone' = redone \cup (UNION {ToSet(g.events) : g \in Retry(f)})
    BY <1>7 DEF FlushFails, SignalFails, Signal, sinks
  <2>2. f.proc \in Procs
    BY <1>0 DEF FlightType
  <2>3. \A g \in Retry(f) : g \in FlightType /\ g.events = f.events
    BY <1>0, <1>c, RetryFacts
  <2>4. flights' \subseteq FlightType /\ \A h \in flights' : h.events # <<>>
    BY <1>0, <1>1, <2>1, <2>3
  <2>5. ToSet(f.events) \subseteq seen
    BY DEF OnceOK, ToSet
  <2>6. redone' \subseteq seen
    BY <1>0, <2>1, <2>3, <2>5
  <2> QED BY <1>q, <2>1, <2>2, <2>4, <2>6
<1>8. ASSUME NEW p \in Procs,
             PollStep(p) \/ PollFails(p) \/ OtherFlush(p) \/ StreamClears(p) \/ Wake(p)
      PROVE  ObserverOK'
  <2>1. /\ UNCHANGED <<seen, pending, armed, timers, flights, redone>>
        /\ faults' = faults \/ Fault
        /\ signal' = signal \/ \E v \in BOOLEAN : signal' = [signal EXCEPT ![p] = v]
    BY <1>8, PollQuiet DEF observer
  <2> QED BY <1>0, <1>1, <1>q, <2>1
<1>9. CASE UNCHANGED vars
  BY <1>0, <1>1, <1>9, <1>q DEF vars
<1> QED BY <1>2, <1>3, <1>4, <1>5, <1>6, <1>7, <1>8, <1>9 DEF Next
----------------------------------------------------------------------------
(* The log and the sinks *)

\* What a step may do to the log and the sinks: add.
LogGrows ==
    /\ Len(log) \in Nat /\ Len(log') \in Nat /\ Len(log) <= Len(log')
    /\ \A i \in Rows : log'[i].entry = log[i].entry /\ (log[i].delivered => log'[i].delivered)
    /\ sent \subseteq sent' /\ exported \subseteq exported' /\ dead \subseteq dead'

\* The log is a sequence.
LEMMA LogLength ==
    ASSUME LogOK PROVE log \in Seq(LogRow) /\ Len(log) \in Nat
BY LenProperties DEF LogOK

\* Rows are updated in place, and every one that becomes delivered is accounted for.
LEMMA RowsUpdated ==
    ASSUME LogOK, log' \in Seq(LogRow), Len(log') = Len(log),
           \A i \in Rows : log'[i].entry = log[i].entry /\ (log[i].delivered => log'[i].delivered),
           sent \subseteq sent', exported \subseteq exported', dead \subseteq dead',
           sent' \subseteq Rows, exported' \subseteq Rows,
           dead' \subseteq Rows \X {"internal", "exporter"},
           \A i \in Rows : log'[i].delivered /\ ~log[i].delivered =>
              /\ i \in sent' \/ <<i, "internal">> \in dead'
              /\ i \in exported' \/ <<i, "exporter">> \in dead' \/ <<i, "internal">> \in dead'
    PROVE  LogOK' /\ LogGrows /\ Logged' = Logged
<1>1. Rows' = Rows
  BY DEF Rows
<1>5. Logged' = Logged
  BY <1>1 DEF Logged
<1>2. Len(log) \in Nat /\ Len(log) <= Len(log)
  BY LenProperties DEF LogOK
<1>3. DeliveredIsAccounted'
  BY <1>1 DEF LogOK, DeliveredIsAccounted
<1>4. ExporterIsServed'
  BY <1>1 DEF LogOK, ExporterIsServed
<1> QED BY <1>1, <1>2, <1>3, <1>4, <1>5 DEF LogOK, LogGrows

\* A batch is committed: its rows are new, and not delivered.
LEMMA RowsAppended ==
    ASSUME LogOK, NEW s \in Seq(Events), Commit(s), UNCHANGED <<dead, sent, exported>>
    PROVE  /\ LogOK' /\ LogGrows
           /\ \A i \in Rows : i \in Rows' /\ log'[i] = log[i]
           /\ \A i \in Rows' : i \notin Rows => \E k \in DOMAIN s : log'[i].entry[1] = s[k]
           /\ IsInjective(s) => \A i, j \in Rows' :
                 i \notin Rows /\ j \notin Rows /\ log'[i].entry = log'[j].entry => i = j
<1>0. log \in Seq(LogRow) /\ Len(log) \in Nat
  BY LogLength
<1>p. PICK rows \in NewRows(s) : log' = log \o rows
  BY DEF Commit
<1>1. /\ log' \in Seq(LogRow) /\ Len(log') \in Nat /\ Len(log) <= Len(log')
      /\ \A i \in 1..Len(log) : log'[i] = log[i]
      /\ \A i \in 1..Len(log') : i \notin 1..Len(log) =>
            log'[i].delivered = FALSE /\ \E k \in DOMAIN s : log'[i].entry[1] = s[k]
      /\ IsInjective(s) => \A i, j \in 1..Len(log') :
            i \notin 1..Len(log) /\ j \notin 1..Len(log) /\ log'[i].entry = log'[j].entry => i = j
  <2> DEFINE new == log \o rows
  <2>1. /\ new \in Seq(LogRow) /\ Len(new) \in Nat /\ Len(log) <= Len(new)
        /\ \A i \in 1..Len(log) : new[i] = log[i]
        /\ \A i \in 1..Len(new) : i \notin 1..Len(log) =>
              new[i].delivered = FALSE /\ \E k \in DOMAIN s : new[i].entry[1] = s[k]
        /\ IsInjective(s) => \A i, j \in 1..Len(new) :
              i \notin 1..Len(log) /\ j \notin 1..Len(log) /\ new[i].entry = new[j].entry => i = j
    BY <1>0, AppendedRows
  <2>2. log' = new
    BY <1>p
  <2> HIDE DEF new
  <2> QED BY <2>1, <2>2, Zenon
<1>2. \A i \in Rows : i \in Rows' /\ log'[i] = log[i]
  BY <1>0, <1>1 DEF Rows
<1>3. \A i \in Rows' : i \notin Rows =>
          log'[i].delivered = FALSE /\ \E k \in DOMAIN s : log'[i].entry[1] = s[k]
  BY <1>1 DEF Rows
<1>i. IsInjective(s) => \A i, j \in Rows' :
          i \notin Rows /\ j \notin Rows /\ log'[i].entry = log'[j].entry => i = j
  BY <1>1 DEF Rows
<1>4. DeliveredIsAccounted'
  BY <1>2, <1>3 DEF LogOK, DeliveredIsAccounted
<1>5. ExporterIsServed'
  BY <1>2, <1>3 DEF LogOK, ExporterIsServed
<1>6. LogGrows
  BY <1>0, <1>1, <1>2 DEF LogGrows
<1>7. dead' \subseteq Rows' \X {"internal", "exporter"} /\ sent' \subseteq Rows' /\ exported' \subseteq Rows'
  BY <1>2 DEF LogOK
<1>8. LogOK'
  BY <1>1, <1>4, <1>5, <1>7 DEF LogOK
<1> QED BY <1>2, <1>3, <1>6, <1>8, <1>i

\* A worker's step only updates rows, and accounts for those it marks.
LEMMA PollKeepsLog ==
    ASSUME LogOK, WorkersOK, NEW p \in Procs, PollStep(p)
    PROVE  LogOK' /\ LogGrows /\ Logged' = Logged
<1>0. /\ log \in Seq(LogRow) /\ dead \subseteq Rows \X {"internal", "exporter"}
      /\ sent \subseteq Rows /\ exported \subseteq Rows
      /\ \A i \in Rows : log[i] \in LogRow
      /\ worker[p] \in WorkerType /\ WorkerOK(p)
  BY ElementOfSeq DEF LogOK, WorkersOK, Rows
<1>u. ASSUME UNCHANGED <<log, dead, sent, exported>> PROVE LogOK' /\ LogGrows /\ Logged' = Logged
  BY <1>0, <1>u, RowsUpdated
<1>s. ASSUME log' = log, sent \subseteq sent', exported \subseteq exported', dead \subseteq dead',
             sent' \subseteq Rows, exported' \subseteq Rows,
             dead' \subseteq Rows \X {"internal", "exporter"}
      PROVE  LogOK' /\ LogGrows /\ Logged' = Logged
  BY <1>0, <1>s, RowsUpdated
<1>1. CASE Clear(p) \/ Load(p) \/ \E i \in Rows : DispatchFails(p, i)
  BY <1>u, <1>1 DEF Clear, Load, DispatchFails, sinks
<1>2. ASSUME NEW i \in Rows, DispatchEvent(p, i) PROVE LogOK' /\ LogGrows /\ Logged' = Logged
  BY <1>0, <1>s, <1>2 DEF DispatchEvent
<1>3. ASSUME NEW refused, Export(p, refused) PROVE LogOK' /\ LogGrows /\ Logged' = Logged
  <2>1. worker[p].batch \subseteq Rows
    BY <1>0 DEF WorkerOK
  <2> QED BY <1>0, <1>s, <1>3, <2>1 DEF Export
<1>4. CASE RouteFailures(p)
  <2>1. worker[p].failed \subseteq Rows
    BY <1>0 DEF WorkerOK
  <2>2. dead' = dead \cup (worker[p].failed \X {"exporter"}) /\ UNCHANGED <<log, sent, exported>>
    BY <1>4 DEF RouteFailures, sinks
  <2>3. worker[p].failed \X {"exporter"} \subseteq Rows \X {"internal", "exporter"}
    BY <2>1
  <2> QED BY <1>0, <1>s, <2>2, <2>3
<1>5. CASE RecordFailure(p)
  <2> DEFINE i == worker[p].item
             n == worker[p].retries + 1
             over == [log[i] EXCEPT !.retries = n, !.delivered = TRUE]
             again == [log[i] EXCEPT !.retries = n]
  <2>1. i \in Rows /\ n \in Nat
    BY <1>0, <1>5 DEF RecordFailure, At, WorkerOK, WorkerType
  <2>2. /\ over \in LogRow /\ over.entry = log[i].entry /\ over.delivered = TRUE
        /\ again \in LogRow /\ again.entry = log[i].entry /\ again.delivered = log[i].delivered
    BY <1>0, <2>1 DEF LogRow
  <2>3. /\ \/ log' = [log EXCEPT ![i] = over] /\ dead' = dead \cup {<<i, "internal">>}
           \/ log' = [log EXCEPT ![i] = again] /\ dead' = dead
        /\ UNCHANGED <<sent, exported>>
    BY <1>5 DEF RecordFailure, sinks
  <2> HIDE DEF i, n, over, again
  <2>4. CASE log' = [log EXCEPT ![i] = over] /\ dead' = dead \cup {<<i, "internal">>}
    <3>1. /\ log' \in Seq(LogRow) /\ Len(log') = Len(log)
          /\ \A j \in Rows : log'[j] = IF j = i THEN over ELSE log[j]
      BY <1>0, <2>1, <2>2, <2>4, ExceptSeq DEF Rows
    <3>2. \A j \in Rows : log'[j].entry = log[j].entry /\ (log[j].delivered => log'[j].delivered)
      BY <2>2, <3>1
    <3>3. \A j \in Rows : log'[j].delivered /\ ~log[j].delivered => <<j, "internal">> \in dead'
      BY <2>4, <3>1
    <3>4. dead' \subseteq Rows \X {"internal", "exporter"} /\ dead \subseteq dead'
      BY <1>0, <2>1, <2>4
    <3> QED BY <1>0, <2>3, <3>1, <3>2, <3>3, <3>4, RowsUpdated
  <2>5. CASE log' = [log EXCEPT ![i] = again] /\ dead' = dead
    <3>1. /\ log' \in Seq(LogRow) /\ Len(log') = Len(log)
          /\ \A j \in Rows : log'[j] = IF j = i THEN again ELSE log[j]
      BY <1>0, <2>1, <2>2, <2>5, ExceptSeq DEF Rows
    <3>2. \A j \in Rows : log'[j].entry = log[j].entry /\ log'[j].delivered = log[j].delivered
      BY <2>2, <3>1
    <3> QED BY <1>0, <2>3, <2>5, <3>1, <3>2, RowsUpdated
  <2> QED BY <2>3, <2>4, <2>5
<1>6. CASE MarkDelivered(p)
  <2> DEFINE row(i) == [log[i] EXCEPT !.delivered = log[i].delivered \/ i \in worker[p].done]
  <2>1. log' = [i \in Rows |-> row(i)] /\ UNCHANGED <<dead, sent, exported>>
    BY <1>6 DEF MarkDelivered, sinks
  <2>2. ASSUME NEW i \in Rows
        PROVE  /\ row(i) \in LogRow /\ row(i).entry = log[i].entry
               /\ row(i).delivered = (log[i].delivered \/ i \in worker[p].done)
    BY <1>0 DEF LogRow
  <2> HIDE DEF row
  <2>3. Len(log) \in Nat
    BY <1>0, LenProperties
  <2>4. log' \in Seq(LogRow) /\ Len(log') = Len(log)
    BY <2>1, <2>2, <2>3 DEF Rows
  <2>5. \A i \in Rows : log'[i] = row(i)
    BY <2>1
  <2>6. \A i \in worker[p].done :
           i \in sent /\ (i \in exported \/ <<i, "exporter">> \in dead)
    BY <1>0, <1>6 DEF WorkerOK, MarkDelivered, At
  <2>7. \A i \in Rows : log'[i].entry = log[i].entry /\ (log[i].delivered => log'[i].delivered)
    BY <2>2, <2>5
  <2>8. \A i \in Rows : log'[i].delivered /\ ~log[i].delivered =>
           i \in sent /\ (i \in exported \/ <<i, "exporter">> \in dead)
    BY <2>2, <2>5, <2>6
  <2> QED BY <1>0, <2>1, <2>4, <2>7, <2>8, RowsUpdated
<1> QED BY <1>1, <1>2, <1>3, <1>4, <1>5, <1>6 DEF PollStep

\* Every step keeps the log accounted for, and adds to it.
LEMMA LogKept ==
    ASSUME ObserverOK, LogOK, WorkersOK, [Next]_vars
    PROVE  LogOK' /\ LogGrows
<1>0. log \in Seq(LogRow) /\ sent \subseteq Rows /\ exported \subseteq Rows
      /\ dead \subseteq Rows \X {"internal", "exporter"}
  BY DEF LogOK
<1>u. ASSUME UNCHANGED <<log, dead, sent, exported>> PROVE LogOK' /\ LogGrows
  BY <1>0, <1>u, RowsUpdated
<1>1. ASSUME NEW e \in Events, Enqueue(e) PROVE LogOK' /\ LogGrows
  BY <1>1, <1>u DEF Enqueue, sinks
<1>2. ASSUME NEW f \in flights, FlushBatch(f) \/ SignalFails(f) PROVE LogOK' /\ LogGrows
  <2>1. f.events \in Seq(Events)
    BY DEF ObserverOK, FlightType
  <2>2. Commit(f.events) /\ UNCHANGED <<dead, sent, exported>>
    BY <1>2 DEF FlushBatch, SignalFails, sinks
  <2> QED BY <2>1, <2>2, RowsAppended
<1>3. ASSUME NEW f \in flights, FlushFails(f) PROVE LogOK' /\ LogGrows
  BY <1>3, <1>u DEF FlushFails, sinks
<1>4. ASSUME NEW p \in Procs,
             \/ Flush(p) \/ OtherFlush(p) \/ StreamClears(p)
             \/ PollFails(p) \/ Wake(p) \/ Crash(p)
      PROVE  LogOK' /\ LogGrows
  BY <1>4, <1>u DEF Flush, OtherFlush, StreamClears, PollFails, Wake, Crash, sinks
<1>5. ASSUME NEW p \in Procs, FlushSync(p) PROVE LogOK' /\ LogGrows
  <2>1. pending[p] \in Seq(Events)
    BY DEF ObserverOK
  <2>2. UNCHANGED <<dead, sent, exported>> /\ (log' = log \/ Commit(pending[p]))
    BY <1>5 DEF FlushSync, sinks
  <2> QED BY <1>u, <2>1, <2>2, RowsAppended
<1>6. ASSUME NEW p \in Procs, PollStep(p) PROVE LogOK' /\ LogGrows
  BY <1>6, PollKeepsLog
<1>7. CASE UNCHANGED vars
  BY <1>7, <1>u DEF vars
<1> QED BY <1>1, <1>2, <1>3, <1>4, <1>5, <1>6, <1>7 DEF Next
----------------------------------------------------------------------------
(* The workers *)

\* What a worker knows stays true while others work.
LEMMA WorkerStable ==
    ASSUME WorkersOK, LogGrows, NEW p \in Procs, worker'[p] = worker[p]
    PROVE  WorkerOK(p)'
<1>1. WorkerOK(p)
  BY DEF WorkersOK
<1>2. Rows \subseteq Rows' /\ sent \subseteq sent' /\ exported \subseteq exported' /\ dead \subseteq dead'
  BY DEF LogGrows, Rows
<1> QED BY <1>1, <1>2 DEF WorkerOK

\* One worker moves on.
LEMMA WorkerMoves ==
    ASSUME WorkersOK, LogGrows, NEW p \in Procs, NEW rec \in WorkerType,
           worker' = [worker EXCEPT ![p] = rec],
           /\ rec.queue \cup rec.done \cup rec.failed \subseteq rec.batch
           /\ rec.batch \subseteq Rows
           /\ rec.done \subseteq sent'
           /\ rec.pc = "failing" => rec.item \in Rows
           /\ rec.pc = "route" => \A i \in rec.done : i \in exported' \/ i \in rec.failed
           /\ rec.pc = "mark" => \A i \in rec.done : i \in exported' \/ <<i, "exporter">> \in dead'
    PROVE  WorkersOK'
<1>1. /\ worker' \in [Procs -> WorkerType] /\ worker'[p] = rec
      /\ \A q \in Procs : q # p => worker'[q] = worker[q]
  BY DEF WorkersOK
<1>2. Rows \subseteq Rows'
  BY DEF LogGrows, Rows
<1>3. WorkerOK(p)'
  BY <1>1, <1>2 DEF WorkerOK
<1> QED BY <1>1, <1>3, WorkerStable DEF WorkersOK

\* A worker that starts over, or is not there, knows nothing.
LEMMA FreshWorker ==
    ASSUME NEW pc \in {"clear", "load", "wait", "off"}
    PROVE  LET rec == [Polling EXCEPT !.pc = pc] IN
           /\ rec \in WorkerType /\ rec.pc = pc /\ rec.queue = {} /\ rec.done = {}
           /\ rec.failed = {} /\ rec.batch = {}
BY DEF Polling, WorkerType

\* Every step keeps what the workers know.
LEMMA WorkersKept ==
    ASSUME ObserverOK, LogOK, WorkersOK, LogGrows, [Next]_vars
    PROVE  WorkersOK'
<1>0. /\ worker \in [Procs -> WorkerType]
      /\ \A p \in Procs : worker[p] \in WorkerType /\ WorkerOK(p)
  BY DEF WorkersOK
<1>r. Rows \subseteq Nat /\ \A i \in Rows : log[i] \in LogRow
  BY ElementOfSeq DEF LogOK, Rows
<1>u. ASSUME worker' = worker PROVE WorkersOK'
  BY <1>0, <1>u, WorkerStable DEF WorkersOK
<1>p. Polling = [Polling EXCEPT !.pc = "clear"]
  BY DEF Polling
<1>f. ASSUME NEW p \in Procs, NEW pc \in {"clear", "load", "wait", "off"},
             worker' = [worker EXCEPT ![p] = [Polling EXCEPT !.pc = pc]]
      PROVE  WorkersOK'
  <2> DEFINE rec == [Polling EXCEPT !.pc = pc]
  <2>1. /\ rec \in WorkerType /\ rec.pc = pc /\ rec.queue = {} /\ rec.done = {}
        /\ rec.failed = {} /\ rec.batch = {}
    BY FreshWorker
  <2>2. worker' = [worker EXCEPT ![p] = rec]
    BY <1>f
  <2> HIDE DEF rec
  <2> QED BY <1>f, <2>1, <2>2, WorkerMoves
<1>g. ASSUME NEW p \in Procs, worker' = [worker EXCEPT ![p] = Polling] PROVE WorkersOK'
  BY <1>f, <1>g, <1>p
<1>h. ASSUME NEW p \in Procs, NEW pc \in {"clear", "load", "wait", "woken"}, Goto(p, pc) PROVE WorkersOK'
  <2> DEFINE rec == [worker[p] EXCEPT !.pc = pc]
  <2>1. /\ rec \in WorkerType /\ rec.pc = pc /\ rec.queue = worker[p].queue
        /\ rec.done = worker[p].done /\ rec.failed = worker[p].failed /\ rec.batch = worker[p].batch
    BY <1>0 DEF WorkerType
  <2>2. worker' = [worker EXCEPT ![p] = rec]
    BY <1>h DEF Goto
  <2> HIDE DEF rec
  <2>3. WorkerOK(p) /\ sent \subseteq sent'
    BY <1>0 DEF LogGrows
  <2> QED BY <1>h, <2>1, <2>2, <2>3, WorkerMoves DEF WorkerOK
<1>1. ASSUME NEW e \in Events, Enqueue(e) PROVE WorkersOK'
  BY <1>1, <1>u DEF Enqueue
<1>s. ASSUME NEW p \in Procs, Signal(p) PROVE WorkersOK'
  <2>1. worker' = worker \/ Goto(p, "woken")
    BY <1>s DEF Signal, Goto
  <2> QED BY <1>h, <1>u, <2>1
<1>2. ASSUME NEW f \in flights, FlushBatch(f) \/ FlushFails(f) \/ SignalFails(f) PROVE WorkersOK'
  <2>1. f.proc \in Procs
    BY DEF ObserverOK, FlightType
  <2>2. worker' = worker \/ Signal(f.proc)
    BY <1>2 DEF FlushBatch, FlushFails, SignalFails
  <2> QED BY <1>s, <1>u, <2>1, <2>2
<1>3. ASSUME NEW p \in Procs, Flush(p) \/ FlushSync(p) \/ OtherFlush(p) \/ StreamClears(p) PROVE WorkersOK'
  BY <1>3, <1>s, <1>u DEF Flush, FlushSync, OtherFlush, StreamClears
<1>4. ASSUME NEW p \in Procs, PollFails(p) \/ Wake(p) PROVE WorkersOK'
  BY <1>4, <1>g DEF PollFails, Wake
<1>5. ASSUME NEW p \in Procs, Crash(p) PROVE WorkersOK'
  <2>1. worker' = [worker EXCEPT ![p] = NoWorker] \/ worker' = [worker EXCEPT ![p] = Polling]
    BY <1>5 DEF Crash
  <2> QED BY <1>f, <1>g, <2>1 DEF NoWorker
<1>6. ASSUME NEW p \in Procs, PollStep(p) PROVE WorkersOK'
  <2> DEFINE w == worker[p]
  <2>0. /\ w \in WorkerType /\ w.queue \cup w.done \cup w.failed \subseteq w.batch
        /\ w.batch \subseteq Rows /\ w.done \subseteq sent
        /\ sent \subseteq sent' /\ exported \subseteq exported' /\ dead \subseteq dead'
    BY <1>0 DEF WorkerOK, LogGrows
  <2>1. CASE Clear(p)
    BY <1>h, <2>1 DEF Clear
  <2>2. CASE Load(p)
    <3>1. CASE Goto(p, Idle(p))
      BY <1>h, <3>1 DEF Idle
    <3>2. CASE worker' = [worker EXCEPT ![p] = [Polling EXCEPT
                  !.pc = "dispatch", !.batch = Oldest, !.queue = Oldest]]
      <4> DEFINE rec == [Polling EXCEPT !.pc = "dispatch", !.batch = Oldest, !.queue = Oldest]
      <4>1. Oldest \subseteq Rows
        BY DEF Oldest, Undelivered
      <4>2. /\ rec \in WorkerType /\ rec.pc = "dispatch" /\ rec.batch = Oldest /\ rec.queue = Oldest
            /\ rec.done = {} /\ rec.failed = {}
        BY <1>r, <4>1 DEF Polling, WorkerType
      <4>3. worker' = [worker EXCEPT ![p] = rec]
        BY <3>2
      <4> HIDE DEF rec
      <4> QED BY <4>1, <4>2, <4>3, WorkerMoves
    <3> QED BY <2>2, <3>1, <3>2 DEF Load
  <2>4. ASSUME NEW i \in Rows, DispatchEvent(p, i) PROVE WorkersOK'
    <3> DEFINE rec == [w EXCEPT !.queue = w.queue \ {i}, !.done = w.done \cup {i}]
    <3>1. i \in w.queue /\ w.pc = "dispatch" /\ sent' = sent \cup {i}
      BY <2>4 DEF DispatchEvent, NextItem, At
    <3>2. /\ rec \in WorkerType /\ rec.pc = "dispatch" /\ rec.batch = w.batch
          /\ rec.queue = w.queue \ {i} /\ rec.done = w.done \cup {i} /\ rec.failed = w.failed
      BY <1>r, <2>0, <3>1 DEF WorkerType
    <3>3. worker' = [worker EXCEPT ![p] = rec]
      BY <2>4 DEF DispatchEvent
    <3> HIDE DEF rec, w
    <3> QED BY <2>0, <3>1, <3>2, <3>3, WorkerMoves
  <2>5. ASSUME NEW i \in Rows, DispatchFails(p, i) PROVE WorkersOK'
    <3> DEFINE rec == [w EXCEPT !.pc = "failing", !.queue = w.queue \ {i}, !.item = i,
                                !.retries = log[i].retries]
    <3>1. log[i].retries \in Nat /\ i \in Nat
      BY <1>r DEF LogRow
    <3>2. /\ rec \in WorkerType /\ rec.pc = "failing" /\ rec.batch = w.batch /\ rec.item = i
          /\ rec.queue = w.queue \ {i} /\ rec.done = w.done /\ rec.failed = w.failed
      BY <2>0, <3>1 DEF WorkerType
    <3>3. worker' = [worker EXCEPT ![p] = rec]
      BY <2>5 DEF DispatchFails
    <3> HIDE DEF rec, w
    <3> QED BY <2>0, <3>2, <3>3, WorkerMoves
  <2>6. CASE RecordFailure(p)
    <3> DEFINE rec == [w EXCEPT !.pc = "dispatch", !.item = 0, !.retries = 0]
    <3>1. /\ rec \in WorkerType /\ rec.pc = "dispatch" /\ rec.batch = w.batch
          /\ rec.queue = w.queue /\ rec.done = w.done /\ rec.failed = w.failed
      BY <2>0 DEF WorkerType
    <3>2. worker' = [worker EXCEPT ![p] = rec]
      BY <2>6 DEF RecordFailure
    <3> HIDE DEF rec, w
    <3> QED BY <2>0, <3>1, <3>2, WorkerMoves
  <2>7. ASSUME NEW refused, Export(p, refused) PROVE WorkersOK'
    <3> DEFINE pc == IF refused = {} THEN "mark" ELSE "route"
               rec == [w EXCEPT !.pc = pc, !.failed = refused]
    <3>1. /\ refused \subseteq w.batch /\ exported' = exported \cup (w.batch \ refused)
          /\ worker' = [worker EXCEPT ![p] = rec]
      BY <2>7 DEF Export
    <3>2. pc \in {"mark", "route"} /\ (pc = "mark" => refused = {})
      OBVIOUS
    <3> HIDE DEF pc
    <3>3. /\ rec \in WorkerType /\ rec.pc = pc /\ rec.batch = w.batch
          /\ rec.queue = w.queue /\ rec.done = w.done /\ rec.failed = refused
      BY <1>r, <2>0, <3>1, <3>2 DEF WorkerType
    <3> HIDE DEF rec, w
    <3>4. \A i \in rec.done : i \in exported' \/ i \in refused
      BY <2>0, <3>1, <3>3
    <3> QED BY <2>0, <3>1, <3>2, <3>3, <3>4, WorkerMoves
  <2>8. CASE RouteFailures(p)
    <3> DEFINE rec == [w EXCEPT !.pc = "mark", !.failed = {}]
    <3>1. /\ dead' = dead \cup (w.failed \X {"exporter"}) /\ worker' = [worker EXCEPT ![p] = rec]
          /\ \A i \in w.done : i \in exported \/ i \in w.failed
      BY <1>0, <2>8 DEF RouteFailures, WorkerOK, At
    <3>2. /\ rec \in WorkerType /\ rec.pc = "mark" /\ rec.batch = w.batch
          /\ rec.queue = w.queue /\ rec.done = w.done /\ rec.failed = {}
      BY <2>0 DEF WorkerType
    <3> HIDE DEF rec, w
    <3>3. \A i \in rec.done : i \in exported' \/ <<i, "exporter">> \in dead'
      BY <2>0, <3>1, <3>2
    <3> QED BY <2>0, <3>1, <3>2, <3>3, WorkerMoves
  <2>9. CASE MarkDelivered(p)
    <3> DEFINE pc == IF w.done = {} THEN Idle(p) ELSE "clear"
    <3>1. worker' = [worker EXCEPT ![p] = [Polling EXCEPT !.pc = pc]] /\ pc \in {"wait", "clear"}
      BY <2>9 DEF MarkDelivered, Idle
    <3> HIDE DEF pc
    <3> QED BY <1>f, <3>1
  <2> QED BY <1>6, <2>1, <2>2, <2>4, <2>5, <2>6, <2>7, <2>8, <2>9 DEF PollStep
<1>7. CASE UNCHANGED vars
  BY <1>7, <1>u DEF vars
<1> QED BY <1>1, <1>2, <1>3, <1>4, <1>5, <1>6, <1>7 DEF Next
----------------------------------------------------------------------------
(* Each event in one place *)

\* An empty sequence meets none.
LEMMA EmptyApart ==
    /\ IsInjective(<<>>)
    /\ \A s : Apart(s, <<>>) /\ Apart(<<>>, s)
BY DEF IsInjective, Apart

\* Having none in common goes both ways.
LEMMA ApartSym ==
    ASSUME NEW s, NEW t, Apart(s, t) PROVE Apart(t, s)
BY DEF Apart

\* Two deques hold events of different processes.
LEMMA DequesApart ==
    ASSUME OnceOK, NEW p \in Procs, NEW q \in Procs, p # q
    PROVE  Apart(pending[p], pending[q])
BY DEF OnceOK, Apart

\* A step that only takes events out of the deques and batches, or marks rows.
LEMMA OnceShrinks ==
    ASSUME OnceOK, seen \subseteq seen', redone \subseteq redone', Rows' = Rows,
           \A i \in Rows : log'[i].entry = log[i].entry,
           \A p \in Procs : pending'[p] \in {pending[p], <<>>},
           flights' \subseteq flights
    PROVE  OnceOK'
<1>1. ASSUME NEW p \in Procs
      PROVE  (/\ IsInjective(pending[p])
              /\ \A i \in DOMAIN pending[p] : pending[p][i] \in seen /\ ProcOf[pending[p][i]] = p
              /\ Fresh(pending[p])
              /\ \A f \in flights : Apart(pending[p], f.events))'
  <2>1. CASE pending'[p] = pending[p]
    <3>1. Fresh(pending[p])'
      BY <2>1 DEF OnceOK, Fresh
    <3> QED BY <2>1, <3>1 DEF OnceOK
  <2>2. CASE pending'[p] = <<>>
    <3>1. Fresh(pending[p])'
      BY <2>2 DEF Fresh
    <3> QED BY <2>2, <3>1, EmptyApart
  <2> QED BY <2>1, <2>2
<1>2. ASSUME NEW f \in flights'
      PROVE  (/\ IsInjective(f.events)
              /\ \A i \in DOMAIN f.events : f.events[i] \in seen
              /\ Fresh(f.events)
              /\ \A g \in flights : f # g => Apart(f.events, g.events))'
  <2>1. Fresh(f.events)'
    BY <1>2 DEF OnceOK, Fresh
  <2> QED BY <1>2, <2>1 DEF OnceOK
<1>3. (/\ \A i, j \in Rows : log[i].entry = log[j].entry => i = j \/ log[i].entry[1] \in redone
       /\ \A i \in Rows : log[i].entry[1] \in seen)'
  BY DEF OnceOK
<1> QED BY <1>1, <1>2, <1>3 DEF OnceOK

\* A batch is committed whose events are nowhere else, or only in the log from an
\* earlier commit of it; it may go around again, which is remembered.
LEMMA OnceAppends ==
    ASSUME OnceOK, LogOK, NEW s \in Seq(Events), Commit(s),
           UNCHANGED <<dead, sent, exported>>, seen' = seen, redone \subseteq redone',
           IsInjective(s), \A i \in DOMAIN s : s[i] \in seen, Fresh(s),
           \A p \in Procs : pending'[p] \in {pending[p], <<>>} /\ Apart(s, pending'[p]),
           NEW rest \in SUBSET flights, \A f \in rest : Apart(s, f.events),
           NEW again, flights' = rest \cup again,
           \A g, h \in again : g = h /\ g.events = s,
           again # {} => \A i \in DOMAIN s : s[i] \in redone'
    PROVE  OnceOK'
<1>0. /\ \A i \in Rows : i \in Rows' /\ log'[i] = log[i]
      /\ \A i \in Rows' : i \notin Rows => \E k \in DOMAIN s : log'[i].entry[1] = s[k]
      /\ \A i, j \in Rows' :
            i \notin Rows /\ j \notin Rows /\ log'[i].entry = log'[j].entry => i = j
  BY RowsAppended
<1>2. ASSUME NEW i \in Rows', NEW j \in Rows', log'[i].entry = log'[j].entry
      PROVE  i = j \/ log'[i].entry[1] \in redone'
  <2>1. CASE i \in Rows /\ j \in Rows
    BY <1>0, <1>2, <2>1 DEF OnceOK
  <2>2. CASE i \notin Rows /\ j \notin Rows
    BY <1>0, <1>2, <2>2
  <2>3. CASE i \in Rows /\ j \notin Rows
    <3>1. PICK k \in DOMAIN s : log'[j].entry[1] = s[k]
      BY <1>0, <2>3
    <3>2. log[i].entry[1] = s[k]
      BY <1>0, <1>2, <2>3, <3>1
    <3> QED BY <1>2, <2>3, <3>1, <3>2 DEF Fresh
  <2>4. CASE i \notin Rows /\ j \in Rows
    <3>1. PICK k \in DOMAIN s : log'[i].entry[1] = s[k]
      BY <1>0, <2>4
    <3>2. log[j].entry[1] = s[k]
      BY <1>0, <1>2, <2>4, <3>1
    <3> QED BY <2>4, <3>1, <3>2 DEF Fresh
  <2> QED BY <2>1, <2>2, <2>3, <2>4
<1>4. \A i \in Rows' : log'[i].entry[1] \in seen'
  BY <1>0 DEF OnceOK
<1>5. ASSUME NEW p \in Procs
      PROVE  (/\ IsInjective(pending[p])
              /\ \A i \in DOMAIN pending[p] : pending[p][i] \in seen /\ ProcOf[pending[p][i]] = p
              /\ Fresh(pending[p])
              /\ \A f \in flights : Apart(pending[p], f.events))'
  <2>0. ASSUME NEW f \in flights' PROVE Apart(pending'[p], f.events)
    <3>1. CASE f \in rest
      <4>1. Apart(pending[p], f.events)
        BY <3>1 DEF OnceOK
      <4> QED BY <4>1, EmptyApart
    <3>2. CASE f \in again
      <4>1. Apart(s, pending'[p]) /\ f.events = s
        BY <3>2
      <4> QED BY <4>1, ApartSym
    <3> QED BY <2>0, <3>1, <3>2
  <2>1. CASE pending'[p] = pending[p]
    <3>1. Fresh(pending[p]) /\ Apart(s, pending[p])
      BY <2>1 DEF OnceOK
    <3>2. Fresh(pending[p])'
      BY <1>0, <2>1, <3>1 DEF Fresh, Apart
    <3> QED BY <2>0, <2>1, <3>2 DEF OnceOK
  <2>2. CASE pending'[p] = <<>>
    <3>1. Fresh(pending[p])'
      BY <2>2 DEF Fresh
    <3> QED BY <2>0, <2>2, <3>1, EmptyApart
  <2> QED BY <2>1, <2>2
<1>6. ASSUME NEW f \in flights'
      PROVE  (/\ IsInjective(f.events)
              /\ \A i \in DOMAIN f.events : f.events[i] \in seen
              /\ Fresh(f.events)
              /\ \A g \in flights : f # g => Apart(f.events, g.events))'
  <2>1. CASE f \in rest
    <3>1. Fresh(f.events) /\ Apart(s, f.events)
      BY <2>1 DEF OnceOK
    <3>2. Fresh(f.events)'
      BY <1>0, <3>1 DEF Fresh, Apart
    <3>3. ASSUME NEW g \in flights', f # g PROVE Apart(f.events, g.events)
      <4>1. CASE g \in rest
        BY <2>1, <3>3, <4>1 DEF OnceOK
      <4>2. CASE g \in again
        BY <3>1, <4>2, ApartSym
      <4> QED BY <3>3, <4>1, <4>2
    <3> QED BY <2>1, <3>2, <3>3 DEF OnceOK
  <2>2. CASE f \in again
    <3>1. f.events = s /\ \A i \in DOMAIN s : s[i] \in redone'
      BY <2>2
    <3>2. Fresh(f.events)'
      BY <3>1 DEF Fresh
    <3>3. ASSUME NEW g \in flights', f # g PROVE Apart(f.events, g.events)
      <4>1. g \in rest
        BY <2>2, <3>3
      <4> QED BY <3>1, <4>1
    <3> QED BY <3>1, <3>2, <3>3
  <2> QED BY <1>6, <2>1, <2>2
<1>7. (\A i, j \in Rows : log[i].entry = log[j].entry => i = j \/ log[i].entry[1] \in redone)'
  BY <1>2
<1> QED BY <1>4, <1>5, <1>6, <1>7 DEF OnceOK

\* A batch changes its attempt, or is formed from a deque that is drained.
LEMMA OnceTakesOff ==
    ASSUME OnceOK, UNCHANGED <<seen, log, redone>>,
           NEW rest \in SUBSET flights, NEW g,
           flights' = rest \cup {g},
           IsInjective(g.events), \A i \in DOMAIN g.events : g.events[i] \in seen,
           Fresh(g.events), \A f \in rest : Apart(g.events, f.events),
           \A p \in Procs : pending'[p] \in {pending[p], <<>>} /\ Apart(pending'[p], g.events)
    PROVE  OnceOK'
<1>0. Rows' = Rows /\ \A i \in Rows : log'[i] = log[i]
  BY DEF Rows
<1>1. ASSUME NEW p \in Procs
      PROVE  (/\ IsInjective(pending[p])
              /\ \A i \in DOMAIN pending[p] : pending[p][i] \in seen /\ ProcOf[pending[p][i]] = p
              /\ Fresh(pending[p])
              /\ \A f \in flights : Apart(pending[p], f.events))'
  <2>1. CASE pending'[p] = pending[p]
    <3>1. Fresh(pending[p])'
      BY <1>0, <2>1 DEF OnceOK, Fresh
    <3> QED BY <2>1, <3>1 DEF OnceOK
  <2>2. CASE pending'[p] = <<>>
    <3>1. Fresh(pending[p])'
      BY <2>2 DEF Fresh
    <3> QED BY <2>2, <3>1, EmptyApart
  <2> QED BY <2>1, <2>2
<1>2. ASSUME NEW f \in flights'
      PROVE  (/\ IsInjective(f.events)
              /\ \A i \in DOMAIN f.events : f.events[i] \in seen
              /\ Fresh(f.events)
              /\ \A h \in flights : f # h => Apart(f.events, h.events))'
  <2>0. f = g \/ f \in flights
    BY <1>2
  <2>f. Fresh(f.events)'
    BY <1>0, <2>0 DEF OnceOK, Fresh
  <2>1. CASE f = g
    BY <2>1, <2>f
  <2>2. CASE f # g
    <3>1. f \in rest /\ Apart(f.events, g.events)
      BY <1>2, <2>2, ApartSym
    <3> QED BY <2>f, <3>1 DEF OnceOK
  <2> QED BY <2>1, <2>2
<1>3. (/\ \A i, j \in Rows : log[i].entry = log[j].entry => i = j \/ log[i].entry[1] \in redone
       /\ \A i \in Rows : log[i].entry[1] \in seen)'
  BY <1>0 DEF OnceOK
<1> QED BY <1>1, <1>2, <1>3 DEF OnceOK

\* Every step keeps each event in one place.
LEMMA OnceKept ==
    ASSUME Inv, [Next]_vars
    PROVE  OnceOK'
<1>0. /\ ObserverOK /\ OnceOK /\ LogOK /\ WorkersOK
      /\ pending \in [Procs -> Seq(Events)] /\ flights \subseteq FlightType
      /\ ProcOf \in [Events -> Procs]
  BY EventDeliveryAssumption DEF Inv, ObserverOK
<1>l. ASSUME log' = log PROVE Rows' = Rows /\ \A i \in Rows : log'[i].entry = log[i].entry
  BY <1>l DEF Rows
<1>d. ASSUME NEW p \in Procs, pending' = [pending EXCEPT ![p] = <<>>]
      PROVE  \A q \in Procs : pending'[q] \in {pending[q], <<>>} /\ Apart(pending[p], pending'[q])
                              /\ Apart(pending'[q], pending[p])
  <2>1. pending'[p] = <<>> /\ \A q \in Procs : q # p => pending'[q] = pending[q]
    BY <1>0, <1>d
  <2>2. \A q \in Procs : q # p => Apart(pending[p], pending[q]) /\ Apart(pending[q], pending[p])
    BY <1>0, DequesApart
  <2> QED BY <2>1, <2>2, EmptyApart
<1>1. ASSUME NEW e \in Events, Enqueue(e) PROVE OnceOK'
  <2> DEFINE p == ProcOf[e]
             s == pending[p]
             t == Push(s, e)
  <2>1. /\ e \notin seen /\ seen' = seen \cup {e} /\ log' = log /\ flights' = flights
        /\ pending' = [pending EXCEPT ![p] = t] /\ redone' = redone
    BY <1>1 DEF Enqueue, Push, sinks
  <2>2. p \in Procs /\ s \in Seq(Events) /\ Len(s) <= MaxPending
    BY <1>0 DEF ObserverOK
  <2>3. /\ IsInjective(s) /\ Fresh(s)
        /\ \A i \in DOMAIN s : s[i] \in seen /\ ProcOf[s[i]] = p
        /\ \A f \in flights : Apart(s, f.events)
    BY <1>0, <2>2 DEF OnceOK
  <2>4. /\ \A i \in DOMAIN t : t[i] = e \/ \E j \in DOMAIN s : t[i] = s[j]
        /\ IsInjective(s) /\ (\A j \in DOMAIN s : s[j] # e) => IsInjective(t)
    BY <2>2, PushFacts
  <2>5. ProcOf[e] = p
    OBVIOUS
  <2>6. pending'[p] = t /\ \A q \in Procs : q # p => pending'[q] = pending[q]
    BY <1>0, <2>1, <2>2
  <2> HIDE DEF p, s, t
  <2>7. \A j \in DOMAIN s : s[j] # e
    BY <2>1, <2>3
  <2>8. /\ IsInjective(t)
        /\ \A i \in DOMAIN t : t[i] \in seen' /\ ProcOf[t[i]] = p
    BY <2>1, <2>3, <2>4, <2>5, <2>7
  <2>9. \A i \in Rows : log[i].entry[1] \in seen
    BY <1>0 DEF OnceOK
  <2>12. Rows' = Rows /\ \A i \in Rows : log'[i].entry = log[i].entry
    BY <1>l, <2>1
  <2>10. \A i \in Rows, j \in DOMAIN t : log[i].entry[1] = t[j] => t[j] \in redone
    <3> SUFFICES ASSUME NEW i \in Rows, NEW j \in DOMAIN t, log[i].entry[1] = t[j]
                 PROVE  t[j] \in redone
      OBVIOUS
    <3>1. t[j] # e
      BY <2>1, <2>9
    <3>2. PICK k \in DOMAIN s : t[j] = s[k]
      BY <2>4, <3>1
    <3> QED BY <2>3, <3>2 DEF Fresh
  <2>11. ASSUME NEW f \in flights PROVE Apart(t, f.events)
    <3>1. \A i \in DOMAIN f.events : f.events[i] \in seen
      BY <1>0 DEF OnceOK
    <3>2. Apart(s, f.events)
      BY <2>3
    <3> QED BY <2>1, <2>4, <3>1, <3>2 DEF Apart
  <2>13. ASSUME NEW q \in Procs
         PROVE  (/\ IsInjective(pending[q])
                 /\ \A i \in DOMAIN pending[q] : pending[q][i] \in seen /\ ProcOf[pending[q][i]] = q
                 /\ Fresh(pending[q])
                 /\ \A f \in flights : Apart(pending[q], f.events))'
    <3>1. CASE q = p
      <4>1. Fresh(pending[q])'
        BY <2>1, <2>6, <2>10, <2>12, <3>1 DEF Fresh
      <4> QED BY <2>1, <2>6, <2>8, <2>11, <3>1, <4>1
    <3>2. CASE q # p
      <4>1. Fresh(pending[q])'
        BY <1>0, <2>1, <2>6, <2>12, <3>2 DEF OnceOK, Fresh
      <4> QED BY <1>0, <2>1, <2>6, <3>2, <4>1 DEF OnceOK
    <3> QED BY <3>1, <3>2
  <2>14. ASSUME NEW f \in flights'
         PROVE  (/\ IsInjective(f.events)
                 /\ \A i \in DOMAIN f.events : f.events[i] \in seen
                 /\ Fresh(f.events)
                 /\ \A g \in flights : f # g => Apart(f.events, g.events))'
    <3>1. Fresh(f.events)'
      BY <1>0, <2>1, <2>12, <2>14 DEF OnceOK, Fresh
    <3> QED BY <1>0, <2>1, <2>14, <3>1 DEF OnceOK
  <2>15. (/\ \A i, j \in Rows : log[i].entry = log[j].entry => i = j \/ log[i].entry[1] \in redone
          /\ \A i \in Rows : log[i].entry[1] \in seen)'
    BY <1>0, <2>1, <2>12 DEF OnceOK
  <2> QED BY <2>13, <2>14, <2>15 DEF OnceOK
<1>2. ASSUME NEW f \in flights, NEW again, flights' = (flights \ {f}) \cup again,
             Commit(f.events), UNCHANGED <<seen, pending, dead, sent, exported>>, redone \subseteq redone',
             \A g, h \in again : g = h /\ g.events = f.events,
             again # {} => ToSet(f.events) \subseteq redone'
      PROVE  OnceOK'
  <2> DEFINE s == f.events
             rest == flights \ {f}
  <2>2. s \in Seq(Events)
    BY <1>0 DEF FlightType
  <2>3. /\ IsInjective(s) /\ (\A i \in DOMAIN s : s[i] \in seen) /\ Fresh(s)
        /\ \A g \in rest : Apart(s, g.events)
    BY <1>0 DEF OnceOK
  <2>4. ASSUME NEW p \in Procs PROVE pending'[p] = pending[p] /\ Apart(s, pending'[p])
    <3>1. Apart(pending[p], s)
      BY <1>0 DEF OnceOK
    <3> QED BY <1>2, <3>1, ApartSym
  <2>5. again # {} => \A i \in DOMAIN s : s[i] \in redone'
    BY <1>2 DEF ToSet
  <2>6. /\ Commit(s) /\ rest \in SUBSET flights /\ flights' = rest \cup again
        /\ \A g, h \in again : g = h /\ g.events = s
    BY <1>2
  <2> HIDE DEF s, rest
  <2>7. \A p \in Procs : pending'[p] \in {pending[p], <<>>} /\ Apart(s, pending'[p])
    BY <2>4
  <2> QED BY <1>0, <1>2, <2>2, <2>3, <2>5, <2>6, <2>7, OnceAppends
<1>a. ASSUME NEW f \in flights, FlushBatch(f) PROVE OnceOK'
  <2> DEFINE again == {}
  <2>1. /\ flights' = (flights \ {f}) \cup again /\ Commit(f.events)
        /\ UNCHANGED <<seen, pending, dead, sent, exported, redone>>
    BY <1>a DEF FlushBatch, sinks
  <2>2. again = {} /\ \A g, h \in again : g = h /\ g.events = f.events
    OBVIOUS
  <2> HIDE DEF again
  <2> QED BY <1>2, <2>1, <2>2
<1>b. ASSUME NEW f \in flights, SignalFails(f) PROVE OnceOK'
  <2>1. /\ flights' = (flights \ {f}) \cup Retry(f) /\ Commit(f.events)
        /\ UNCHANGED <<seen, pending, dead, sent, exported>>
        /\ redone' = redone \cup (UNION {ToSet(g.events) : g \in Retry(f)})
    BY <1>b DEF SignalFails
  <2>2. \A g, h \in Retry(f) : g = h /\ g.events = f.events
    BY <1>0, RetryFacts, EventDeliveryAssumption
  <2>3. Retry(f) # {} => ToSet(f.events) \subseteq redone'
    BY <2>1, <2>2
  <2> QED BY <1>2, <2>1, <2>2, <2>3
<1>3. ASSUME NEW f \in flights, FlushFails(f) PROVE OnceOK'
  <2> DEFINE rest == flights \ {f}
  <2>1. UNCHANGED <<seen, pending, log, redone>> /\ flights' = rest \cup Retry(f)
    BY <1>3 DEF FlushFails, sinks
  <2>2. \A g, h \in Retry(f) : g = h /\ g.events = f.events
    BY <1>0, RetryFacts, EventDeliveryAssumption
  <2>4. rest \in SUBSET flights /\ \A h \in rest : h \in flights /\ f # h
    OBVIOUS
  <2> HIDE DEF rest
  <2>5. CASE Retry(f) = {}
    BY <1>0, <1>l, <2>1, <2>4, <2>5, OnceShrinks
  <2>6. ASSUME NEW g \in Retry(f) PROVE OnceOK'
    <3>1. flights' = rest \cup {g} /\ g.events = f.events
      BY <2>1, <2>2, <2>6
    <3>2. /\ IsInjective(g.events) /\ (\A i \in DOMAIN g.events : g.events[i] \in seen)
          /\ Fresh(g.events) /\ \A h \in rest : Apart(g.events, h.events)
      BY <1>0, <2>4, <3>1 DEF OnceOK
    <3>3. \A p \in Procs : pending'[p] \in {pending[p], <<>>} /\ Apart(pending'[p], g.events)
      BY <1>0, <2>1, <3>1 DEF OnceOK
    <3> QED BY <1>0, <2>1, <2>4, <3>1, <3>2, <3>3, OnceTakesOff
  <2> QED BY <2>5, <2>6
<1>4. ASSUME NEW p \in Procs, Flush(p) PROVE OnceOK'
  <2> DEFINE g == [proc |-> p, events |-> pending[p], attempt |-> 0]
  <2>1. /\ UNCHANGED <<seen, log, redone>> /\ (flights' = flights \/ flights' = flights \cup {g})
        /\ pending' = [pending EXCEPT ![p] = <<>>]
    BY <1>4 DEF Flush, Drain, sinks
  <2>2. g.events = pending[p]
    OBVIOUS
  <2>4. \A q \in Procs : pending'[q] \in {pending[q], <<>>} /\ Apart(pending'[q], pending[p])
    BY <1>d, <2>1
  <2> HIDE DEF g
  <2>5. CASE flights' = flights
    BY <1>0, <1>l, <2>1, <2>4, <2>5, OnceShrinks
  <2>6. CASE flights' = flights \cup {g}
    <3>1. /\ IsInjective(g.events) /\ (\A i \in DOMAIN g.events : g.events[i] \in seen)
          /\ Fresh(g.events) /\ \A h \in flights : Apart(g.events, h.events)
      BY <1>0, <2>2 DEF OnceOK
    <3>2. flights \in SUBSET flights /\ \A q \in Procs : Apart(pending'[q], g.events)
      BY <2>2, <2>4
    <3> QED BY <1>0, <2>1, <2>4, <2>6, <3>1, <3>2, OnceTakesOff
  <2> QED BY <2>1, <2>5, <2>6
<1>5. ASSUME NEW p \in Procs, FlushSync(p) PROVE OnceOK'
  <2>1. /\ UNCHANGED <<seen, flights, dead, sent, exported, redone>>
        /\ log' = log \/ Commit(pending[p])
        /\ pending' = [pending EXCEPT ![p] = <<>>]
    BY <1>5 DEF FlushSync, Drain, sinks
  <2>2. \A q \in Procs : pending'[q] \in {pending[q], <<>>} /\ Apart(pending[p], pending'[q])
    BY <1>d, <2>1
  <2>3. CASE log' = log
    BY <1>0, <1>l, <2>1, <2>2, <2>3, OnceShrinks
  <2>4. CASE Commit(pending[p])
    <3> DEFINE s == pending[p]
               again == {}
    <3>1. /\ s \in Seq(Events) /\ IsInjective(s) /\ (\A i \in DOMAIN s : s[i] \in seen)
          /\ Fresh(s) /\ \A f \in flights : Apart(s, f.events)
      BY <1>0 DEF OnceOK
    <3>2. \A q \in Procs : pending'[q] \in {pending[q], <<>>} /\ Apart(s, pending'[q])
      BY <2>2
    <3>3. Commit(s)
      BY <2>4
    <3>4. /\ flights \in SUBSET flights /\ flights' = flights \cup again /\ again = {}
          /\ \A g, h \in again : g = h /\ g.events = s
      BY <2>1
    <3> HIDE DEF s, again
    <3> QED BY <1>0, <2>1, <3>1, <3>2, <3>3, <3>4, OnceAppends
  <2> QED BY <2>1, <2>3, <2>4
<1>6. ASSUME NEW p \in Procs, Crash(p) PROVE OnceOK'
  <2>1. /\ UNCHANGED <<seen, log, redone>> /\ flights' \subseteq flights
        /\ pending' = [pending EXCEPT ![p] = <<>>]
    BY <1>6 DEF Crash, sinks
  <2>2. \A q \in Procs : pending'[q] \in {pending[q], <<>>}
    BY <1>d, <2>1
  <2> QED BY <1>0, <1>l, <2>1, <2>2, OnceShrinks
<1>u. ASSUME UNCHANGED <<seen, pending, flights, redone>>, Logged' = Logged PROVE OnceOK'
  <2>1. DOMAIN Logged = Rows /\ (DOMAIN Logged = Rows)'
    BY DEF Logged
  <2>2. Rows' = Rows
    BY <1>u, <2>1
  <2>3. \A i \in Rows : Logged[i] = log[i].entry /\ Logged'[i] = log'[i].entry
    BY <2>2 DEF Logged
  <2>4. \A i \in Rows : log'[i].entry = log[i].entry
    BY <1>u, <2>3
  <2> QED BY <1>0, <1>u, <2>2, <2>4, OnceShrinks
<1>7. ASSUME NEW p \in Procs, PollStep(p) PROVE OnceOK'
  <2>1. UNCHANGED <<seen, pending, flights, redone>> /\ Logged' = Logged
    BY <1>0, <1>7, PollQuiet, PollKeepsLog DEF observer
  <2> QED BY <1>u, <2>1
<1>8. ASSUME NEW p \in Procs, PollFails(p) \/ OtherFlush(p) \/ StreamClears(p) \/ Wake(p) PROVE OnceOK'
  <2>1. UNCHANGED <<seen, pending, flights, redone>> /\ log' = log
    BY <1>8 DEF PollFails, OtherFlush, StreamClears, Wake, observer, sinks
  <2>2. Logged' = Logged
    BY <2>1 DEF Logged, Rows
  <2> QED BY <1>u, <2>1, <2>2
<1>9. CASE UNCHANGED vars
  <2>1. UNCHANGED <<seen, pending, flights, redone>> /\ log' = log
    BY <1>9 DEF vars
  <2>2. Logged' = Logged
    BY <2>1 DEF Logged, Rows
  <2> QED BY <1>u, <2>1, <2>2
<1> QED BY <1>1, <1>3, <1>4, <1>5, <1>6, <1>7, <1>8, <1>9, <1>a, <1>b DEF Next
----------------------------------------------------------------------------
(* The theorems *)

\* Before the first event everything is empty.
LEMMA InitInv ==
    ASSUME Init PROVE Inv
<1>1. PICK load \in Workloads :
          /\ seen = Events \ load.events
          /\ faults = MaxFaults - load.faults
          /\ worker = [p \in Procs |-> IF p \in load.workers THEN Polling ELSE NoWorker]
  BY DEF Init
<1>2. /\ pending = [p \in Procs |-> <<>>] /\ armed = [p \in Procs |-> FALSE]
      /\ timers = [p \in Procs |-> 0] /\ flights = {} /\ log = <<>> /\ dead = {}
      /\ signal = [p \in Procs |-> FALSE] /\ sent = {} /\ exported = {} /\ redone = {}
  BY DEF Init
<1>3. seen \subseteq Events /\ Cardinality(seen) \in Nat /\ MaxPending \in Nat /\ MaxFaults \in Nat
  <2>1. seen \subseteq Events /\ IsFiniteSet(Events) /\ MaxPending \in Nat /\ MaxFaults \in Nat
    BY <1>1, EventDeliveryAssumption
  <2>2. IsFiniteSet(seen)
    BY <2>1, FS_Subset
  <2> QED BY <2>1, <2>2, FS_CardinalityType
<1>e. \A S : <<>> \in Seq(S) /\ Len(<<>>) = 0
  BY EmptySeq
<1>f. faults \in 0..MaxFaults
  <2>1. load.faults \in 0..MaxFaults
    BY EventDeliveryAssumption
  <2> QED BY <1>1, <1>3, <2>1
<1>4. Rows = {}
  BY <1>2, <1>e DEF Rows
<1>5. ObserverOK
  BY <1>2, <1>3, <1>e, <1>f DEF ObserverOK, PendingHasTimer
<1>6. OnceOK
  <2>1. \A s : Fresh(s)
    BY <1>4 DEF Fresh
  <2>2. \A p \in Procs : pending[p] = <<>>
    BY <1>2
  <2> QED BY <1>2, <1>4, <2>1, <2>2, EmptyApart DEF OnceOK
<1>7. LogOK
  BY <1>2, <1>4, <1>e DEF LogOK, DeliveredIsAccounted, ExporterIsServed
<1>8. WorkersOK
  <2>1. /\ Polling \in WorkerType /\ Polling.pc = "clear" /\ Polling.queue = {} /\ Polling.done = {}
        /\ Polling.failed = {} /\ Polling.batch = {}
    BY DEF Polling, WorkerType
  <2>2. /\ NoWorker \in WorkerType /\ NoWorker.pc = "off" /\ NoWorker.queue = {} /\ NoWorker.done = {}
        /\ NoWorker.failed = {} /\ NoWorker.batch = {}
    BY FreshWorker DEF NoWorker
  <2>3. worker \in [Procs -> WorkerType] /\ \A p \in Procs : worker[p] \in {Polling, NoWorker}
    BY <1>1, <2>1, <2>2
  <2>4. ASSUME NEW p \in Procs PROVE WorkerOK(p)
    <3>1. CASE worker[p] = Polling
      BY <2>1, <3>1 DEF WorkerOK
    <3>2. CASE worker[p] = NoWorker
      BY <2>2, <3>2 DEF WorkerOK
    <3> QED BY <2>3, <3>1, <3>2
  <2> QED BY <2>3, <2>4 DEF WorkersOK
<1> QED BY <1>5, <1>6, <1>7, <1>8 DEF Inv

\* Every step keeps the four parts.
LEMMA StepInv ==
    ASSUME Inv, [Next]_vars PROVE Inv'
<1>1. ObserverOK /\ OnceOK /\ LogOK /\ WorkersOK
  BY DEF Inv
<1>2. ObserverOK' /\ LogOK' /\ LogGrows
  BY <1>1, ObserverKept, LogKept
<1>3. WorkersOK'
  BY <1>1, <1>2, WorkersKept
<1> QED BY <1>2, <1>3, OnceKept DEF Inv

\* The observers, the log, the sinks and the workers agree in every reachable state.
THEOREM EventInvariant == Spec => []Inv
BY InitInv, StepInv, PTL DEF Spec

\* A deque within its limit is one of the bounded sequences.
LEMMA BoundedDeque ==
    ASSUME NEW s \in Seq(Events), Len(s) <= MaxPending
    PROVE  s \in BoundedSeq(Events, MaxPending)
<1>1. Len(s) \in 0..MaxPending
  BY LenProperties, EventDeliveryAssumption
<1>2. s \in [1..Len(s) -> Events]
  BY LenProperties
<1> QED BY <1>1, <1>2 DEF BoundedSeq, SeqOf

\* Every variable keeps its type; the deque never exceeds its maxlen, and a process
\* never has more timers than events were observed.
THEOREM EventTypeOK == Spec => []TypeOK
<1>1. ASSUME Inv PROVE TypeOK
  <2>0. ObserverOK /\ LogOK /\ WorkersOK
    BY <1>1 DEF Inv
  <2>1. pending \in [Procs -> BoundedSeq(Events, MaxPending)]
    BY <2>0, BoundedDeque DEF ObserverOK
  <2>2. timers \in [Procs -> 0..Cardinality(Events)]
    <3>1. IsFiniteSet(Events) /\ seen \in SUBSET Events
      BY <2>0, EventDeliveryAssumption DEF ObserverOK
    <3>2. Cardinality(seen) <= Cardinality(Events) /\ IsFiniteSet(seen)
      BY <3>1, FS_Subset
    <3>3. Cardinality(seen) \in Nat /\ Cardinality(Events) \in Nat
      BY <3>1, <3>2, FS_CardinalityType
    <3>4. \A p \in Procs : timers[p] \in Nat /\ timers[p] <= Cardinality(seen)
      BY <2>0 DEF ObserverOK
    <3>5. \A p \in Procs : timers[p] \in 0..Cardinality(Events)
      BY <3>2, <3>3, <3>4
    <3>6. timers \in [Procs -> Nat]
      BY <2>0 DEF ObserverOK
    <3> QED BY <3>5, <3>6
  <2>3. \A f \in flights : f.proc \in Procs /\ f.events # <<>> /\ f.attempt \in 0..FlushRetries
    BY <2>0 DEF ObserverOK, FlightType
  <2>4. \A i \in Rows : log[i] \in LogRow
    BY <2>0, ElementOfSeq DEF LogOK, Rows
  <2>5. ASSUME NEW p \in Procs
        PROVE  /\ worker[p].pc \in {"clear", "load", "dispatch", "failing", "route", "mark", "wait", "woken", "off"}
               /\ worker[p].queue \cup worker[p].done \cup worker[p].failed \subseteq worker[p].batch
               /\ worker[p].batch \subseteq Rows
    BY <2>0 DEF WorkersOK, WorkerOK, WorkerType
  <2>6. /\ seen \subseteq Events /\ redone \subseteq seen /\ armed \in [Procs -> BOOLEAN]
        /\ signal \in [Procs -> BOOLEAN] /\ faults \in 0..MaxFaults
    BY <2>0 DEF ObserverOK
  <2>7. /\ dead \subseteq Rows \X {"internal", "exporter"}
        /\ sent \subseteq Rows /\ exported \subseteq Rows
    BY <2>0 DEF LogOK
  <2> HIDE DEF Rows
  <2> QED BY <2>1, <2>2, <2>3, <2>4, <2>5, <2>6, <2>7 DEF TypeOK, LogRow
<1> QED BY <1>1, EventInvariant, PTL

\* The debounce timer never leaves a collected event without a flush to come.
THEOREM EventPendingHasTimer == Spec => []PendingHasTimer
<1>1. Inv => PendingHasTimer
  BY DEF Inv, ObserverOK
<1> QED BY <1>1, EventInvariant, PTL

\* No flush, retry, flush_sync or crash logs a row of an event twice, or logs it and
\* keeps the event to be flushed, unless the wake-up after the commit of its batch raised.
THEOREM EventLoggedOnce == Spec => []LoggedOnce
<1>1. ASSUME Inv PROVE LoggedOnce
  <2>0. OnceOK
    BY <1>1 DEF Inv
  <2> SUFFICES ASSUME NEW i \in Rows, log[i].entry[1] \notin redone
               PROVE  /\ \A j \in Rows : log[i].entry = log[j].entry => i = j
                      /\ \A p \in Procs : log[i].entry[1] \notin ToSet(pending[p])
                      /\ \A f \in flights : log[i].entry[1] \notin ToSet(f.events)
    BY DEF LoggedOnce
  <2>2. \A j \in Rows : log[i].entry = log[j].entry => i = j
    BY <2>0 DEF OnceOK
  <2>3. ASSUME NEW p \in Procs PROVE log[i].entry[1] \notin ToSet(pending[p])
    BY <2>0 DEF OnceOK, Fresh, ToSet
  <2>4. ASSUME NEW f \in flights PROVE log[i].entry[1] \notin ToSet(f.events)
    BY <2>0 DEF OnceOK, Fresh, ToSet
  <2> QED BY <2>2, <2>3, <2>4
<1> QED BY <1>1, EventInvariant, PTL

\* A row that mark_delivered or the dead letter queue ends was dispatched, to a bus that
\* took it and to webhooks whose answers nobody reads, or lies in the queue.
THEOREM EventDeliveredIsAccounted == Spec => []DeliveredIsAccounted
<1>1. Inv => DeliveredIsAccounted
  BY DEF Inv, LogOK
<1> QED BY <1>1, EventInvariant, PTL

\* No delivered row is withheld from the exporter, unless it was given up.
THEOREM EventExporterIsServed == Spec => []ExporterIsServed
<1>1. Inv => ExporterIsServed
  BY DEF Inv, LogOK
<1> QED BY <1>1, EventInvariant, PTL

\* operation_log is append-only, and delivery is final, with any number of workers
\* on the same row.
THEOREM EventDeliveryIsFinal == Spec => DeliveryIsFinal
<1>1. Inv /\ [Next]_vars =>
          [/\ Len(log) <= Len(log')
           /\ \A i \in Rows : log'[i].entry = log[i].entry
                              /\ (log[i].delivered => log'[i].delivered)]_vars
  BY LogKept DEF Inv, LogGrows
<1> QED BY <1>1, EventInvariant, PTL DEF Spec, DeliveryIsFinal
=============================================================================
