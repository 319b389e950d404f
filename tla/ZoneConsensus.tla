---------------------------- MODULE ZoneConsensus ----------------------------
(***************************************************************************)
(* One raft zone: the driver loop (process_messages, advance,              *)
(* apply_entries), the log storage and the replicated state machine, with  *)
(* crashes and restarts of its nodes.                                      *)
(*                                                                         *)
(* The raft protocol is the library raft-rs, outside the repository.  Its  *)
(* exchanges are single steps here: an election takes the votes of a       *)
(* quorum at once (Elect), an append goes from the leader's log to the     *)
(* follower's disk and back (SendAppend).  A lost, late or repeated        *)
(* message is such a step that comes late, comes again or never comes.     *)
(* What the repository adds to the library is modelled as it is written:   *)
(*                                                                         *)
(*   storage        append writes the new entries over the old ones and    *)
(*                  leaves what was behind them; the commit index that a   *)
(*                  LightReady reports is not saved;                       *)
(*   state machine  metadata commands and last_applied are saved in one    *)
(*                  transaction and guarded by last_applied; the advisory  *)
(*                  lock table is in memory only and is rebuilt by the     *)
(*                  replay of the whole log, without the guard;            *)
(*   driver         proposals wait in a map under a number that each node  *)
(*                  counts from 0 since its start.  A caller that gives up *)
(*                  after PROPOSAL_TIMEOUT_SECS only stops listening: its  *)
(*                  place in the map stays, so this is no step of its own. *)
(*                                                                         *)
(* The voters are fixed.  Nothing in the repository takes a snapshot or    *)
(* compacts this log, so a restart replays it from index 1.                *)
(***************************************************************************)
EXTENDS LockState, SequencesExt

CONSTANTS
    Nodes,        \* the nodes
    ZoneSizes,    \* how many of them are voters of the zone
    Calls,        \* the calls of propose()
    Command,      \* the command of each call
    ZonePaths,    \* the paths lock commands name
    Workloads,    \* the calls made, with or without a linearizable read
    MaxTerm,      \* bound on terms
    MaxRestarts   \* bound on crashes

VARIABLES
    \* on disk
    voters,        \* ConfState.voters, the same at every member
    log,           \* the entries table of RaftStorage
    term,          \* HardState.term
    hs_commit,     \* HardState.commit
    meta,          \* the metadata commands applied to the redb tables
    saved_applied, \* KEY_LAST_APPLIED
    \* in memory
    role,          \* raft-rs: "leader" or "follower"
    match,         \* raft-rs, at a leader: what each member acknowledged
    commit,        \* raft-rs: the commit index
    applied,       \* raft-rs: the last entry handed to apply_entries
    last_applied,  \* FullStateMachine.last_applied
    advisory,      \* FullStateMachine.advisory, the lock table
    proposal_id,   \* the driver's next proposal number
    pending,       \* the driver's map from proposal numbers to calls
    \* callers
    call,          \* what each caller of propose() knows
    read,          \* what the caller of read_linearizable() knows
    restarts       \* how many crashes there were

disk == <<voters, log, term, hs_commit, meta, saved_applied>>
raft == <<voters, log, term, hs_commit, role, match, commit>>
machine == <<meta, saved_applied, last_applied, advisory, applied>>
driver == <<proposal_id, pending>>
vars == <<raft, machine, driver, call, read, restarts>>

NoCall == "noop"
NoNode == "none"
LockOps == {"acquire", "release", "force", "extend"}

ASSUME ZoneAssumption ==
    /\ IsFiniteSet(Nodes)
    /\ ZoneSizes \subseteq Nat \ {0}
    /\ NoCall \notin Calls
    /\ \A c \in Calls : Command[c].op \in LockOps \cup {"metadata"}
    /\ Workloads \subseteq [calls : SUBSET Calls, read : BOOLEAN]
    /\ MaxTerm \in Nat
    /\ MaxRestarts \in Nat

IsLock(c) == c # NoCall /\ Command[c].op \in LockOps
IsMetadata(c) == c # NoCall /\ Command[c].op = "metadata"

\* The smallest majorities; a further voter learns the term from the leader's
\* first append.
Majority(Q) == 2 * Cardinality(Q) > Cardinality(voters)
Quorums == {Q \in SUBSET voters : Majority(Q) /\ \A q \in Q : ~ Majority(Q \ {q})}

NoMatch == [m \in Nodes |-> 0]

Init ==
    /\ voters \in {V \in SUBSET Nodes : Cardinality(V) \in ZoneSizes}
    /\ log = [n \in Nodes |-> <<>>]
    /\ term = [n \in Nodes |-> 0]
    /\ hs_commit = [n \in Nodes |-> 0]
    /\ meta = [n \in Nodes |-> <<>>]
    /\ saved_applied = [n \in Nodes |-> 0]
    /\ role = [n \in Nodes |-> "follower"]
    /\ match = [n \in Nodes |-> NoMatch]
    /\ commit = [n \in Nodes |-> 0]
    /\ applied = [n \in Nodes |-> 0]
    /\ last_applied = [n \in Nodes |-> 0]
    /\ advisory = [n \in Nodes |-> EmptyTable(ZonePaths)]
    /\ proposal_id = [n \in Nodes |-> 0]
    /\ pending = [n \in Nodes |-> <<>>]
    /\ \E load \in Workloads :
          /\ call = [c \in Calls |->
                 [st |-> IF c \in load.calls THEN "new" ELSE "none", at |-> NoNode, by |-> NoCall]]
          /\ read = [st |-> IF load.read THEN "new" ELSE "none",
                     at |-> NoNode, must |-> 0, index |-> 0]
    /\ restarts = 0

-----------------------------------------------------------------------------
\* raft-rs on top of RaftStorage.

\* RaftStorage::last_index: the last key of the entries table.
LastIndex(n) == Len(log[n])
TermAt(n, i) == IF i = 0 THEN 0 ELSE log[n][i].term
LastTerm(n) == TermAt(n, LastIndex(n))

UpToDate(candidate, voter) ==
    \/ LastTerm(candidate) > LastTerm(voter)
    \/ /\ LastTerm(candidate) = LastTerm(voter)
       /\ LastIndex(candidate) >= LastIndex(voter)

\* The driver's loop takes the next message after it has applied what it knows
\* to be committed; only a crash comes in between.
Settled(n) == applied[n] = commit[n]

\* A candidate wins the votes of a majority in a term none of them has seen
\* and appends the empty entry of that term.  A failed campaign would only
\* skip a term.
Elect(n, Q, t) ==
    /\ n \in Q
    /\ \A q \in Q : term[q] < t /\ Settled(q) /\ UpToDate(n, q)
    /\ \E q \in Q : term[q] = t - 1
    /\ term' = [q \in Nodes |-> IF q \in Q THEN t ELSE term[q]]
    /\ role' = [q \in Nodes |-> IF q = n THEN "leader"
                                ELSE IF q \in Q THEN "follower" ELSE role[q]]
    /\ log' = [log EXCEPT ![n] = Append(@, [term |-> t, call |-> NoCall, id |-> 0])]
    /\ match' = [q \in Nodes |-> IF q \in Q THEN NoMatch ELSE match[q]]
    /\ hs_commit' = [q \in Nodes |-> IF q \in Q THEN commit[q] ELSE hs_commit[q]]
    /\ UNCHANGED <<voters, commit, machine, driver, call, read, restarts>>

MutAppendReplacesTable(old, new, p, k) == SubSeq(new, p + 1, k)

\* The entries table after new[p+1 .. k] arrived: raft-rs hands over the part
\* that starts with the first entry the log does not have, and
\* RaftStorage::append inserts each of these under its index.  Old entries
\* behind k stay where they are.
AppendEntries(old, new, p, k) ==
    LET missing(i) == i > Len(old) \/ old[i].term # new[i].term
    IN  [i \in 1 .. (IF k > Len(old) THEN k ELSE Len(old)) |->
            IF i <= k /\ \E j \in p + 1 .. i : missing(j) THEN new[i] ELSE old[i]]

\* The leader sends new[p+1 .. k] with its commit index, the follower checks
\* the entry at p, saves entries and hard state and acknowledges.
SendAppend(l, f, p, k) ==
    LET seen == IF commit[l] < k THEN commit[l] ELSE k
        known == IF seen > commit[f] THEN seen ELSE commit[f]
    IN  /\ role[l] = "leader"
        /\ l # f /\ f \in voters
        /\ Settled(l) /\ Settled(f)
        /\ term[f] <= term[l]
        /\ commit[f] <= p /\ p <= k
        /\ p <= LastIndex(f) /\ TermAt(l, p) = TermAt(f, p)
        /\ log' = [log EXCEPT ![f] = AppendEntries(@, log[l], p, k)]
        /\ term' = [term EXCEPT ![f] = term[l]]
        /\ role' = [role EXCEPT ![f] = "follower"]
        /\ commit' = [commit EXCEPT ![f] = known]
        /\ hs_commit' = [hs_commit EXCEPT ![f] = known]
        /\ match' = [match EXCEPT ![l][f] = IF k > @ THEN k ELSE @, ![f] = NoMatch]
        /\ UNCHANGED <<voters, machine, driver, call, read, restarts>>

\* An entry of the leader's own term is on a majority.  If it was the answer of
\* a follower that completed the majority, the new commit index comes in the
\* hard state of the next Ready and is saved.  In a zone of one it was the
\* leader's own write, and the index comes in the LightReady of this round,
\* of which the driver takes only messages and entries.
AdvanceCommit(l, i) ==
    /\ role[l] = "leader" /\ Settled(l)
    /\ commit[l] < i /\ i <= LastIndex(l)
    /\ TermAt(l, i) = term[l]
    /\ Majority({m \in voters : m = l \/ match[l][m] >= i})
    /\ commit' = [commit EXCEPT ![l] = i]
    /\ hs_commit' = IF voters = {l} THEN hs_commit ELSE [hs_commit EXCEPT ![l] = i]
    /\ UNCHANGED <<voters, log, term, role, match, machine, driver, call, read, restarts>>

-----------------------------------------------------------------------------
\* propose() and the driver.

\* propose at a node whose cached role is leader, directly or forwarded by
\* another node: the command waits in the driver's channel.
Submit(c, n) ==
    /\ call[c].st = "new"
    /\ role[n] = "leader"
    /\ call' = [call EXCEPT ![c] = [st |-> "queued", at |-> n, by |-> NoCall]]
    /\ UNCHANGED <<raft, machine, driver, read, restarts>>

\* process_messages takes the command: it gets the next proposal number.
TakeNumber(c, n) ==
    /\ call[c].st = "queued"
    /\ call[c].at = n
    /\ Settled(n)
    /\ proposal_id' = [proposal_id EXCEPT ![n] = @ + 1]

Enqueue(c, n) ==
    /\ pending' = [pending EXCEPT ![n] =
                     [id \in DOMAIN pending[n] \cup {proposal_id[n]} |->
                         IF id = proposal_id[n] THEN c ELSE pending[n][id]]]
    /\ call' = [call EXCEPT ![c].st = "pending"]

\* raft-rs accepts the proposal: at the leader it is appended; a node that
\* lost its role since the check passes it on, number included, to the
\* leader l that it knows, or towards a message that is lost (l = NoNode).
DriverPropose(c, n, l) ==
    /\ TakeNumber(c, n)
    /\ Enqueue(c, n)
    /\ IF l = NoNode THEN role[n] # "leader" /\ log' = log
       ELSE /\ role[l] = "leader"
            /\ role[n] = "leader" => l = n
            /\ term[l] = term[n]
            /\ log' = [log EXCEPT ![l] = Append(@,
                          [term |-> term[l], call |-> c, id |-> proposal_id[n]])]
    /\ UNCHANGED <<voters, term, hs_commit, role, match, commit, machine, read, restarts>>

\* raft-rs knows no leader and drops the proposal: the caller gets an error.
DriverRefuse(c, n) ==
    /\ TakeNumber(c, n)
    /\ role[n] # "leader"
    /\ call' = [call EXCEPT ![c].st = "failed"]
    /\ UNCHANGED <<raft, machine, pending, read, restarts>>

-----------------------------------------------------------------------------
\* apply_entries

\* FullStateMachine::apply of a lock command on the advisory table.
ApplyLock(tab, cmd) ==
    CASE cmd.op = "acquire" ->
            AfterAcquire(tab, cmd.path, cmd.lock_id, cmd.max_holders, cmd.ttl_secs, cmd.now_secs)
      [] cmd.op = "release" -> AfterRelease(tab, cmd.path, cmd.lock_id)
      [] cmd.op = "force" -> AfterForceRelease(tab, cmd.path)
      [] cmd.op = "extend" ->
            AfterExtend(tab, cmd.path, cmd.lock_id, cmd.ttl_secs, cmd.now_secs)

MutLockGuarded(n, i, c) ==
    /\ IF i <= last_applied[n] THEN UNCHANGED <<advisory, last_applied>>
       ELSE /\ advisory' = [advisory EXCEPT ![n] = ApplyLock(@, Command[c])]
            /\ last_applied' = [last_applied EXCEPT ![n] = i]
    /\ UNCHANGED <<meta, saved_applied>>

\* A lock command: no guard, nothing saved.
ApplyLockEntry(n, i, c) ==
    /\ advisory' = [advisory EXCEPT ![n] = ApplyLock(@, Command[c])]
    /\ last_applied' = [last_applied EXCEPT ![n] = IF i > @ THEN i ELSE @]
    /\ UNCHANGED <<meta, saved_applied>>

MutGuardForgotten(n, i, c) ==
    /\ meta' = [meta EXCEPT ![n] = IF IsMetadata(c) THEN Append(@, c) ELSE @]
    /\ saved_applied' = [saved_applied EXCEPT ![n] = i]
    /\ last_applied' = [last_applied EXCEPT ![n] = i]
    /\ UNCHANGED advisory

\* A metadata command or the empty entry: skipped if its index is not above
\* last_applied, else saved together with the index.
ApplyGuardedEntry(n, i, c) ==
    /\ IF i <= last_applied[n] THEN UNCHANGED <<meta, saved_applied, last_applied>>
       ELSE /\ meta' = [meta EXCEPT ![n] = IF IsMetadata(c) THEN Append(@, c) ELSE @]
            /\ saved_applied' = [saved_applied EXCEPT ![n] = i]
            /\ last_applied' = [last_applied EXCEPT ![n] = i]
    /\ UNCHANGED advisory

\* The caller waiting under the entry's number, whoever it is, gets the
\* result of this entry.
Resolve(n, e) ==
    IF e.call # NoCall /\ e.id \in DOMAIN pending[n]
    THEN LET w == pending[n][e.id]
         IN  /\ pending' = [pending EXCEPT ![n] = Restrict(@, DOMAIN @ \ {e.id})]
             /\ call' = IF call[w].st = "pending" /\ call[w].at = n
                        THEN [call EXCEPT ![w].st = "answered", ![w].by = e.call]
                        ELSE call
    ELSE UNCHANGED <<pending, call>>

\* The next committed entry.  The process can crash between two of them.
Apply(n) ==
    LET i == applied[n] + 1
    IN  /\ i <= commit[n]
        /\ applied' = [applied EXCEPT ![n] = i]
        /\ IF IsLock(log[n][i].call) THEN ApplyLockEntry(n, i, log[n][i].call)
           ELSE ApplyGuardedEntry(n, i, log[n][i].call)
        /\ Resolve(n, log[n][i])
        /\ UNCHANGED <<raft, proposal_id, read, restarts>>

-----------------------------------------------------------------------------
\* read_linearizable

Highest == CHOOSE i \in {commit[n] : n \in Nodes} : \A n \in Nodes : commit[n] <= i

MutReadNotParked(n, l) ==
    /\ read.st = "new"
    /\ Settled(n)
    /\ role[l] = "leader" /\ term[l] = term[n]
    /\ TermAt(l, commit[l]) = term[l]
    /\ Majority({q \in voters : term[q] = term[l]})
    /\ read' = [st |-> "done", at |-> n, must |-> Highest, index |-> commit[l]]
    /\ UNCHANGED <<raft, machine, driver, call, restarts>>

\* A read at n must see what is committed anywhere by now.  A leader that has
\* committed in its term confirms its role with a majority and answers its
\* commit index; promote_read_states compares it with last_applied.
ReadIndex(n, l) ==
    /\ read.st = "new"
    /\ Settled(n)
    /\ role[l] = "leader" /\ term[l] = term[n]
    /\ TermAt(l, commit[l]) = term[l]
    /\ Majority({q \in voters : term[q] = term[l]})
    /\ read' = [st |-> IF last_applied[n] >= commit[l] THEN "done" ELSE "parked",
                at |-> n, must |-> Highest, index |-> commit[l]]
    /\ UNCHANGED <<raft, machine, driver, call, restarts>>

\* resolve_ready_reads
ResolveRead(n) ==
    /\ read.st = "parked" /\ read.at = n
    /\ read.index <= last_applied[n]
    /\ read' = [read EXCEPT !.st = "done"]
    /\ UNCHANGED <<raft, machine, driver, call, restarts>>

-----------------------------------------------------------------------------
\* Crash and restart.

MutRestartForgetsTerm(n) ==
    /\ restarts < MaxRestarts
    /\ restarts' = restarts + 1
    /\ role' = [role EXCEPT ![n] = "follower"]
    /\ term' = [term EXCEPT ![n] = 0]
    /\ match' = [match EXCEPT ![n] = NoMatch]
    /\ commit' = [commit EXCEPT ![n] = hs_commit[n]]
    /\ applied' = [applied EXCEPT ![n] = 0]
    /\ last_applied' = [last_applied EXCEPT ![n] = saved_applied[n]]
    /\ advisory' = [advisory EXCEPT ![n] = EmptyTable(ZonePaths)]
    /\ proposal_id' = [proposal_id EXCEPT ![n] = 0]
    /\ pending' = [pending EXCEPT ![n] = <<>>]
    /\ UNCHANGED <<voters, log, hs_commit, meta, saved_applied, call, read>>

\* setup_zone: raft-rs starts as a follower with the saved hard state and
\* replays from the first index; FullStateMachine::new loads last_applied;
\* the lock table, the proposal numbers and every waiting caller are gone.
Restart(n) ==
    /\ n \in voters
    /\ restarts < MaxRestarts
    /\ restarts' = restarts + 1
    /\ role' = [role EXCEPT ![n] = "follower"]
    /\ match' = [match EXCEPT ![n] = NoMatch]
    /\ commit' = [commit EXCEPT ![n] = hs_commit[n]]
    /\ applied' = [applied EXCEPT ![n] = 0]
    /\ last_applied' = [last_applied EXCEPT ![n] = saved_applied[n]]
    /\ advisory' = [advisory EXCEPT ![n] = EmptyTable(ZonePaths)]
    /\ proposal_id' = [proposal_id EXCEPT ![n] = 0]
    /\ pending' = [pending EXCEPT ![n] = <<>>]
    /\ call' = [c \in Calls |-> IF call[c].at = n /\ call[c].st \in {"queued", "pending"}
                                THEN [call[c] EXCEPT !.st = "failed"] ELSE call[c]]
    /\ read' = IF read.at = n THEN [read EXCEPT !.st = "none"] ELSE read
    /\ UNCHANGED disk

-----------------------------------------------------------------------------
Next ==
    \/ \E n \in voters, Q \in Quorums, t \in 1 .. MaxTerm : Elect(n, Q, t)
    \/ \E l, f \in Nodes : \E k \in 0 .. LastIndex(l) : \E p \in 0 .. k : SendAppend(l, f, p, k)
    \/ \E l \in Nodes : \E i \in 1 .. LastIndex(l) : AdvanceCommit(l, i)
    \/ \E c \in Calls, n \in Nodes : Submit(c, n)
    \/ \E c \in Calls, n \in Nodes : \E l \in Nodes \cup {NoNode} : DriverPropose(c, n, l)
    \/ \E c \in Calls, n \in Nodes : DriverRefuse(c, n)
    \/ \E n \in Nodes : Apply(n)
    \/ \E n, l \in Nodes : ReadIndex(n, l)
    \/ \E n \in Nodes : ResolveRead(n)
    \/ \E n \in Nodes : Restart(n)

Spec == Init /\ [][Next]_vars

-----------------------------------------------------------------------------
\* Properties.

Entry == [term : Nat, call : Calls \cup {NoCall}, id : Nat]

TypeOK ==
    /\ voters \subseteq Nodes
    /\ \A n \in Nodes :
          /\ log[n] \in Seq(Entry)
          /\ term[n] \in 0 .. MaxTerm
          /\ hs_commit[n] <= commit[n] /\ commit[n] <= LastIndex(n)
          /\ applied[n] <= commit[n]
          /\ saved_applied[n] <= last_applied[n]
          /\ ToSet(pending[n]) \subseteq Calls
    /\ restarts \in 0 .. MaxRestarts

\* The metadata calls among the first i entries of a log, for every i.
MetadataOf(entries) ==
    LET calls[i \in 0 .. Len(entries)] ==
          IF i = 0 THEN <<>>
          ELSE IF IsMetadata(entries[i].call) THEN Append(calls[i - 1], entries[i].call)
          ELSE calls[i - 1]
    IN  calls

\* The lock table that the first i entries of a log produce, for every i.
LocksOf(entries) ==
    LET table[i \in 0 .. Len(entries)] ==
          IF i = 0 THEN EmptyTable(ZonePaths)
          ELSE IF IsLock(entries[i].call) THEN ApplyLock(table[i - 1], Command[entries[i].call])
          ELSE table[i - 1]
    IN  table

\* The tables of a node are what its log up to last_applied produces, every
\* metadata command exactly once and in order, wherever a crash came between
\* two entries and however far the saved commit index lags behind: the guard
\* and the single transaction of FullStateMachine::apply.
AppliedOnce ==
    \A n \in Nodes : meta[n] = MetadataOf(log[n])[last_applied[n]]

\* Two nodes never disagree on an entry both have applied.
ReplicasAgree ==
    \A n, m \in Nodes :
        \A i \in 1 .. (IF last_applied[n] < last_applied[m]
                       THEN last_applied[n] ELSE last_applied[m]) :
            log[n][i] = log[m][i]

\* Nodes that have handed the same entries to the state machine have the
\* same lock table, replayed after a restart or not: lock commands skip the
\* last_applied guard because a replay rebuilds the table.
LocksRebuilt ==
    \A n \in Nodes : advisory[n] = LocksOf(log[n])[applied[n]]

\* An entry that some node applied is in the log of every leader of a term
\* not older than the node's: a committed write is never lost.
CommittedStays ==
    \A n, l \in Nodes :
        role[l] = "leader" /\ term[l] >= term[n] =>
            \A i \in 1 .. last_applied[n] : i <= LastIndex(l) /\ log[l][i] = log[n][i]

\* A linearizable read sees every entry that was committed anywhere when it
\* was issued, in the tables and in the lock table.
ReadsLinearizable ==
    read.st = "done" =>
        applied[read.at] >= read.must /\ last_applied[read.at] >= read.must

\* A caller whose propose() returned a result waited until its own command
\* was committed.
AnsweredMeansCommitted ==
    \A c \in Calls :
        call[c].st = "answered" =>
            \E n \in Nodes : \E i \in 1 .. commit[n] : log[n][i].call = c
=============================================================================
