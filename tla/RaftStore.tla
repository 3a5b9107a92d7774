----------------------------- MODULE RaftStore -----------------------------
(***************************************************************************)
(* The raft-backed store of internal/state/raftstore.go on every replica   *)
(* of a cluster.  hashicorp/raft itself is external: it is modelled by     *)
(* what the store relies on.                                               *)
(*   - There is one committed log.  Every replica applies it in order.     *)
(*   - A command handed to raft.Apply enters the log at most once, at any  *)
(*     later time, or never.                                               *)
(*   - The future of a command yields the state machine's answer at the    *)
(*     command's place in the log, or an error that says nothing about     *)
(*     whether the command was or will be committed.                       *)
(*   - Several replicas may report the leader role at once: a deposed      *)
(*     leader reports it until it notices.                                 *)
(*   - The log and the snapshots survive a restart; nothing else does.     *)
(***************************************************************************)
EXTENDS HighWaterMark, Sequences

CONSTANTS Replicas,      \* the members of the raft cluster
          Callers,       \* goroutines that call the store
          LegacyMarks,   \* marks a cluster upgraded from the legacy format may start with
          SnapshotThreshold,  \* raft's: entries applied since the last snapshot
          MaxProposals,  \* bound: commands handed to raft in one behaviour
          MaxFaults      \* bound: lost leaderships, crashes and failed calls in one behaviour

ASSUME StoreAssumption == /\ LegacyMarks \subseteq SignState
                          /\ SnapshotThreshold \in Nat \ {0}
                          /\ MaxProposals \in Nat /\ MaxFaults \in Nat
                          /\ Nil \notin Replicas

VARIABLES log,      \* committed entries
          states,   \* history: states[i] is the machine after i committed entries
          pending,  \* entries handed to raft and not committed (yet)
          nextID,   \* number of the next entry
          applied,  \* replica -> how much of the log its machine has applied
          fsm,      \* replica -> its machine
          role,     \* replica -> what raft.State() reports
          snap,     \* replica -> its newest snapshot and the index it covers
          future,   \* caller -> the ApplyFuture it waits on
          faults    \* lost leaderships, crashes and failed calls so far

storeVars == <<log, states, pending, nextID, applied, fsm, role, snap, future,
               faults>>

Entry == [id : Nat, cmd : Command]

Future == [st : {"none", "wait", "ok", "err"}, node : Replicas \cup {Nil},
           id : Nat, res : applyResult \cup {Nil}]
NoFuture == [st |-> "none", node |-> Nil, id |-> 0, res |-> Nil]

Committed == states[Len(log)]

StoreInit ==
  /\ \E marks \in [Chains -> LegacyMarks \cup {Nil}] :
       LET base == [newFSM EXCEPT !.state = marks]
       IN  /\ \A c \in Chains : marks[c] # Nil => IsMark(c, marks[c])
           /\ states = [i \in {0} |-> base]
           /\ fsm = [n \in Replicas |-> Restore(newFSM, LegacySnapshot(base))]
           /\ snap = [n \in Replicas |-> [index |-> 0, data |-> LegacySnapshot(base)]]
  /\ log = <<>>
  /\ pending = {}
  /\ nextID = 1
  /\ applied = [n \in Replicas |-> 0]
  /\ role = [n \in Replicas |-> "follower"]
  /\ future = [c \in Callers |-> NoFuture]
  /\ faults = 0
-----------------------------------------------------------------------------
(* raftStore.apply, called by Reserve, Commit and EnsureClusterID after    *)
(* their leadership check.  The command is handed to raft; the answer is   *)
(* read from the future.  A call that raft refuses at once (ErrNotLeader,  *)
(* ErrEnqueueTimeout) leaves the store as it is.                           *)

apply(c, n, cmd) ==
  /\ role[n] = "leader"
  /\ nextID <= MaxProposals
  /\ pending' = pending \cup {[id |-> nextID, cmd |-> cmd]}
  /\ nextID' = nextID + 1
  /\ future' = [future EXCEPT ![c] = [st |-> "wait", node |-> n, id |-> nextID, res |-> Nil]]
  /\ UNCHANGED <<log, states, applied, fsm, role, snap, faults>>

Fault == faults < MaxFaults /\ faults' = faults + 1

\* The caller has read the outcome of its future.
Collect(c) ==
  /\ future' = [future EXCEPT ![c] = NoFuture]
  /\ UNCHANGED <<log, states, pending, nextID, applied, fsm, role, snap>>

Succeeded(c) == future[c].st = "ok" /\ future[c].res.err = Nil

\* Mutant of Refused: the error of the future is not looked at.
RefusedByFSM(c) == future[c].st = "ok" /\ future[c].res.err # Nil

Refused(c) == future[c].st = "err" \/ (future[c].st = "ok" /\ future[c].res.err # Nil)
WaitingAt(n) == {c \in Callers : future[c].st = "wait" /\ future[c].node = n}
-----------------------------------------------------------------------------
(* Steps of raft.                                                          *)

AppendCommitted(e) ==
  /\ pending' = pending \ {e}
  /\ log' = Append(log, e)
  /\ states' = [i \in 0..Len(log) + 1 |->
                  IF i <= Len(log) THEN states[i] ELSE Apply(Committed, e.cmd).fsm]
  /\ UNCHANGED <<nextID, applied, fsm, role, snap, future, faults>>

CommitEntry == \E e \in pending : AppendCommitted(e)

\* The replica's machine applies its next entry.  A caller on this replica that
\* waits for the entry gets the answer.
ApplyEntry(n) ==
  /\ applied[n] < Len(log)
  /\ LET e   == log[applied[n] + 1]
         out == Apply(fsm[n], e.cmd)
     IN  /\ fsm' = [fsm EXCEPT ![n] = out.fsm]
         /\ future' = [c \in Callers |->
                         IF c \in WaitingAt(n) /\ future[c].id = e.id
                         THEN [future[c] EXCEPT !.st = "ok", !.res = out.res]
                         ELSE future[c]]
  /\ applied' = [applied EXCEPT ![n] = @ + 1]
  /\ UNCHANGED <<log, states, pending, nextID, role, snap, faults>>

BecomeLeader(n) ==
  /\ role[n] # "leader"
  /\ role' = [role EXCEPT ![n] = "leader"]
  /\ UNCHANGED <<log, states, pending, nextID, applied, fsm, snap, future, faults>>

\* Losing the lead fails every future whose entry this replica does not know to
\* be committed (ErrLeadershipLost), whatever becomes of the entry.
StepDown(n) ==
  /\ Fault
  /\ role[n] = "leader"
  /\ role' = [role EXCEPT ![n] = "follower"]
  /\ LET inFlight == {c \in WaitingAt(n) : \E e \in pending : e.id = future[c].id}
     IN  \E lost \in {S \in SUBSET WaitingAt(n) : inFlight \subseteq S} :
           future' = [c \in Callers |->
                        IF c \in lost THEN [future[c] EXCEPT !.st = "err"] ELSE future[c]]
  /\ UNCHANGED <<log, states, pending, nextID, applied, fsm, snap>>

TakeSnapshot(n) ==
  /\ applied[n] - snap[n].index >= SnapshotThreshold
  /\ snap' = [snap EXCEPT ![n] = [index |-> applied[n], data |-> Snapshot(fsm[n])]]
  /\ UNCHANGED <<log, states, pending, nextID, applied, fsm, role, future, faults>>

\* A replica that lags behind a snapshot of another one is sent the snapshot
\* instead of the entries.  raft applies what it had queued first.
InstallSnapshot(n, m) ==
  /\ role[n] # "leader"
  /\ snap[m].index > applied[n]
  /\ WaitingAt(n) = {}
  /\ RestoreAccepts(fsm[n], snap[m].data)
  /\ fsm' = [fsm EXCEPT ![n] = Restore(fsm[n], snap[m].data)]
  /\ applied' = [applied EXCEPT ![n] = snap[m].index]
  /\ snap' = [snap EXCEPT ![n] = snap[m]]
  /\ UNCHANGED <<log, states, pending, nextID, role, future, faults>>

\* Mutant of Restart: the entries after the snapshot are not replayed.
RestartWithoutReplay(n) ==
  /\ Fault
  /\ role' = [role EXCEPT ![n] = "follower"]
  /\ fsm' = [fsm EXCEPT ![n] = Restore(newFSM, snap[n].data)]
  /\ future' = [c \in Callers |-> IF future[c].node = n THEN NoFuture ELSE future[c]]
  /\ UNCHANGED <<log, states, pending, nextID, applied, snap>>

\* The process dies and comes back: NewRaftStoreContext builds an empty machine
\* and raft restores the newest snapshot into it.
Restart(n) ==
  /\ Fault
  /\ role' = [role EXCEPT ![n] = "follower"]
  /\ fsm' = [fsm EXCEPT ![n] = Restore(newFSM, snap[n].data)]
  /\ applied' = [applied EXCEPT ![n] = snap[n].index]
  /\ future' = [c \in Callers |-> IF future[c].node = n THEN NoFuture ELSE future[c]]
  /\ UNCHANGED <<log, states, pending, nextID, snap>>

RaftStep ==
  \/ CommitEntry
  \/ \E n \in Replicas : ApplyEntry(n) \/ BecomeLeader(n) \/ StepDown(n) \/ TakeSnapshot(n)
  \/ \E n, m \in Replicas : InstallSnapshot(n, m)

\* What raft is sure to do: commit an entry whose leader stays in office, and
\* elect a leader when there is none.
RaftProgress ==
  \/ \E e \in pending : /\ \E c \in Callers : future[c].st = "wait" /\ future[c].id = e.id
                        /\ AppendCommitted(e)
  \/ \E n \in Replicas : (\A m \in Replicas : role[m] # "leader") /\ BecomeLeader(n)
-----------------------------------------------------------------------------
(* Properties of the store, whoever calls it.                              *)

StoreTypeOK ==
  /\ log \in Seq(Entry)
  /\ states \in [0..Len(log) -> FSM]
  /\ pending \subseteq Entry
  /\ nextID \in Nat /\ faults \in Nat
  /\ applied \in [Replicas -> 0..Len(log)]
  /\ fsm \in [Replicas -> FSM]
  /\ role \in [Replicas -> {"leader", "follower"}]
  /\ DOMAIN snap = Replicas
  /\ \A n \in Replicas : snap[n].index \in 0..Len(log)
  /\ future \in [Callers -> Future]

\* Every replica's machine is what the committed log up to its applied index
\* produces, whether it got there by applying entries, by a snapshot of another
\* replica or by a restart (fsm.Apply, Snapshot, Restore).
ReplicasFollowLog ==
  \A n \in Replicas : fsm[n] = states[applied[n]]

\* fsm.Restore never refuses a snapshot raft sends to a lagging replica: the
\* identity check at snapshot.go:82 stops foreign snapshots only.
OwnSnapshotsAccepted ==
  \A n, m \in Replicas :
    snap[m].index >= applied[n] => RestoreAccepts(fsm[n], snap[m].data)

\* The committed mark of a chain never moves back, never changes its bytes in
\* place and never loses or swaps a recorded signature (applyReserve,
\* applyCommit), over any number of leaders, restarts and snapshots.
MarksOnlyAdvance ==
  \A i, j \in 0..Len(log) : i <= j =>
    \A c \in Chains : MarkFollows(states[i].state[c], states[j].state[c])

\* The replicated machine is consistent: replicas follow the log, and what the
\* log says of a chain only advances.
StoreConsistent == ReplicasFollowLog /\ MarksOnlyAdvance
=============================================================================
