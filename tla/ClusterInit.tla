---------------------------- MODULE ClusterInit ----------------------------
(***************************************************************************)
(* How a cluster gets its identity: every replica, at start, runs          *)
(* raftStore.EnsureClusterID until it has an answer.  Whoever leads        *)
(* proposes an identity of its own; the first one committed stays.         *)
(***************************************************************************)
EXTENDS RaftStore

ASSUME OneCallPerReplica == Callers = Replicas

VARIABLES ensure,    \* replica -> its EnsureClusterID call
          returned   \* history: <<replica, identity>> for every call that returned

identityVars == <<storeVars, ensure, returned>>

Ensure == [pc : {"loop", "apply", "done"}, candidate : ClusterIDs \cup {Nil}]
Starting == [pc |-> "loop", candidate |-> Nil]

\* clusterid.New: a random version 4 UUID, taken to be different from all others.
Fresh == ClusterIDs \ ( {e.cmd.clusterID : e \in pending}
                   \cup {log[i].cmd.clusterID : i \in 1..Len(log)}
                   \cup {ensure[n].candidate : n \in Replicas} )

IdentityInit ==
  /\ StoreInit
  /\ ensure = [n \in Replicas |-> Starting]
  /\ returned = {}
-----------------------------------------------------------------------------
Return(n, id) ==
  /\ ensure' = [ensure EXCEPT ![n].pc = "done"]
  /\ returned' = returned \cup {<<n, id>>}

\* Mutant of ReturnLocal: only the leader looks at its machine.
ReturnLocalLeader(n) ==
  /\ ensure[n].pc = "loop" /\ role[n] = "leader"
  /\ fsm[n].clusterID # Nil
  /\ Return(n, fsm[n].clusterID)
  /\ UNCHANGED storeVars

\* The local machine already knows the identity.
ReturnLocal(n) ==
  /\ ensure[n].pc = "loop"
  /\ fsm[n].clusterID # Nil
  /\ Return(n, fsm[n].clusterID)
  /\ UNCHANGED storeVars

\* On the leader: propose the candidate, the same one on every attempt.
Propose(n) ==
  /\ ensure[n].pc = "loop"
  /\ fsm[n].clusterID = Nil
  /\ \E id \in IF ensure[n].candidate = Nil THEN Fresh ELSE {ensure[n].candidate} :
       /\ apply(n, n, [op |-> "init_cluster", clusterID |-> id])
       /\ ensure' = [ensure EXCEPT ![n] = [pc |-> "apply", candidate |-> id]]
  /\ UNCHANGED returned

\* Mutant of ReturnApplied: the caller's own candidate is returned.
ReturnCandidate(n) ==
  /\ ensure[n].pc = "apply" /\ Succeeded(n)
  /\ Collect(n)
  /\ Return(n, ensure[n].candidate)
  /\ UNCHANGED faults

\* The answer names the identity that was committed first.
ReturnApplied(n) ==
  /\ ensure[n].pc = "apply" /\ Succeeded(n)
  /\ Collect(n)
  /\ Return(n, future[n].res.clusterID)
  /\ UNCHANGED faults

\* ErrLeadershipLost and the like: try again after the tick.
Retry(n) ==
  /\ ensure[n].pc = "apply" /\ Refused(n)
  /\ Collect(n)
  /\ ensure' = [ensure EXCEPT ![n].pc = "loop"]
  /\ UNCHANGED <<returned, faults>>

\* The process dies, or gives up because its start timeout expired, and is
\* started again.
RestartReplica(n) ==
  /\ Restart(n)
  /\ ensure' = [ensure EXCEPT ![n] = Starting]
  /\ UNCHANGED returned

EnsureStep(n) == ReturnLocal(n) \/ Propose(n) \/ ReturnApplied(n) \/ Retry(n)

IdentityNext ==
  \/ \E n \in Replicas : EnsureStep(n) \/ RestartReplica(n)
  \/ RaftStep /\ UNCHANGED <<ensure, returned>>

IdentitySpec == IdentityInit /\ [][IdentityNext]_identityVars

\* What the runtime and raft provide: goroutines run, a cluster without a leader
\* elects one, an entry whose leader stays in office is committed and applied.
\* Faults are finite in number (MaxFaults).
IdentityFairness ==
  /\ \A n \in Replicas : WF_identityVars(EnsureStep(n))
  /\ WF_identityVars(RaftProgress /\ UNCHANGED <<ensure, returned>>)
  /\ \A n \in Replicas : WF_identityVars(ApplyEntry(n) /\ UNCHANGED <<ensure, returned>>)

FairIdentitySpec == IdentitySpec /\ IdentityFairness
-----------------------------------------------------------------------------
IdentityTypeOK ==
  /\ StoreTypeOK
  /\ ensure \in [Replicas -> Ensure]
  /\ returned \subseteq Replicas \X ClusterIDs

\* Whatever identity EnsureClusterID ever returned, to any replica, before or
\* after a restart, is the committed one: two leaders that propose different
\* candidates, or a candidate whose outcome was unknown and that is committed
\* late, never leave two replicas with different identities.
IdentityAgreed ==
  IdentityTypeOK /\ \A r \in returned : r[2] = Committed.clusterID

\* Every replica gets its answer, on a follower through its own machine
\* (the loop of EnsureClusterID).
EveryReplicaGetsIdentity ==
  \A n \in Replicas : <>[](ensure[n].pc = "done")
=============================================================================
