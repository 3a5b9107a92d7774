----------------------------- MODULE ClaimCalls -----------------------------
(***************************************************************************)
(* Calls of KeyBackend.ClaimCluster, for several clusters and from several *)
(* processes, with the state every backend's version of it keeps.          *)
(***************************************************************************)
EXTENDS Naturals

CONSTANTS Claimers,  \* processes that claim the key, one call at a time
          Clusters, Nil,
          MaxFaults  \* bound: failed requests, crashes, outside changes

VARIABLES call,      \* claimer -> its call
          reported,  \* history: <<cluster, result>> of every call that returned
          faults

callVars == <<call, reported, faults>>

Results == {"claimed", "mismatch", "unclaimed", "corrupt", "unreadable"}

\* tries counts the rereads of a call whose write is done.
Call == [pc : {"idle", "read", "metadata", "reread", "write"},
         id : Clusters \cup {Nil}, wrote : BOOLEAN, tries : Nat]
NoCall == [pc |-> "idle", id |-> Nil, wrote |-> FALSE, tries |-> 0]

CallTypeOK ==
  /\ call \in [Claimers -> Call]
  /\ reported \subseteq Clusters \X Results
  /\ faults \in 0..MaxFaults

CallInit == call = [p \in Claimers |-> NoCall] /\ reported = {} /\ faults = 0

told == {k \in Clusters : <<k, "claimed">> \in reported}

Fault == faults < MaxFaults /\ faults' = faults + 1

\* ClaimCluster is called with a valid cluster ID.
Begin(p, k) ==
  /\ call[p].pc = "idle"
  /\ call' = [call EXCEPT ![p] = [NoCall EXCEPT !.pc = "read", !.id = k]]
  /\ UNCHANGED <<reported, faults>>

Return(p, result) ==
  /\ call' = [call EXCEPT ![p] = NoCall]
  /\ reported' = reported \cup {<<call[p].id, result>>}

\* requireClaimOwner, which ends every call that could read an owner.
requireClaimOwner(p, actual) ==
  Return(p, IF actual = call[p].id THEN "claimed" ELSE "mismatch")

Goto(p, pc) ==
  /\ call' = [call EXCEPT ![p].pc = pc]
  /\ UNCHANGED reported

\* The process dies in its call.
Crash(p) ==
  /\ call[p].pc # "idle"
  /\ Fault
  /\ call' = [call EXCEPT ![p] = NoCall]
  /\ UNCHANGED reported
=============================================================================
