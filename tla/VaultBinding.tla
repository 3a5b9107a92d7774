---------------------------- MODULE VaultBinding ----------------------------
(***************************************************************************)
(* The claim of a Vault transit key: a KV version 2 record, created with a *)
(* compare-and-set of 0 and read back.                                     *)
(***************************************************************************)
EXTENDS ClaimCalls

VARIABLE kv  \* the record: Nil, or its owner and whether it was deleted since

vars == <<callVars, kv>>

Record == [owner : Clusters, deleted : BOOLEAN]

TypeOK == CallTypeOK /\ kv \in Record \cup {Nil}

Init == CallInit /\ kv = Nil

\* ClusterBinding has found no record: unclaimed.
Unclaimed(p) == IF call[p].wrote THEN Return(p, "unclaimed") ELSE Goto(p, "write")

\* ClusterBinding has the current value: a deleted or destroyed one is corrupt.
Parse(p) ==
  IF kv.deleted THEN Return(p, "corrupt") ELSE requireClaimOwner(p, kv.owner)

\* The reads of ClusterBinding, before and after the write: the value, then the
\* metadata if there is none, then the value again.
ReadData(p) ==
  /\ call[p].pc = "read"
  /\ IF kv = Nil THEN Goto(p, "metadata") ELSE Parse(p)
  /\ UNCHANGED <<faults, kv>>

\* Mutant of ReadMetadata: metadata without a value is taken for a deleted record.
ReadMetadataOnce(p) ==
  /\ call[p].pc = "metadata"
  /\ IF kv = Nil THEN Unclaimed(p) ELSE Return(p, "corrupt")
  /\ UNCHANGED <<faults, kv>>

ReadMetadata(p) ==
  /\ call[p].pc = "metadata"
  /\ IF kv = Nil THEN Unclaimed(p) ELSE Goto(p, "reread")
  /\ UNCHANGED <<faults, kv>>

ReadAgain(p) ==
  /\ call[p].pc = "reread"
  /\ IF kv = Nil THEN Return(p, "corrupt") ELSE Parse(p)
  /\ UNCHANGED <<faults, kv>>

ReadFails(p) ==
  /\ call[p].pc \in {"read", "metadata", "reread"}
  /\ Fault
  /\ Return(p, "unreadable")
  /\ UNCHANGED kv

\* Mutant of Write: without options.cas a write replaces the record.
WriteOver(p) ==
  /\ call[p].pc = "write"
  /\ kv' = [owner |-> call[p].id, deleted |-> FALSE]
  /\ call' = [call EXCEPT ![p].pc = "read", ![p].wrote = TRUE]
  /\ UNCHANGED <<reported, faults>>

\* The create-only write: it has an effect only when no version exists, also
\* when its answer is lost.  Only the reread says who owns the key.
Write(p) ==
  /\ call[p].pc = "write"
  /\ kv' = IF kv = Nil THEN [owner |-> call[p].id, deleted |-> FALSE] ELSE kv
  /\ call' = [call EXCEPT ![p].pc = "read", ![p].wrote = TRUE]
  /\ UNCHANGED <<reported, faults>>

\* The request never reaches Vault.
WriteFails(p) ==
  /\ call[p].pc = "write"
  /\ Fault
  /\ call' = [call EXCEPT ![p].pc = "read", ![p].wrote = TRUE]
  /\ UNCHANGED <<reported, kv>>

\* An operator deletes the current version; its metadata stays.
Delete ==
  /\ kv # Nil /\ ~kv.deleted
  /\ Fault
  /\ kv' = [kv EXCEPT !.deleted = TRUE]
  /\ UNCHANGED <<call, reported>>

Next ==
  \/ \E p \in Claimers :
       \/ \E k \in Clusters : Begin(p, k) /\ UNCHANGED kv
       \/ ReadData(p) \/ ReadMetadata(p) \/ ReadAgain(p) \/ ReadFails(p)
       \/ Write(p) \/ WriteFails(p) \/ (Crash(p) /\ UNCHANGED kv)
  \/ Delete

Spec == Init /\ [][Next]_vars
-----------------------------------------------------------------------------
owner == IF kv = Nil THEN Nil ELSE kv.owner

\* A claim that appears between the two reads of ClusterBinding is not reported
\* as corrupt: only a record that somebody deleted is.
NoFalseCorrupt ==
  (\E k \in Clusters : <<k, "corrupt">> \in reported) => kv # Nil /\ kv.deleted
=============================================================================
