---------------------------- MODULE CloudBinding ----------------------------
(***************************************************************************)
(* The claim of a cloud key: a label of a GCP CryptoKey or a tag of an AWS *)
(* KMS key, written without any precondition and read back.  AWS reads may *)
(* be stale.  The documentation asks for claims that are serialized from   *)
(* outside.                                                                *)
(***************************************************************************)
EXTENDS ClaimCalls

CONSTANTS Provider,   \* "gcp" or "aws"
          Attempts    \* awsConsistencyAttempts; GCP reads back once

VARIABLES claim,   \* the claim label or tag: its cluster, or Nil
          before,  \* what a stale read still sees of it
          other,   \* the unrelated labels of the key
          copy     \* claimer -> the unrelated labels it has read

cloudVars == <<claim, before, other, copy>>
vars == <<callVars, cloudVars>>

TypeOK ==
  /\ CallTypeOK
  /\ {claim, before} \subseteq Clusters \cup {Nil}
  /\ other \in 0..MaxFaults /\ copy \in [Claimers -> 0..MaxFaults]

Init ==
  /\ CallInit
  /\ claim = Nil /\ before = Nil /\ other = 0
  /\ copy = [p \in Claimers |-> 0]

\* The procedure of the documentation: claims are serialized, and another owner's
\* claim has had the time to become visible.
MayBegin(k) == /\ \A q \in Claimers : call[q].pc = "idle"
               /\ before # claim => claim = k

\* What ClusterBinding may read.
Readable == IF Provider = "aws" THEN {claim, before} ELSE {claim}

\* Mutant of Read: a binding that cannot be read is claimed as if it were free.
ReadOrWrite(p) ==
  /\ call[p].pc = "read" /\ ~call[p].wrote
  /\ \/ /\ UNCHANGED faults
        /\ \E seen \in Readable :
             IF seen = Nil THEN Goto(p, "write") ELSE requireClaimOwner(p, seen)
     \/ Fault /\ Goto(p, "write")
  /\ copy' = [copy EXCEPT ![p] = other]
  /\ UNCHANGED <<claim, before, other>>

\* The first read of ClaimCluster.
Read(p) ==
  /\ call[p].pc = "read" /\ ~call[p].wrote
  /\ \/ /\ UNCHANGED faults
        /\ \E seen \in Readable :
             IF seen = Nil THEN Goto(p, "write") ELSE requireClaimOwner(p, seen)
     \/ Fault /\ Return(p, "unreadable")
  /\ copy' = [copy EXCEPT ![p] = other]
  /\ UNCHANGED <<claim, before, other>>

\* UpdateCryptoKey sends all labels as they were read, with the claim added;
\* TagResource sends the one tag.  If the request fails the call ends, whether
\* or not it had an effect.
Write(p) ==
  /\ call[p].pc = "write"
  /\ \/ Fault /\ UNCHANGED cloudVars
     \/ /\ claim' = call[p].id /\ before' = claim
        /\ other' = IF Provider = "gcp" THEN copy[p] ELSE other
        /\ UNCHANGED copy
        /\ Fault \/ UNCHANGED faults
  /\ IF faults' # faults THEN Return(p, "unreadable")
     ELSE /\ call' = [call EXCEPT ![p].pc = "read", ![p].wrote = TRUE]
          /\ UNCHANGED reported

\* A read after the write: AWS tries again while the claim is not visible.
ReadBack(p) ==
  /\ call[p].pc = "read" /\ call[p].wrote
  /\ \/ /\ UNCHANGED faults
        /\ \E seen \in Readable :
             \/ seen # Nil /\ requireClaimOwner(p, seen)
             \/ seen = Nil /\ call[p].tries + 1 = Attempts /\ Return(p, "unclaimed")
             \/ /\ seen = Nil /\ call[p].tries + 1 < Attempts
                /\ call' = [call EXCEPT ![p].tries = @ + 1]
                /\ UNCHANGED reported
     \/ Fault /\ Return(p, "unreadable")
  /\ UNCHANGED cloudVars

\* The write reaches every reader.
Settle == before # claim /\ before' = claim /\ UNCHANGED <<callVars, claim, other, copy>>

\* Somebody edits an unrelated label.
EditOther ==
  /\ Fault
  /\ other' = other + 1
  /\ UNCHANGED <<call, reported, claim, before, copy>>

Next ==
  \/ \E p \in Claimers :
       \/ \E k \in Clusters : MayBegin(k) /\ Begin(p, k) /\ UNCHANGED cloudVars
       \/ Read(p) \/ Write(p) \/ ReadBack(p)
       \/ Crash(p) /\ UNCHANGED cloudVars
  \/ Settle \/ EditOther

Spec == Init /\ [][Next]_vars
-----------------------------------------------------------------------------
owner == claim

\* A claim preserves the unrelated labels of the key, whoever edits them meanwhile
\* (ClaimCluster sends the whole map of labels it has read).
OtherLabelsKept == [][other' >= other]_vars
=============================================================================
