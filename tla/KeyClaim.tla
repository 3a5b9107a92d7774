------------------------------ MODULE KeyClaim ------------------------------
(***************************************************************************)
(* ClaimCluster behind the KeyBackend interface: the key is of one type,   *)
(* which decides the store that keeps its claim, and whatever the type the *)
(* claim is one owner for ever.  The variables of the other types are Nil. *)
(***************************************************************************)
EXTENDS Naturals

CONSTANTS Clusters, Nil, MaxFaults,
          Claimers,                     \* callers, of the stores behind an API
          Procs, Relocating, Keys, Torn \* and of the marker file

ASSUME RelocatingAssumption == Relocating \subseteq Procs

VARIABLES type,                        \* Config.Type; "software" is PKCS#11 too
          reported, faults, call,
          kv,                          \* Vault's record
          claim, before, other, copy,  \* the cloud's label or tag
          disk, durable, lock, proc    \* the marker file

cloudVars == <<claim, before, other, copy>>
fileVars == <<disk, durable, lock, proc>>
vars == <<type, reported, faults, call, kv, cloudVars, fileVars>>

Vault == INSTANCE VaultBinding
GCP == INSTANCE CloudBinding WITH Provider <- "gcp", Attempts <- 1
AWS == INSTANCE CloudBinding WITH Provider <- "aws", Attempts <- 8
File == INSTANCE MarkerFile

ASSUME ValuesAssumption ==
  /\ MaxFaults \in Nat
  /\ Nil \notin Clusters \cup Keys \cup Procs \cup Vault!Record \cup File!Marker
  /\ Torn \notin File!Marker \cup {Nil}

NoAPI == kv = Nil /\ call = Nil
NoCloud == claim = Nil /\ before = Nil /\ other = Nil /\ copy = Nil
NoFile == disk = Nil /\ durable = Nil /\ lock = Nil /\ proc = Nil

Init ==
  \/ type = "vault" /\ Vault!Init /\ NoCloud /\ NoFile
  \/ type = "gcpkms" /\ GCP!Init /\ kv = Nil /\ NoFile
  \/ type = "awskms" /\ AWS!Init /\ kv = Nil /\ NoFile
  \/ type = "software" /\ File!Init /\ NoAPI /\ NoCloud

ClaimCluster ==
  \/ type = "vault" /\ Vault!Next /\ UNCHANGED <<cloudVars, fileVars>>
  \/ type = "gcpkms" /\ GCP!Next /\ UNCHANGED <<kv, fileVars>>
  \/ type = "awskms" /\ AWS!Next /\ UNCHANGED <<kv, fileVars>>
  \/ type = "software" /\ File!Next /\ UNCHANGED <<kv, call, cloudVars>>

Next == ClaimCluster /\ UNCHANGED type

Spec == Init /\ [][Next]_vars
-----------------------------------------------------------------------------
TypeOK ==
  CASE type = "vault" -> Vault!TypeOK
    [] type = "gcpkms" -> GCP!TypeOK
    [] type = "awskms" -> AWS!TypeOK
    [] OTHER -> File!TypeOK

owner == CASE type = "vault" -> Vault!owner
           [] type = "software" -> File!owner
           [] OTHER -> claim

told == IF type = "software" THEN File!told ELSE Vault!told

Ownership == INSTANCE KeyOwnership

\* Whatever keeps the claim, ClaimCluster implements one owner for ever, of whom
\* alone it reports success: racing claimers, lost answers, stale reads, crashes
\* and power losses included; for the cloud types if claims are serialized.
OneOwner == []TypeOK /\ Ownership!Spec

\* A claim that appears between the two reads of Vault's ClusterBinding is not
\* reported as corrupt: only a record that somebody deleted is.
NoFalseCorrupt == type = "vault" => Vault!NoFalseCorrupt

\* Once a claim under the lock of the key file has succeeded, no provision
\* replaces the key, and no power loss brings another back.
ClaimedKeyStays == type = "software" => File!ClaimedKeyStays
=============================================================================
