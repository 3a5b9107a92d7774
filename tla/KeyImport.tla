----------------------------- MODULE KeyImport -----------------------------
(***************************************************************************)
(* `cosmosigner import` and `provision`: the type of the backend decides   *)
(* which of the three sequences of requests runs.  The variables of the    *)
(* other types are None.                                                   *)
(***************************************************************************)
EXTENDS Naturals, Sequences

CONSTANTS None,
          Importers, Signers, Keys, MaxVersions, MaxCalls,       \* vault
          Commands, Sources,                                     \* both clouds
          Alias, Attempts, MaxDeletes,                           \* awskms
          Levels, FreshKey                                       \* gcpkms

VARIABLES type,
          transit, minimum, imp, signer, reported, signed, calls,
          cmd,
          keys, alias, ready, pending, named, deletes,
          ring, key, job, versions, verified, created

vaultVars == <<transit, minimum, imp, signer, reported, signed, calls>>
awsVars == <<keys, alias, ready, pending, named, deletes>>
gcpVars == <<ring, key, job, versions, verified, created>>
importVars == <<type, cmd, vaultVars, awsVars, gcpVars>>

Vault == INSTANCE VaultTransit WITH Nil <- None
AWS == INSTANCE AWSImport WITH Nil <- None
GCP == INSTANCE GCPImport WITH Nil <- None

ASSUME VaultImportAssumption == MaxVersions \in Nat \ {0} /\ MaxCalls \in Nat
ASSUME AWSImportAssumption ==
  None \notin Sources /\ Attempts \in Nat \ {0} /\ MaxDeletes \in Nat
ASSUME GCPImportAssumption == None \notin GCP!Key \cup GCP!Job

NoVault == /\ transit = None /\ minimum = None /\ imp = None /\ signer = None
           /\ reported = None /\ signed = None /\ calls = None
NoAWS == /\ keys = None /\ alias = None /\ ready = None /\ pending = None
         /\ named = None /\ deletes = None
NoGCP == /\ ring = None /\ key = None /\ job = None /\ versions = None
         /\ verified = None /\ created = None

ImportInit ==
  \/ type = "vault" /\ Vault!Init /\ cmd = None /\ NoAWS /\ NoGCP
  \/ type = "awskms" /\ AWS!Init /\ NoVault /\ NoGCP
  \/ type = "gcpkms" /\ GCP!Init /\ NoVault /\ NoAWS

\* A step of a command, or of the store, of that type.
IsVault(step) == type = "vault" /\ step /\ UNCHANGED <<type, cmd, awsVars, gcpVars>>
IsAWS(step) == type = "awskms" /\ step /\ UNCHANGED <<type, vaultVars, gcpVars>>
IsGCP(step) == type = "gcpkms" /\ step /\ UNCHANGED <<type, vaultVars, awsVars>>

ImportNext == IsVault(Vault!Next) \/ IsAWS(AWS!Next) \/ IsGCP(GCP!Next)

ImportSpec == ImportInit /\ [][ImportNext]_importVars

\* A command that was started runs on: each call returns, if only with an error.
\* Cloud KMS generates the key of an import job; versions may stay pending.
FairImportSpec ==
  /\ ImportSpec
  /\ \A i \in Importers : WF_importVars(IsVault(Vault!Step(i)))
  /\ \A c \in Commands : WF_importVars(IsAWS(AWS!Step(c))) /\ WF_importVars(IsGCP(GCP!Step(c)))
  /\ WF_importVars(IsGCP(GCP!JobActive))
-----------------------------------------------------------------------------
\* An import that reported a verified identity has left the private key in Vault,
\* in some version: racing creators, public-only versions and rotations between its
\* steps never make it say so of a key whose private half is in none
\* (VaultImportKey, verifyImportedKey).
\* And whatever is rotated, every signature is made with the key that the backend
\* announces (the version pinned in NewVault).
VaultKeyAsSaid ==
  type = "vault" =>
    /\ Vault!TypeOK
    /\ \A k \in reported : \E v \in DOMAIN transit :
         transit[v] = [key |-> k, private |-> TRUE]
    /\ \A s \in signed : s[1] = s[2]

\* A key that an AWS command reports, verified or only accepted, has the identity
\* of the command's source file, whatever other commands import into the same key
\* (AWSImportKey's ready, and its keyARN with no error).  If it was imported
\* through the alias, the alias names it: two first imports never leave it naming
\* the other's key.
ReportedIsSource ==
  type = "awskms" =>
    /\ AWS!TypeOK
    /\ \A r \in ready \cup pending :
         /\ r[2] \in DOMAIN keys /\ keys[r[2]].identity = r[3]
         /\ cmd[r[1]].target = Alias => r[2] = alias

\* No AWS key whose creation was answered is lost: a command never creates a second
\* one (CreateKey "not retried"), and names the one it was told of before it ends, in
\* its report or in its error (the deferred error of AWSImportKey).  A lost answer
\* and a crash of the command are outside it.
CreatedIsNamed ==
  type = "awskms" =>
    /\ \A m, n \in DOMAIN keys : keys[m].by = keys[n].by => m = n
    /\ \A c \in Commands : cmd[c].pc = "done" /\ cmd[c].arn # 0 =>
         \/ <<c, cmd[c].arn>> \in named
         \/ \E r \in ready \cup pending : r[1] = c /\ r[2] = cmd[c].arn
         \/ keys[cmd[c].arn].by # c

\* A version is imported only into a GCP key for validators, at the level its
\* command asked for, whoever created the key and the job (the level of the
\* version is the job's, that of the key its template's: ensureImportCryptoKey,
\* ensureImportJob).  At most one provision reports the key as generated by it,
\* and then the first version is (an existing CryptoKey is never adopted).
CreatedAsAsked ==
  type = "gcpkms" =>
    /\ GCP!TypeOK
    /\ \A c \in Commands : cmd[c].source # None /\ cmd[c].version # 0 =>
         /\ key.fits /\ key.level = cmd[c].level
         /\ versions[cmd[c].version].level = cmd[c].level
         /\ versions[cmd[c].version].identity = cmd[c].source
         /\ \A r \in verified : versions[r[1]].identity = r[2]
    /\ \A c \in created :
         /\ \A d \in created : c = d
         /\ versions # <<>> /\ versions[1].identity = FreshKey
         /\ versions[1].level = cmd[c].level

\* Every import and provision ends, also when an AWS key never becomes visible or
\* Cloud KMS never finishes an import (the attempts of awsImportParameters, the
\* deadline of waitVersionEnabled).
CommandEnds ==
  /\ \A c \in Commands :
       type # "vault" /\ cmd[c].pc # "idle" ~> type = "vault" \/ cmd[c].pc = "done"
  /\ \A i \in Importers :
       type = "vault" /\ imp[i].pc # "idle" ~> type # "vault" \/ imp[i].pc = "idle"
=============================================================================
