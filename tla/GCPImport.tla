----------------------------- MODULE GCPImport ------------------------------
(***************************************************************************)
(* `import` and `provision` with --backend gcpkms: commands, of different  *)
(* operators and protection levels, that name the same key ring, crypto    *)
(* key and import job.  Resources are read first and created when missing, *)
(* so that the commands race for each of them.                             *)
(***************************************************************************)
EXTENDS Naturals, Sequences

CONSTANTS Commands, \* the commands, each run once
          Sources,  \* the key files' identities
          Levels,   \* protection levels
          FreshKey,    \* an identity that KMS generates
          Nil

VARIABLES ring,     \* the key ring exists
          key,      \* the crypto key, [fits, level], or Nil; fits: purpose and
                    \* algorithm are those of a validator key
          job,      \* the import job, [direct, level, state], or Nil; direct: a
                    \* method this import's wrapping matches
          versions, \* the key's versions, [identity, level, state]
          cmd,      \* command -> its state
          verified, \* history: <<version, source>> reported verified
          created   \* history: the provisions that reported a new key

vars == <<ring, key, job, versions, cmd, verified, created>>

Key == [fits : BOOLEAN, level : Levels]
Job == [direct : BOOLEAN, level : Levels, state : {"generating", "active", "expired"}]
Version == [identity : Sources \cup {FreshKey}, level : Levels,
            state : {"pending", "enabled", "failed"}]
Command == [pc : {"idle", "getKey", "getRing", "makeRing", "makeKey", "regetKey", "getJob",
                  "makeJob", "waitJob", "import", "waitVersion", "verify", "done"},
            provision : BOOLEAN, source : Sources \cup {Nil}, level : Levels, version : Nat]

TypeOK ==
  /\ ring \in BOOLEAN /\ key \in Key \cup {Nil} /\ job \in Job \cup {Nil}
  /\ versions \in Seq(Version)
  /\ cmd \in [Commands -> Command]
  /\ \A c \in Commands : cmd[c].version \in 0..Len(versions)
  /\ created \subseteq Commands

\* The key and the job may be there already, made by other tools.
Init ==
  /\ ring \in BOOLEAN
  /\ key \in IF ring THEN Key \cup {Nil} ELSE {Nil}
  /\ job \in IF ring THEN Job \cup {Nil} ELSE {Nil}
  /\ versions = <<>>
  /\ cmd \in [Commands -> [pc : {"idle"}, provision : {FALSE}, source : {Nil},
                           level : Levels, version : {0}]]
  /\ verified = {} /\ created = {}

At(c, pc) == cmd[c].pc = pc
Goto(c, pc) == cmd' = [cmd EXCEPT ![c].pc = pc]
Fail(c) == Goto(c, "done")
Kms == UNCHANGED <<ring, key, job, versions>>
Quiet == UNCHANGED <<verified, created>>
-----------------------------------------------------------------------------
Import(c, k) ==
  /\ At(c, "idle")
  /\ cmd' = [cmd EXCEPT ![c].pc = "getKey", ![c].source = k]
  /\ Kms /\ Quiet

Provision(c) ==
  /\ At(c, "idle")
  /\ cmd' = [cmd EXCEPT ![c].pc = "getRing", ![c].provision = TRUE]
  /\ Kms /\ Quiet

checkImportCryptoKey(c) == key.fits /\ key.level = cmd[c].level

\* ensureImportCryptoKey: an existing key must fit, a missing one is created.
ensureImportCryptoKey(c) ==
  /\ At(c, "getKey")
  /\ \/ key = Nil /\ Goto(c, "getRing")
     \/ key # Nil /\ checkImportCryptoKey(c) /\ Goto(c, "getJob")
     \/ Fail(c)
  /\ Kms /\ Quiet

\* ensureKeyRing, in two calls; a ring made meanwhile is as good.
GetKeyRing(c) ==
  /\ At(c, "getRing")
  /\ Goto(c, IF ring THEN "makeKey" ELSE "makeRing") \/ Fail(c)
  /\ Kms /\ Quiet
CreateKeyRing(c) ==
  /\ At(c, "makeRing")
  /\ \/ ring' = TRUE /\ (Goto(c, "makeKey") \/ Fail(c))
     \/ UNCHANGED ring /\ Fail(c)
  /\ UNCHANGED <<key, job, versions>> /\ Quiet

Generated(c) == [identity |-> FreshKey, level |-> cmd[c].level, state |-> "enabled"]

\* Mutants of CreateCryptoKey: a key that exists is adopted, by an import
\* unseen, and by a provision as its own.
CreateCryptoKeyUnchecked(c) ==
  /\ At(c, "makeKey")
  /\ key' = IF key = Nil THEN [fits |-> TRUE, level |-> cmd[c].level] ELSE key
  /\ Goto(c, IF cmd[c].provision THEN "done" ELSE "getJob")
  /\ UNCHANGED <<ring, job, versions>> /\ Quiet
CreateCryptoKeyAdopted(c) ==
  /\ At(c, "makeKey")
  /\ key' = IF key = Nil THEN [fits |-> TRUE, level |-> cmd[c].level] ELSE key
  /\ versions' = IF key = Nil THEN Append(versions, Generated(c)) ELSE versions
  /\ Goto(c, IF cmd[c].provision THEN "done" ELSE "regetKey")
  /\ created' = IF cmd[c].provision THEN created \cup {c} ELSE created
  /\ UNCHANGED <<ring, job, verified>>

\* CreateCryptoKey: a provision wants a new key with a first version; an import
\* wants one with none, and looks at a key that another command made meanwhile.
CreateCryptoKey(c) ==
  /\ At(c, "makeKey")
  /\ \/ /\ key = Nil /\ key' = [fits |-> TRUE, level |-> cmd[c].level]
        /\ versions' = IF cmd[c].provision THEN Append(versions, Generated(c)) ELSE versions
        /\ \/ /\ Goto(c, IF cmd[c].provision THEN "done" ELSE "getJob")
              /\ created' = IF cmd[c].provision THEN created \cup {c} ELSE created
           \/ Fail(c) /\ UNCHANGED created
     \/ /\ key # Nil /\ ~cmd[c].provision /\ Goto(c, "regetKey")
        /\ UNCHANGED <<key, versions, created>>
     \/ Fail(c) /\ UNCHANGED <<key, versions, created>>
  /\ UNCHANGED <<ring, job, verified>>

RegetKey(c) ==
  /\ At(c, "regetKey")
  /\ (checkImportCryptoKey(c) /\ Goto(c, "getJob")) \/ Fail(c)
  /\ Kms /\ Quiet

\* ensureImportJob: reuse the job or create it, wait, and then check it.
GetImportJob(c) ==
  /\ At(c, "getJob")
  /\ Goto(c, IF job = Nil THEN "makeJob" ELSE "waitJob") \/ Fail(c)
  /\ Kms /\ Quiet
CreateImportJob(c) ==
  /\ At(c, "makeJob")
  /\ \/ /\ job' = IF job = Nil
                  THEN [direct |-> TRUE, level |-> cmd[c].level, state |-> "generating"]
                  ELSE job
        /\ Goto(c, "waitJob") \/ Fail(c)
     \/ UNCHANGED job /\ Fail(c)
  /\ UNCHANGED <<ring, key, versions>> /\ Quiet

waitImportJobActive(c) ==
  /\ At(c, "waitJob")
  /\ \/ /\ job.state = "active" /\ job.direct /\ job.level = cmd[c].level
        /\ Goto(c, "import")
     \/ job.state # "generating" /\ Fail(c)
  /\ Kms /\ Quiet

\* ImportCryptoKeyVersion appends a version; a job may have expired since.
ImportCryptoKeyVersion(c) ==
  /\ At(c, "import")
  /\ \/ /\ job.state = "active"
        /\ versions' = Append(versions, [identity |-> cmd[c].source, level |-> job.level,
                                         state |-> "pending"])
        /\ \/ cmd' = [cmd EXCEPT ![c].pc = "waitVersion", ![c].version = Len(versions) + 1]
           \/ Fail(c)
     \/ UNCHANGED versions /\ Fail(c)
  /\ UNCHANGED <<ring, key, job>> /\ Quiet

\* Mutant of waitVersionEnabled: no deadline.
waitVersionEnabledForever(c) ==
  /\ At(c, "waitVersion") /\ versions[cmd[c].version].state # "pending"
  /\ Goto(c, IF versions[cmd[c].version].state = "enabled" THEN "verify" ELSE "done")
  /\ Kms /\ Quiet

\* Waits for the version, until its deadline: then the import was accepted and
\* the identity remains to be verified by hand.
waitVersionEnabled(c) ==
  /\ At(c, "waitVersion")
  /\ \/ versions[cmd[c].version].state = "enabled" /\ Goto(c, "verify")
     \/ Goto(c, "done")
  /\ Kms /\ Quiet

\* verifyImportedKey opens a backend on that version and compares.
VerifyImported(c) ==
  /\ At(c, "verify") /\ Fail(c)
  /\ verified' = IF /\ versions[cmd[c].version].state = "enabled"
                    /\ versions[cmd[c].version].identity = cmd[c].source
                 THEN verified \cup {<<cmd[c].version, cmd[c].source>>} ELSE verified
  /\ UNCHANGED created /\ Kms

\* External: KMS generates the job's key and expires it, and finishes an import.
JobActive ==
  /\ job # Nil /\ job.state = "generating" /\ job' = [job EXCEPT !.state = "active"]
  /\ UNCHANGED <<ring, key, versions, cmd>> /\ Quiet
JobExpires ==
  /\ job # Nil /\ job.state = "active" /\ job' = [job EXCEPT !.state = "expired"]
  /\ UNCHANGED <<ring, key, versions, cmd>> /\ Quiet
VersionDone(v, to) ==
  /\ v \in DOMAIN versions /\ versions[v].state = "pending"
  /\ versions' = [versions EXCEPT ![v].state = to]
  /\ UNCHANGED <<ring, key, job, cmd>> /\ Quiet

Step(c) ==
  \/ ensureImportCryptoKey(c) \/ GetKeyRing(c) \/ CreateKeyRing(c) \/ CreateCryptoKey(c)
  \/ RegetKey(c) \/ GetImportJob(c) \/ CreateImportJob(c) \/ waitImportJobActive(c)
  \/ ImportCryptoKeyVersion(c) \/ waitVersionEnabled(c) \/ VerifyImported(c)
Finished == (\A c \in Commands : At(c, "done")) /\ UNCHANGED vars

Next ==
  \/ \E c \in Commands : (\E k \in Sources : Import(c, k)) \/ Provision(c) \/ Step(c)
  \/ JobActive \/ JobExpires
  \/ \E v \in DOMAIN versions, to \in {"enabled", "failed"} : VersionDone(v, to)
  \/ Finished

Spec == Init /\ [][Next]_vars
=============================================================================
