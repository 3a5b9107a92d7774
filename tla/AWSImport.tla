----------------------------- MODULE AWSImport ------------------------------
(***************************************************************************)
(* `import --backend awskms`: commands that create or select an EXTERNAL   *)
(* key, possibly through one alias, and import the material of a key file  *)
(* into it.  KMS calls may fail before or after they take effect, reads    *)
(* may lag, and KMS's operator may delete the material again.              *)
(***************************************************************************)
EXTENDS Naturals, Sequences

CONSTANTS Commands,  \* the import commands, each run once
          Sources,   \* the key files' identities
          Alias, Nil,
          Attempts,  \* awsConsistencyAttempts
          MaxDeletes \* bound: deletions of imported material

VARIABLES keys,    \* KMS's keys, [identity, enabled, by]: a key that ever had
                   \* material takes no other
          alias,   \* the key the alias names, 0 for none
          cmd,     \* command -> its state
          ready,   \* history: <<command, key, source>> reported verified
          pending, \* history: the same, accepted and not yet verified
          named,   \* history: <<command, key>> named in an error
          deletes

vars == <<keys, alias, cmd, ready, pending, named, deletes>>

Arns == Nat \ {0} \* a key's ARN is its place in keys
Key == [identity : Sources \cup {Nil}, enabled : BOOLEAN, by : Commands]
Command == [pc : {"idle", "describe", "create", "alias", "binding", "public", "params",
                  "import", "poll", "done"},
            source : Sources \cup {Nil}, target : {Nil, Alias} \cup Arns, arn : Nat,
            attempt : 0..Attempts - 1]

TypeOK ==
  /\ keys \in Seq(Key) /\ alias \in 0..Len(keys)
  /\ cmd \in [Commands -> Command]
  /\ ready \subseteq Commands \X Arns \X Sources
  /\ pending \subseteq Commands \X Arns \X Sources
  /\ named \subseteq Commands \X Arns
  /\ deletes \in 0..MaxDeletes

Init ==
  /\ keys = <<>> /\ alias = 0
  /\ cmd = [c \in Commands |-> [pc |-> "idle", source |-> Nil, target |-> Nil,
                                arn |-> 0, attempt |-> 0]]
  /\ ready = {} /\ pending = {} /\ named = {} /\ deletes = 0

At(c, pc) == cmd[c].pc = pc
Goto(c, pc) == cmd' = [cmd EXCEPT ![c].pc = pc, ![c].attempt = 0]
Quiet == UNCHANGED <<ready, pending, named>>
Kms == UNCHANGED <<keys, alias, deletes>>

\* An error, which names the key once one was created or selected for import.
Fail(c) ==
  /\ Goto(c, "done")
  /\ named' = IF cmd[c].arn # 0 THEN named \cup {<<c, cmd[c].arn>>} ELSE named
  /\ UNCHANGED <<ready, pending>>
\* The same before that: an Enabled key is not named.
FailUnnamed(c) == Goto(c, "done") /\ Quiet

Report(c, arn, ok) ==
  /\ Goto(c, "done")
  /\ ready' = IF ok THEN ready \cup {<<c, arn, cmd[c].source>>} ELSE ready
  /\ pending' = IF ok THEN pending ELSE pending \cup {<<c, arn, cmd[c].source>>}
  /\ UNCHANGED named
-----------------------------------------------------------------------------
\* --aws-key-id: none, the alias, or a key's ARN.
Start(c, k, target) ==
  /\ At(c, "idle")
  /\ cmd' = [cmd EXCEPT ![c].pc = IF target = Nil THEN "create" ELSE "describe",
                        ![c].source = k, ![c].target = target]
  /\ Kms /\ Quiet

\* DescribeKey resolves the target.  An alias that is not there, or not yet seen,
\* leads to a new key; only a PendingImport key is selected for import.
Describe(c) ==
  /\ At(c, "describe")
  /\ \/ LET a == IF cmd[c].target = Alias THEN alias ELSE cmd[c].target IN
        /\ a \in DOMAIN keys
        /\ cmd' = [cmd EXCEPT ![c].pc = IF keys[a].enabled THEN "public" ELSE "binding",
                              ![c].arn = a]
        /\ Quiet
     \/ cmd[c].target = Alias /\ Goto(c, "create") /\ Quiet
     \/ FailUnnamed(c)
  /\ Kms

\* The claim of the target must be readable.
ReadBinding(c) ==
  /\ At(c, "binding")
  /\ (Goto(c, "params") /\ Quiet) \/ Fail(c)
  /\ Kms

\* An Enabled target must already be the source's key; it is never imported into.
ComparePublic(c) ==
  /\ At(c, "public")
  /\ \/ keys[cmd[c].arn].enabled /\ keys[cmd[c].arn].identity = cmd[c].source
        /\ Report(c, cmd[c].arn, TRUE)
     \/ FailUnnamed(c)
  /\ Kms

NewKey(c) == [identity |-> Nil, enabled |-> FALSE, by |-> c]

\* Mutant of createAWSKey: the SDK retries, once, a CreateKey whose answer was lost.
createAWSKeyRetried(c) ==
  /\ At(c, "create")
  /\ \A m, n \in DOMAIN keys : keys[m].by = c /\ keys[n].by = c => m = n
  /\ keys' = Append(keys, NewKey(c))
  /\ \/ cmd' = [cmd EXCEPT ![c].pc = IF cmd[c].target = Alias THEN "alias" ELSE "params",
                           ![c].arn = Len(keys) + 1]
     \/ UNCHANGED cmd
  /\ UNCHANGED <<alias, deletes>> /\ Quiet

\* CreateKey is tried once: its answer, or the call, may be lost.
createAWSKey(c) ==
  /\ At(c, "create")
  /\ \/ /\ keys' = Append(keys, NewKey(c))
        /\ \/ /\ cmd' = [cmd EXCEPT ![c].pc = IF cmd[c].target = Alias THEN "alias"
                                             ELSE "params",
                                    ![c].arn = Len(keys) + 1]
              /\ Quiet
           \/ FailUnnamed(c)
     \/ UNCHANGED keys /\ FailUnnamed(c)
  /\ UNCHANGED <<alias, deletes>>

\* Mutants of CreateAlias: an alias that exists will do; the error names no key.
CreateAliasAnyway(c) ==
  /\ At(c, "alias") /\ Goto(c, "params") /\ Quiet
  /\ alias' = IF alias = 0 THEN cmd[c].arn ELSE alias
  /\ UNCHANGED <<keys, deletes>>
CreateAliasUnnamed(c) ==
  /\ At(c, "alias")
  /\ IF alias = 0 THEN (alias' = cmd[c].arn /\ Goto(c, "params") /\ Quiet)
     ELSE (UNCHANGED alias /\ FailUnnamed(c))
  /\ UNCHANGED <<keys, deletes>>

\* CreateAlias refuses an alias that exists.
CreateAlias(c) ==
  /\ At(c, "alias")
  /\ \/ alias = 0 /\ alias' = cmd[c].arn /\ ((Goto(c, "params") /\ Quiet) \/ Fail(c))
     \/ UNCHANGED alias /\ Fail(c)
  /\ UNCHANGED <<keys, deletes>>

\* awsImportParameters: a new key may not be visible for a while.
awsImportParameters(c) ==
  /\ At(c, "params")
  /\ \/ Goto(c, "import") /\ Quiet
     \/ /\ cmd[c].attempt + 1 < Attempts
        /\ cmd' = [cmd EXCEPT ![c].attempt = @ + 1] /\ Quiet
     \/ Fail(c)
  /\ Kms

Accepts(k, source) == k.identity \in {Nil, source}
Imported(c) ==
  keys' = [keys EXCEPT ![cmd[c].arn].identity = cmd[c].source, ![cmd[c].arn].enabled = TRUE]

\* Mutant of ImportKeyMaterial: an error is taken for material already imported.
ImportKeyMaterialAnyway(c) ==
  /\ At(c, "import") /\ Goto(c, "poll")
  /\ IF Accepts(keys[cmd[c].arn], cmd[c].source) THEN Imported(c) ELSE UNCHANGED keys
  /\ UNCHANGED <<alias, deletes>> /\ Quiet

\* KMS refuses other material than the key once had.
ImportKeyMaterial(c) ==
  /\ At(c, "import")
  /\ \/ /\ Accepts(keys[cmd[c].arn], cmd[c].source) /\ Imported(c)
        /\ (Goto(c, "poll") /\ Quiet) \/ Fail(c)
     \/ UNCHANGED keys /\ Fail(c)
  /\ UNCHANGED <<alias, deletes>>

\* GetPublicKey until it answers: not ready is retried, and any other error, or
\* running out of attempts, leaves the identity to be verified later.
Poll(c) ==
  /\ At(c, "poll")
  /\ LET a == cmd[c].arn IN
     \/ keys[a].enabled /\ keys[a].identity = cmd[c].source /\ Report(c, a, TRUE)
     \/ keys[a].enabled /\ keys[a].identity # cmd[c].source /\ Fail(c)
     \/ /\ cmd[c].attempt + 1 < Attempts
        /\ cmd' = [cmd EXCEPT ![c].attempt = @ + 1] /\ Quiet
     \/ Report(c, a, FALSE)
  /\ Kms

\* External: DeleteImportedKeyMaterial takes the key back to PendingImport.
DeleteMaterial(a) ==
  /\ deletes < MaxDeletes /\ deletes' = deletes + 1
  /\ keys[a].enabled
  /\ keys' = [keys EXCEPT ![a].enabled = FALSE]
  /\ UNCHANGED <<alias, cmd>> /\ Quiet

Step(c) ==
  \/ Describe(c) \/ ReadBinding(c) \/ ComparePublic(c) \/ createAWSKey(c)
  \/ CreateAlias(c) \/ awsImportParameters(c) \/ ImportKeyMaterial(c) \/ Poll(c)
Finished == (\A c \in Commands : At(c, "done")) /\ UNCHANGED vars

Next ==
  \/ \E c \in Commands :
       (\E k \in Sources, t \in {Nil, Alias} \cup DOMAIN keys : Start(c, k, t)) \/ Step(c)
  \/ \E a \in DOMAIN keys : DeleteMaterial(a)
  \/ Finished

Spec == Init /\ [][Next]_vars
=============================================================================
