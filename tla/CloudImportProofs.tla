------------------------- MODULE CloudImportProofs -------------------------
(* `import` and `provision` of the two clouds: the inductive invariants of *)
(* AWS KMS and Cloud KMS, kept by every step of any number of commands.    *)
EXTENDS KeyImport, TLAPS
-----------------------------------------------------------------------------
(* AWS KMS.                                                                *)

\* The key that c has created or selected was named or reported, or is not its own.
Accounted(c) ==
  \/ <<c, cmd[c].arn>> \in named
  \/ \E r \in ready \cup pending : r[1] = c /\ r[2] = cmd[c].arn
  \/ keys[cmd[c].arn].by # c

SoundAWS(c) ==
  /\ cmd[c].pc # "idle" => cmd[c].source \in Sources
  /\ cmd[c].pc \in {"idle", "describe", "create"} =>
       cmd[c].arn = 0 /\ \A n \in DOMAIN keys : keys[n].by # c
  /\ cmd[c].pc \in {"alias", "binding", "public", "params", "import", "poll"} => cmd[c].arn # 0
  /\ cmd[c].arn # 0 => cmd[c].arn \in DOMAIN keys
  /\ cmd[c].pc \in {"binding", "public", "params", "import", "poll"} /\ cmd[c].target = Alias =>
       cmd[c].arn = alias
  /\ cmd[c].pc = "public" => keys[cmd[c].arn].by # c
  /\ cmd[c].pc = "poll" => keys[cmd[c].arn].identity = cmd[c].source
  /\ cmd[c].pc = "done" /\ cmd[c].arn # 0 => Accounted(c)

\* What was reported of a key holds of it, and its command has ended.
SoundReport(r) ==
  /\ r[2] \in DOMAIN keys /\ keys[r[2]].identity = r[3]
  /\ cmd[r[1]].pc = "done"
  /\ cmd[r[1]].target = Alias => r[2] = alias

OneKeyEach == \A m, n \in DOMAIN keys : keys[m].by = keys[n].by => m = n

AWSInv ==
  /\ AWS!TypeOK
  /\ OneKeyEach
  /\ \A c \in Commands : SoundAWS(c)
  /\ \A r \in ready \cup pending : SoundReport(r)

\* Keys are added and get their material, and keep their creator and identity.
KeysGrow ==
  /\ Len(keys) <= Len(keys')
  /\ \A n \in 1..Len(keys) : /\ keys'[n].by = keys[n].by
                             /\ keys[n].identity # None => keys'[n].identity = keys[n].identity

HistoryKept == ready \subseteq ready' /\ pending \subseteq pending' /\ named \subseteq named'
AliasKept == alias # 0 => alias' = alias

\* The types of a state of the invariant.
LEMMA AWSTypes ==
  ASSUME AWSInv
  PROVE  /\ keys \in Seq(AWS!Key) /\ Len(keys) \in Nat /\ DOMAIN keys = 1..Len(keys)
         /\ alias \in 0..Len(keys) /\ cmd \in [Commands -> AWS!Command]
         /\ \A r \in ready \cup pending : r[1] \in Commands /\ r[3] \in Sources
BY DEF AWSInv, AWS!TypeOK

\* A command that does not move stays sound.
LEMMA AWSFrame ==
  ASSUME AWSInv, keys' \in Seq(AWS!Key), KeysGrow, AliasKept, HistoryKept,
         NEW d \in Commands, cmd'[d] = cmd[d],
         \A n \in DOMAIN keys' : n \in DOMAIN keys \/ keys'[n].by # d
  PROVE  SoundAWS(d)'
<1>1. /\ keys \in Seq(AWS!Key) /\ Len(keys) \in Nat /\ DOMAIN keys = 1..Len(keys)
      /\ alias \in 0..Len(keys) /\ SoundAWS(d)
  BY AWSTypes DEF AWSInv
<1>2. DOMAIN keys' = 1..Len(keys') /\ Len(keys') \in Nat
  OBVIOUS
<1>3. 1..Len(keys) \subseteq 1..Len(keys')
  BY <1>1, <1>2 DEF KeysGrow
<1>4. cmd[d].arn # 0 => /\ cmd[d].arn \in 1..Len(keys) /\ cmd[d].arn \in 1..Len(keys')
                        /\ keys'[cmd[d].arn].by = keys[cmd[d].arn].by
  BY <1>1, <1>3 DEF SoundAWS, KeysGrow
<1>5. cmd[d].pc = "poll" => keys'[cmd[d].arn].identity = cmd[d].source
  <2>1. cmd[d].pc = "poll" => /\ cmd[d].source \in Sources /\ cmd[d].arn \in 1..Len(keys)
                              /\ keys[cmd[d].arn].identity = cmd[d].source
    BY <1>1, <1>4 DEF SoundAWS
  <2>2. QED BY <2>1, AWSImportAssumption DEF KeysGrow
<1>6. cmd[d].pc = "done" /\ cmd[d].arn # 0 => Accounted(d)'
  BY <1>1, <1>4 DEF SoundAWS, Accounted, HistoryKept
<1>7. /\ cmd[d].pc \in {"binding", "public", "params", "import", "poll"} /\ cmd[d].target = Alias =>
           cmd[d].arn = alias'
      /\ cmd[d].pc \in {"idle", "describe", "create"} =>
           \A n \in 1..Len(keys') : keys'[n].by # d
  BY <1>1, <1>2 DEF SoundAWS, AliasKept, KeysGrow
<1>8. QED BY <1>1, <1>2, <1>4, <1>5, <1>6, <1>7 DEF SoundAWS

\* What was reported stays true.
LEMMA ReportKept ==
  ASSUME AWSInv, keys' \in Seq(AWS!Key), KeysGrow, AliasKept,
         NEW r \in ready \cup pending, cmd'[r[1]] = cmd[r[1]]
  PROVE  SoundReport(r)'
<1>1. /\ keys \in Seq(AWS!Key) /\ Len(keys) \in Nat /\ DOMAIN keys = 1..Len(keys)
      /\ SoundReport(r) /\ r[3] \in Sources /\ r[2] \in 1..Len(keys)
  BY AWSTypes DEF AWSInv, SoundReport
<1>2. DOMAIN keys' = 1..Len(keys') /\ Len(keys') \in Nat
  OBVIOUS
<1>3. r[2] \in 1..Len(keys') /\ keys'[r[2]].identity = r[3]
  <2>1. keys[r[2]].identity = r[3] /\ r[3] # None
    BY <1>1, AWSImportAssumption DEF SoundReport
  <2>2. 1..Len(keys) \subseteq 1..Len(keys')
    BY <1>1, <1>2 DEF KeysGrow
  <2>3. QED BY <1>1, <2>1, <2>2 DEF KeysGrow
<1>4. cmd[r[1]].target = Alias => r[2] = alias'
  BY <1>1 DEF SoundReport, AliasKept
<1>5. QED BY <1>1, <1>2, <1>3, <1>4 DEF SoundReport

\* One command moves, and creates no key of another.
LEMMA AWSMove ==
  ASSUME AWSInv, AWS!TypeOK', KeysGrow, AliasKept, HistoryKept, OneKeyEach',
         NEW c \in Commands, cmd[c].pc # "done", SoundAWS(c)',
         \A d \in Commands : d # c => cmd'[d] = cmd[d],
         \A n \in DOMAIN keys' : n \in DOMAIN keys \/ keys'[n].by = c,
         \A r \in ready' \cup pending' : r \in ready \cup pending \/ SoundReport(r)'
  PROVE  AWSInv'
<1>1. keys' \in Seq(AWS!Key)
  BY DEF AWS!TypeOK
<1>2. ASSUME NEW d \in Commands
      PROVE  SoundAWS(d)'
  <2>1. CASE d = c
    BY <2>1
  <2>2. CASE d # c
    BY <1>1, <2>2, AWSFrame
  <2>3. QED BY <2>1, <2>2
<1>3. ASSUME NEW r \in ready \cup pending
      PROVE  SoundReport(r)'
  <2>1. r[1] \in Commands /\ r[1] # c
    BY AWSTypes DEF AWSInv, SoundReport
  <2>2. QED BY <1>1, <2>1, ReportKept
<1>4. \A r \in ready' \cup pending' : SoundReport(r)'
  BY <1>3
<1>5. QED BY <1>2, <1>4 DEF AWSInv

\* What a command's step may do to KMS.
KmsGoesOn(c) ==
  /\ keys' \in Seq(AWS!Key) /\ KeysGrow /\ AliasKept /\ OneKeyEach'
  /\ alias' \in 0..Len(keys') /\ deletes' \in 0..MaxDeletes
  /\ \A n \in DOMAIN keys' : n \in DOMAIN keys \/ keys'[n].by = c

\* A command changes its own state, to one of these.
CommandMoves(c) ==
  /\ cmd' \in [Commands -> AWS!Command]
  /\ \A d \in Commands : d # c => cmd'[d] = cmd[d]

\* Every key has an ARN.
LEMMA KeysHaveArns ==
  ASSUME AWSInv
  PROVE  1..Len(keys) \subseteq AWS!Arns /\ AWS!Arns \subseteq Nat /\ 0 \notin AWS!Arns
BY AWSTypes DEF AWS!Arns

\* A step that leaves KMS alone.
LEMMA KmsStays ==
  ASSUME AWSInv, AWS!Kms, NEW c \in Commands
  PROVE  KmsGoesOn(c)
BY DEF AWSInv, AWS!TypeOK, AWS!Kms, KmsGoesOn, KeysGrow, AliasKept, OneKeyEach

\* The step of a command that only its own soundness is left to show of.
LEMMA AWSGoesOn ==
  ASSUME AWSInv, NEW c \in Commands, cmd[c].pc # "done", KmsGoesOn(c), CommandMoves(c),
         AWS!Quiet, SoundAWS(c)'
  PROVE  AWSInv'
<1>1. AWS!TypeOK'
  BY DEF AWSInv, AWS!TypeOK, KmsGoesOn, CommandMoves, AWS!Quiet
<1>2. QED BY <1>1, AWSMove DEF KmsGoesOn, CommandMoves, AWS!Quiet, HistoryKept

\* A command goes on to pc.
LEMMA AWSGoes ==
  ASSUME AWSInv, NEW c \in Commands, NEW pc, AWS!Goto(c, pc),
         pc \in {"create", "params", "import", "poll", "done"}
  PROVE  /\ CommandMoves(c) /\ cmd'[c].pc = pc /\ cmd'[c].source = cmd[c].source
         /\ cmd'[c].target = cmd[c].target /\ cmd'[c].arn = cmd[c].arn
<1>1. PICK r \in AWS!Command : r = cmd[c]
  BY AWSTypes
<1>2. PICK q : q = [r EXCEPT !.pc = pc, !.attempt = 0]
  OBVIOUS
<1>3. q.pc = pc /\ q.source = r.source /\ q.target = r.target /\ q.arn = r.arn
  BY <1>1, <1>2 DEF AWS!Command
<1>4. q \in AWS!Command
  <2>1. 0 \in 0..Attempts - 1
    BY AWSImportAssumption
  <2>2. PICK p : p = [r EXCEPT !.pc = pc]
    BY Zenon
  <2>3. p \in AWS!Command
    BY <1>1, <2>2 DEF AWS!Command
  <2>4. q = [p EXCEPT !.attempt = 0]
    BY <1>2, <2>2
  <2>5. QED BY <2>1, <2>3, <2>4 DEF AWS!Command
<1>5. cmd' = [cmd EXCEPT ![c] = q]
  BY <1>1, <1>2, AWSTypes, Zenon DEF AWS!Goto
<1>6. QED BY <1>1, <1>3, <1>4, <1>5, AWSTypes DEF CommandMoves

\* A command tries once more.
LEMMA AWSRetries ==
  ASSUME AWSInv, NEW c \in Commands, cmd[c].attempt + 1 < Attempts,
         cmd' = [cmd EXCEPT ![c].attempt = @ + 1]
  PROVE  /\ CommandMoves(c) /\ cmd'[c].pc = cmd[c].pc /\ cmd'[c].source = cmd[c].source
         /\ cmd'[c].target = cmd[c].target /\ cmd'[c].arn = cmd[c].arn
<1>1. PICK r \in AWS!Command : r = cmd[c]
  BY AWSTypes
<1>2. PICK q : q = [r EXCEPT !.attempt = r.attempt + 1]
  BY Zenon
<1>3. q.pc = r.pc /\ q.source = r.source /\ q.target = r.target /\ q.arn = r.arn
  BY <1>1, <1>2 DEF AWS!Command
<1>4. q \in AWS!Command
  BY <1>1, <1>2, AWSImportAssumption DEF AWS!Command
<1>5. cmd' = [cmd EXCEPT ![c] = q]
  BY <1>1, <1>2, AWSTypes
<1>6. QED BY <1>1, <1>3, <1>4, <1>5, AWSTypes DEF CommandMoves

\* A command that failed with a key selected has named it.
LEMMA FailInv ==
  ASSUME AWSInv, NEW c \in Commands, cmd[c].pc \notin {"idle", "done"}, cmd[c].arn # 0,
         KmsGoesOn(c), AWS!Fail(c)
  PROVE  AWSInv'
<1>1. /\ CommandMoves(c) /\ cmd'[c].pc = "done" /\ cmd'[c].source = cmd[c].source
      /\ cmd'[c].target = cmd[c].target /\ cmd'[c].arn = cmd[c].arn
  BY AWSGoes DEF AWS!Fail
<1>2. /\ named' = named \cup {<<c, cmd[c].arn>>} /\ ready' = ready /\ pending' = pending
  BY DEF AWS!Fail
<1>3. /\ cmd[c].arn \in 1..Len(keys) /\ cmd[c].source \in Sources
  BY AWSTypes, Zenon DEF AWSInv, SoundAWS
<1>4. cmd[c].arn \in AWS!Arns /\ cmd[c].arn \in DOMAIN keys'
  BY <1>3, KeysHaveArns, AWSTypes DEF KmsGoesOn, KeysGrow
<1>5. AWS!TypeOK'
  BY <1>1, <1>2, <1>4 DEF AWSInv, AWS!TypeOK, KmsGoesOn, CommandMoves
<1>6. SoundAWS(c)'
  BY <1>1, <1>2, <1>3, <1>4, Zenon DEF SoundAWS, Accounted
<1>7. QED BY <1>1, <1>2, <1>5, <1>6, AWSMove DEF KmsGoesOn, CommandMoves, HistoryKept

\* A command that failed and named nothing has created no key it knows of.
LEMMA FailUnnamedInv ==
  ASSUME AWSInv, NEW c \in Commands, cmd[c].pc \notin {"idle", "done"},
         cmd[c].arn # 0 => keys[cmd[c].arn].by # c,
         KmsGoesOn(c), AWS!FailUnnamed(c)
  PROVE  AWSInv'
<1>1. /\ CommandMoves(c) /\ cmd'[c].pc = "done" /\ cmd'[c].source = cmd[c].source
      /\ cmd'[c].target = cmd[c].target /\ cmd'[c].arn = cmd[c].arn /\ AWS!Quiet
  BY AWSGoes DEF AWS!FailUnnamed
<1>2. cmd[c].source \in Sources /\ (cmd[c].arn # 0 => cmd[c].arn \in 1..Len(keys))
  BY AWSTypes, Zenon DEF AWSInv, SoundAWS
<1>3. cmd[c].arn # 0 => cmd[c].arn \in DOMAIN keys' /\ keys'[cmd[c].arn].by # c
  BY <1>2, AWSTypes DEF KmsGoesOn, KeysGrow
<1>4. SoundAWS(c)'
  BY <1>1, <1>2, <1>3 DEF SoundAWS, Accounted
<1>5. QED BY <1>1, <1>4, AWSGoesOn, Zenon

\* A command that reports its key, verified or not.
LEMMA ReportInv ==
  ASSUME AWSInv, NEW c \in Commands, cmd[c].pc \notin {"idle", "done"}, cmd[c].arn # 0,
         NEW ok \in BOOLEAN, AWS!Report(c, cmd[c].arn, ok), AWS!Kms,
         keys[cmd[c].arn].identity = cmd[c].source,
         cmd[c].target = Alias => cmd[c].arn = alias
  PROVE  AWSInv'
<1>1. /\ CommandMoves(c) /\ cmd'[c].pc = "done" /\ cmd'[c].source = cmd[c].source
      /\ cmd'[c].target = cmd[c].target /\ cmd'[c].arn = cmd[c].arn
  BY AWSGoes, Zenon DEF AWS!Report
<1>2. PICK r : r = <<c, cmd[c].arn, cmd[c].source>>
  BY Zenon
<1>3. /\ ready \subseteq ready' /\ pending \subseteq pending' /\ named' = named
      /\ ready' \subseteq ready \cup {r} /\ pending' \subseteq pending \cup {r}
      /\ r \in ready' \cup pending'
  BY <1>2 DEF AWS!Report
<1>4. /\ cmd[c].arn \in 1..Len(keys) /\ cmd[c].source \in Sources
  BY AWSTypes, Zenon DEF AWSInv, SoundAWS
<1>5. r \in Commands \X AWS!Arns \X Sources /\ cmd[c].arn \in DOMAIN keys /\ cmd[c].arn \in AWS!Arns
  BY <1>2, <1>4, KeysHaveArns, AWSTypes, Zenon
<1>6. AWS!TypeOK'
  BY <1>1, <1>3, <1>5 DEF AWSInv, AWS!TypeOK, AWS!Kms, CommandMoves
<1>7. r[1] = c /\ r[2] = cmd[c].arn /\ r[3] = cmd[c].source
  BY <1>2
<1>8. SoundReport(r)'
  BY <1>1, <1>5, <1>7 DEF SoundReport, AWS!Kms
<1>9. SoundAWS(c)'
  BY <1>1, <1>3, <1>4, <1>5, <1>7 DEF SoundAWS, Accounted, AWS!Kms
<1>10. KmsGoesOn(c)
  BY KmsStays
<1>11. QED BY <1>1, <1>3, <1>6, <1>8, <1>9, <1>10, AWSMove DEF KmsGoesOn, CommandMoves, HistoryKept

\* A command that is started (AWSImportKey is called).
LEMMA StartCommandInv ==
  ASSUME AWSInv, NEW c \in Commands, NEW k \in Sources,
         NEW t \in {None, Alias} \cup DOMAIN keys, AWS!Start(c, k, t)
  PROVE  AWSInv'
<1>1. PICK r \in AWS!Command : r = cmd[c]
  BY AWSTypes
<1>2. PICK pc \in {"create", "describe"} : pc = IF t = None THEN "create" ELSE "describe"
  OBVIOUS
<1>3. PICK p : p = [r EXCEPT !.pc = pc]
  BY Zenon
<1>4. PICK s : s = [p EXCEPT !.source = k]
  BY Zenon
<1>5. PICK q : q = [s EXCEPT !.target = t]
  BY Zenon
<1>6. p \in AWS!Command /\ p.pc = pc /\ p.arn = r.arn
  BY <1>2, <1>3 DEF AWS!Command
<1>7. s \in AWS!Command /\ s.pc = pc /\ s.arn = r.arn /\ s.source = k
  BY <1>4, <1>6 DEF AWS!Command
<1>8. q \in AWS!Command /\ q.pc = pc /\ q.arn = r.arn /\ q.source = k
  <2>1. t \in {None, Alias} \cup AWS!Arns
    BY KeysHaveArns, AWSTypes
  <2>2. QED BY <1>5, <1>7, <2>1 DEF AWS!Command
<1>9. cmd' = [cmd EXCEPT ![c] = q]
  BY <1>1, <1>2, <1>3, <1>4, <1>5, AWSTypes, Zenon DEF AWS!Start
<1>10. CommandMoves(c) /\ cmd'[c] = q
  BY <1>8, <1>9, AWSTypes DEF CommandMoves
<1>11. cmd[c].pc = "idle" /\ AWS!Kms /\ AWS!Quiet
  BY DEF AWS!Start, AWS!At
<1>12. SoundAWS(c)'
  BY <1>1, <1>2, <1>8, <1>10, <1>11 DEF AWSInv, SoundAWS, AWS!Kms
<1>13. QED BY <1>10, <1>11, <1>12, KmsStays, AWSGoesOn

\* DescribeKey resolves the target to a key that the command did not create.
LEMMA DescribeInv ==
  ASSUME AWSInv, NEW c \in Commands, AWS!Describe(c)
  PROVE  AWSInv'
<1>1. cmd[c].pc = "describe" /\ AWS!Kms /\ KmsGoesOn(c)
  BY KmsStays DEF AWS!Describe, AWS!At
<1>2. cmd[c].source \in Sources /\ cmd[c].arn = 0 /\ \A n \in DOMAIN keys : keys[n].by # c
  BY <1>1, Zenon DEF AWSInv, SoundAWS
<1>3. CASE AWS!FailUnnamed(c)
  BY <1>1, <1>2, <1>3, FailUnnamedInv
<1>4. CASE AWS!Goto(c, "create") /\ AWS!Quiet
  <2>1. /\ CommandMoves(c) /\ cmd'[c].pc = "create" /\ cmd'[c].source = cmd[c].source
        /\ cmd'[c].arn = cmd[c].arn
    BY <1>4, AWSGoes
  <2>2. SoundAWS(c)'
    BY <1>1, <1>2, <2>1 DEF SoundAWS, AWS!Kms
  <2>3. QED BY <1>1, <1>4, <2>1, <2>2, AWSGoesOn
<1>5. ASSUME NEW a \in DOMAIN keys, a = IF cmd[c].target = Alias THEN alias ELSE cmd[c].target,
             cmd' = [cmd EXCEPT ![c].pc = IF keys[a].enabled THEN "public" ELSE "binding",
                                ![c].arn = a],
             AWS!Quiet
      PROVE  AWSInv'
  <2>1. PICK r \in AWS!Command : r = cmd[c]
    BY AWSTypes
  <2>2. PICK pc \in {"public", "binding"} : pc = IF keys[a].enabled THEN "public" ELSE "binding"
    OBVIOUS
  <2>3. PICK p : p = [r EXCEPT !.pc = pc]
    BY Zenon
  <2>4. PICK q : q = [p EXCEPT !.arn = a]
    BY Zenon
  <2>5. a \in 1..Len(keys) /\ a \in Nat /\ a # 0
    BY AWSTypes, KeysHaveArns
  <2>6. p \in AWS!Command /\ p.pc = pc /\ p.source = r.source /\ p.target = r.target
    BY <2>2, <2>3 DEF AWS!Command
  <2>7. q \in AWS!Command /\ q.pc = pc /\ q.source = r.source /\ q.target = r.target /\ q.arn = a
    BY <2>4, <2>5, <2>6 DEF AWS!Command
  <2>8. cmd' = [cmd EXCEPT ![c] = q]
    BY <1>5, <2>1, <2>2, <2>3, <2>4, AWSTypes, Zenon
  <2>9. CommandMoves(c) /\ cmd'[c] = q
    BY <2>7, <2>8, AWSTypes DEF CommandMoves
  <2>10. SoundAWS(c)'
    BY <1>1, <1>2, <1>5, <2>1, <2>2, <2>5, <2>7, <2>9 DEF SoundAWS, AWS!Kms
  <2>11. QED BY <1>1, <1>5, <2>9, <2>10, AWSGoesOn
<1>6. QED BY <1>3, <1>4, <1>5, Zenon DEF AWS!Describe

\* A step from one pc to another that holds the same key.
LEMMA SelectedGoesOn ==
  ASSUME AWSInv, NEW c \in Commands, AWS!Kms, AWS!Quiet, CommandMoves(c),
         cmd'[c].source = cmd[c].source, cmd'[c].target = cmd[c].target, cmd'[c].arn = cmd[c].arn,
         \/ cmd[c].pc = "binding" /\ cmd'[c].pc = "params"
         \/ cmd[c].pc = "params" /\ cmd'[c].pc \in {"params", "import"}
         \/ cmd[c].pc = "poll" /\ cmd'[c].pc = "poll"
  PROVE  AWSInv'
<1>1. SoundAWS(c)'
  BY Zenon DEF AWSInv, SoundAWS, AWS!Kms
<1>2. QED BY <1>1, KmsStays, AWSGoesOn

\* The claim of the selected key is read.
LEMMA ReadBindingInv ==
  ASSUME AWSInv, NEW c \in Commands, AWS!ReadBinding(c)
  PROVE  AWSInv'
<1>1. cmd[c].pc = "binding" /\ AWS!Kms /\ cmd[c].arn # 0
  BY DEF AWS!ReadBinding, AWS!At, AWSInv, SoundAWS
<1>2. CASE AWS!Goto(c, "params") /\ AWS!Quiet
  BY <1>1, <1>2, AWSGoes, SelectedGoesOn
<1>3. CASE AWS!Fail(c)
  BY <1>1, <1>3, KmsStays, FailInv
<1>4. QED BY <1>2, <1>3 DEF AWS!ReadBinding

\* An Enabled target is reported only if it is the source's key.
LEMMA ComparePublicInv ==
  ASSUME AWSInv, NEW c \in Commands, AWS!ComparePublic(c)
  PROVE  AWSInv'
<1>1. /\ cmd[c].pc = "public" /\ AWS!Kms /\ cmd[c].arn # 0 /\ keys[cmd[c].arn].by # c
      /\ cmd[c].target = Alias => cmd[c].arn = alias
  BY DEF AWS!ComparePublic, AWS!At, AWSInv, SoundAWS
<1>2. CASE keys[cmd[c].arn].identity = cmd[c].source /\ AWS!Report(c, cmd[c].arn, TRUE)
  BY <1>1, <1>2, ReportInv, Zenon
<1>3. CASE AWS!FailUnnamed(c)
  BY <1>1, <1>3, KmsStays, FailUnnamedInv
<1>4. QED BY <1>2, <1>3, Zenon DEF AWS!ComparePublic

\* A wrapping key is asked for, again while the key is not visible.
LEMMA ParametersInv ==
  ASSUME AWSInv, NEW c \in Commands, AWS!awsImportParameters(c)
  PROVE  AWSInv'
<1>1. cmd[c].pc = "params" /\ AWS!Kms /\ cmd[c].arn # 0
  BY DEF AWS!awsImportParameters, AWS!At, AWSInv, SoundAWS
<1>2. CASE AWS!Goto(c, "import") /\ AWS!Quiet
  BY <1>1, <1>2, AWSGoes, SelectedGoesOn
<1>3. CASE /\ cmd[c].attempt + 1 < Attempts
           /\ cmd' = [cmd EXCEPT ![c].attempt = @ + 1] /\ AWS!Quiet
  BY <1>1, <1>3, AWSRetries, SelectedGoesOn, Zenon
<1>4. CASE AWS!Fail(c)
  BY <1>1, <1>4, KmsStays, FailInv
<1>5. QED BY <1>2, <1>3, <1>4 DEF AWS!awsImportParameters

\* GetPublicKey until it answers.
LEMMA PollInv ==
  ASSUME AWSInv, NEW c \in Commands, AWS!Poll(c)
  PROVE  AWSInv'
<1>1. /\ cmd[c].pc = "poll" /\ AWS!Kms /\ cmd[c].arn # 0
      /\ keys[cmd[c].arn].identity = cmd[c].source
      /\ cmd[c].target = Alias => cmd[c].arn = alias
  BY DEF AWS!Poll, AWS!At, AWSInv, SoundAWS
<1>2. CASE \E ok \in BOOLEAN : AWS!Report(c, cmd[c].arn, ok)
  BY <1>1, <1>2, ReportInv
<1>3. CASE /\ cmd[c].attempt + 1 < Attempts
           /\ cmd' = [cmd EXCEPT ![c].attempt = @ + 1] /\ AWS!Quiet
  BY <1>1, <1>3, AWSRetries, SelectedGoesOn, Zenon
<1>4. CASE AWS!Fail(c)
  BY <1>1, <1>4, KmsStays, FailInv
<1>5. QED BY <1>2, <1>3, <1>4, Zenon DEF AWS!Poll

\* CreateKey: one key for each command.
LEMMA CreateKeyInv ==
  ASSUME AWSInv, NEW c \in Commands, AWS!createAWSKey(c)
  PROVE  AWSInv'
<1>1. cmd[c].pc = "create" /\ alias' = alias /\ deletes' = deletes
  BY DEF AWS!createAWSKey, AWS!At
<1>2. cmd[c].source \in Sources /\ cmd[c].arn = 0 /\ \A n \in DOMAIN keys : keys[n].by # c
  BY <1>1 DEF AWSInv, SoundAWS
<1>3. CASE UNCHANGED keys /\ AWS!FailUnnamed(c)
  BY <1>1, <1>2, <1>3, KmsStays, FailUnnamedInv DEF AWS!Kms
<1>4. CASE keys' = Append(keys, AWS!NewKey(c))
  <2>1. keys \in Seq(AWS!Key) /\ Len(keys) \in Nat /\ DOMAIN keys = 1..Len(keys)
    BY AWSTypes
  <2>2. PICK k \in AWS!Key : k = AWS!NewKey(c) /\ k.by = c
    <3>1. AWS!NewKey(c) \in AWS!Key
      BY DEF AWS!NewKey, AWS!Key
    <3>2. AWS!NewKey(c).by = c
      BY DEF AWS!NewKey
    <3>3. QED BY <3>1, <3>2
  <2>3. PICK a \in Nat : a = Len(keys) + 1
    BY <2>1
  <2>4. keys' = Append(keys, k)
    BY <1>4, <2>2
  <2>5. /\ keys' \in Seq(AWS!Key) /\ Len(keys') = a /\ DOMAIN keys' = 1..a /\ keys'[a] = k
        /\ \A n \in 1..Len(keys) : keys'[n] = keys[n]
    BY <2>1, <2>3, <2>4
  <2>6. a \in Nat /\ a # 0
    BY <2>1, <2>3
  <2>7. OneKeyEach'
    <3>1. \A n \in 1..Len(keys) : keys'[n].by = keys[n].by /\ keys[n].by # c
      BY <1>2, <2>1, <2>5
    <3>2. \A n \in DOMAIN keys' : n \in 1..Len(keys) \/ n = a
      BY <2>1, <2>3, <2>5
    <3>3. ASSUME NEW m \in DOMAIN keys', NEW n \in DOMAIN keys', keys'[m].by = keys'[n].by
          PROVE  m = n
      <4>1. CASE m = a
        BY <2>2, <2>5, <3>1, <3>2, <3>3, <4>1
      <4>2. CASE n = a
        BY <2>2, <2>5, <3>1, <3>2, <3>3, <4>2
      <4>3. CASE m \in 1..Len(keys) /\ n \in 1..Len(keys)
        BY <2>1, <3>1, <3>3, <4>3 DEF AWSInv, OneKeyEach
      <4>4. QED BY <3>2, <4>1, <4>2, <4>3
    <3>4. QED BY <3>3 DEF OneKeyEach
  <2>8. KmsGoesOn(c)
    <3>1. alias' \in 0..Len(keys') /\ deletes' \in 0..MaxDeletes
      BY <1>1, <2>1, <2>3, <2>5, AWSTypes DEF AWSInv, AWS!TypeOK
    <3>2. \A n \in DOMAIN keys' : n \in DOMAIN keys \/ keys'[n].by = c
      BY <2>1, <2>2, <2>3, <2>5
    <3>3. KeysGrow /\ AliasKept
      BY <1>1, <2>1, <2>3, <2>5 DEF KeysGrow, AliasKept
    <3>4. QED BY <2>5, <2>6, <2>7, <3>1, <3>2, <3>3 DEF KmsGoesOn
  <2>9. CASE AWS!FailUnnamed(c)
    BY <1>1, <1>2, <2>8, <2>9, FailUnnamedInv
  <2>10. CASE /\ cmd' = [cmd EXCEPT ![c].pc = IF cmd[c].target = Alias THEN "alias" ELSE "params",
                                    ![c].arn = Len(keys) + 1]
              /\ AWS!Quiet
    <3>1. PICK r \in AWS!Command : r = cmd[c]
      BY AWSTypes
    <3>2. PICK pc \in {"alias", "params"} : pc = IF r.target = Alias THEN "alias" ELSE "params"
      OBVIOUS
    <3>3. PICK p : p = [r EXCEPT !.pc = pc]
      BY Zenon
    <3>4. PICK q : q = [p EXCEPT !.arn = a]
      BY Zenon
    <3>5. p \in AWS!Command /\ p.pc = pc /\ p.source = r.source /\ p.target = r.target
      BY <3>2, <3>3 DEF AWS!Command
    <3>6. q \in AWS!Command /\ q.pc = pc /\ q.source = r.source /\ q.target = r.target /\ q.arn = a
      BY <2>6, <3>4, <3>5 DEF AWS!Command
    <3>7. cmd' = [cmd EXCEPT ![c] = q]
      BY <2>3, <2>10, <3>1, <3>2, <3>3, <3>4, AWSTypes, Zenon
    <3>8. CommandMoves(c) /\ cmd'[c] = q
      BY <3>6, <3>7, AWSTypes DEF CommandMoves
    <3>9. SoundAWS(c)'
      <4>1. a \in DOMAIN keys' /\ q.source \in Sources
        BY <1>2, <2>1, <2>3, <2>5, <3>1, <3>6
      <4>2. q.pc = "params" => q.target # Alias
        BY <3>2, <3>6
      <4>3. QED BY <2>6, <3>2, <3>6, <3>8, <4>1, <4>2 DEF SoundAWS
    <3>10. QED BY <1>1, <2>8, <2>10, <3>8, <3>9, AWSGoesOn
  <2>11. QED BY <1>4, <2>9, <2>10, <1>3 DEF AWS!createAWSKey
<1>5. QED BY <1>3, <1>4 DEF AWS!createAWSKey

\* CreateAlias names the new key, and never renames the alias.
LEMMA CreateAliasInv ==
  ASSUME AWSInv, NEW c \in Commands, AWS!CreateAlias(c)
  PROVE  AWSInv'
<1>1. /\ cmd[c].pc = "alias" /\ keys' = keys /\ deletes' = deletes
      /\ cmd[c].source \in Sources /\ cmd[c].arn # 0 /\ cmd[c].arn \in DOMAIN keys
  BY Zenon DEF AWS!CreateAlias, AWS!At, AWSInv, SoundAWS
<1>2. CASE UNCHANGED alias /\ AWS!Fail(c)
  BY <1>1, <1>2, KmsStays, FailInv, Zenon DEF AWS!Kms
<1>3. CASE alias = 0 /\ alias' = cmd[c].arn
  <2>1. cmd[c].arn \in 0..Len(keys)
    BY <1>1, AWSTypes
  <2>2. KmsGoesOn(c)
    BY <1>1, <1>3, <2>1 DEF KmsGoesOn, KeysGrow, AliasKept, OneKeyEach, AWSInv, AWS!TypeOK
  <2>3. CASE AWS!Fail(c)
    BY <1>1, <2>2, <2>3, FailInv
  <2>4. CASE AWS!Goto(c, "params") /\ AWS!Quiet
    <3>1. /\ CommandMoves(c) /\ cmd'[c].pc = "params" /\ cmd'[c].source = cmd[c].source
          /\ cmd'[c].arn = cmd[c].arn
      BY <2>4, AWSGoes
    <3>2. SoundAWS(c)'
      BY <1>1, <1>3, <3>1 DEF SoundAWS
    <3>3. QED BY <1>1, <2>2, <2>4, <3>1, <3>2, AWSGoesOn
  <2>5. QED BY <1>2, <1>3, <2>3, <2>4 DEF AWS!CreateAlias
<1>4. QED BY <1>2, <1>3 DEF AWS!CreateAlias

\* A key keeps its creator, and its identity once it has one.
LEMMA KeyChanges ==
  ASSUME AWSInv, NEW a \in DOMAIN keys, NEW q \in AWS!Key, q.by = keys[a].by,
         keys[a].identity # None => q.identity = keys[a].identity,
         keys' = [keys EXCEPT ![a] = q], alias' = alias, deletes' \in 0..MaxDeletes,
         NEW c \in Commands
  PROVE  KmsGoesOn(c) /\ DOMAIN keys' = DOMAIN keys /\ keys'[a] = q
<1>1. /\ keys \in Seq(AWS!Key) /\ Len(keys) \in Nat /\ DOMAIN keys = 1..Len(keys)
      /\ alias \in 0..Len(keys)
  BY AWSTypes
<1>2. /\ keys' \in Seq(AWS!Key) /\ Len(keys') = Len(keys) /\ DOMAIN keys' = DOMAIN keys
      /\ keys'[a] = q /\ \A n \in DOMAIN keys : n # a => keys'[n] = keys[n]
  BY <1>1
<1>3. /\ \A n \in DOMAIN keys : keys'[n].by = keys[n].by
      /\ \A n \in DOMAIN keys : keys[n].identity # None => keys'[n].identity = keys[n].identity
  BY <1>2
<1>4. KeysGrow /\ AliasKept
  BY <1>1, <1>2, <1>3 DEF KeysGrow, AliasKept
<1>5. OneKeyEach'
  BY <1>2, <1>3 DEF AWSInv, OneKeyEach
<1>6. QED BY <1>1, <1>2, <1>4, <1>5 DEF KmsGoesOn, AWSInv, AWS!TypeOK

\* ImportKeyMaterial: KMS takes no other material than the key had.
LEMMA ImportMaterialInv ==
  ASSUME AWSInv, NEW c \in Commands, AWS!ImportKeyMaterial(c)
  PROVE  AWSInv'
<1>1. /\ cmd[c].pc = "import" /\ alias' = alias /\ deletes' = deletes
      /\ cmd[c].source \in Sources /\ cmd[c].arn # 0 /\ cmd[c].arn \in DOMAIN keys
      /\ cmd[c].target = Alias => cmd[c].arn = alias
  BY Zenon DEF AWS!ImportKeyMaterial, AWS!At, AWSInv, SoundAWS
<1>2. CASE UNCHANGED keys /\ AWS!Fail(c)
  BY <1>1, <1>2, KmsStays, FailInv, Zenon DEF AWS!Kms
<1>3. CASE AWS!Accepts(keys[cmd[c].arn], cmd[c].source) /\ AWS!Imported(c)
  <2>1. PICK a \in DOMAIN keys : a = cmd[c].arn
    BY <1>1
  <2>2. PICK k \in AWS!Key : k = keys[a]
    BY AWSTypes
  <2>3. PICK p : p = [k EXCEPT !.identity = cmd[c].source]
    BY Zenon
  <2>4. PICK q : q = [p EXCEPT !.enabled = TRUE]
    BY Zenon
  <2>5. p \in AWS!Key /\ p.by = k.by /\ p.identity = cmd[c].source
    BY <1>1, <2>3 DEF AWS!Key
  <2>6. q \in AWS!Key /\ q.by = k.by /\ q.identity = cmd[c].source
    BY <2>4, <2>5, Zenon DEF AWS!Key
  <2>7. keys' = [keys EXCEPT ![a] = q]
    BY <1>3, <2>1, <2>2, <2>3, <2>4, AWSTypes, Zenon DEF AWS!Imported
  <2>8. keys[a].identity # None => q.identity = keys[a].identity
    BY <1>3, <2>1, <2>6 DEF AWS!Accepts
  <2>9. deletes' \in 0..MaxDeletes
    BY <1>1 DEF AWSInv, AWS!TypeOK
  <2>10. KmsGoesOn(c) /\ DOMAIN keys' = DOMAIN keys /\ keys'[a] = q
    BY <1>1, <2>2, <2>6, <2>7, <2>8, <2>9, KeyChanges, Zenon
  <2>11. CASE AWS!Fail(c)
    BY <1>1, <2>10, <2>11, FailInv
  <2>12. CASE AWS!Goto(c, "poll") /\ AWS!Quiet
    <3>1. /\ CommandMoves(c) /\ cmd'[c].pc = "poll" /\ cmd'[c].source = cmd[c].source
          /\ cmd'[c].target = cmd[c].target /\ cmd'[c].arn = cmd[c].arn
      BY <2>12, AWSGoes
    <3>2. SoundAWS(c)'
      BY <1>1, <2>1, <2>6, <2>10, <3>1 DEF SoundAWS
    <3>3. QED BY <1>1, <2>10, <2>12, <3>1, <3>2, AWSGoesOn
  <2>13. QED BY <1>2, <2>11, <2>12, Zenon DEF AWS!ImportKeyMaterial
<1>4. QED BY <1>2, <1>3 DEF AWS!ImportKeyMaterial

\* Deleted material leaves the key its identity.
LEMMA DeleteMaterialInv ==
  ASSUME AWSInv, NEW a \in DOMAIN keys, AWS!DeleteMaterial(a)
  PROVE  AWSInv'
<1>1. /\ alias' = alias /\ cmd' = cmd /\ AWS!Quiet
      /\ deletes < MaxDeletes /\ deletes' = deletes + 1
  BY DEF AWS!DeleteMaterial
<1>2. PICK k \in AWS!Key : k = keys[a]
  BY <1>1, AWSTypes
<1>3. PICK q : q = [k EXCEPT !.enabled = FALSE]
  BY Zenon
<1>4. q \in AWS!Key /\ q.by = k.by /\ q.identity = k.identity
  BY <1>3, Zenon DEF AWS!Key
<1>5. keys' = [keys EXCEPT ![a] = q]
  BY <1>2, <1>3, AWSTypes DEF AWS!DeleteMaterial
<1>6. deletes' \in 0..MaxDeletes
  BY <1>1, AWSImportAssumption DEF AWSInv, AWS!TypeOK
<1>7. ASSUME NEW c \in Commands
      PROVE  KmsGoesOn(c) /\ DOMAIN keys' = DOMAIN keys
  BY <1>1, <1>2, <1>4, <1>5, <1>6, KeyChanges, Zenon
<1>8. \A c \in Commands : SoundAWS(c)'
  BY <1>1, <1>7, AWSFrame, Zenon DEF KmsGoesOn, AWS!Quiet, HistoryKept
<1>9. keys[a].by \in Commands
  BY <1>2 DEF AWS!Key
<1>10. \A r \in ready' \cup pending' : SoundReport(r)'
  BY <1>1, <1>7, <1>9, ReportKept DEF KmsGoesOn, AWS!Quiet
<1>11. AWS!TypeOK' /\ OneKeyEach'
  BY <1>1, <1>6, <1>7, <1>9 DEF KmsGoesOn, AWSInv, AWS!TypeOK, AWS!Quiet
<1>12. QED BY <1>8, <1>10, <1>11 DEF AWSInv

\* KMS has no keys, and no command has started.
LEMMA AWSInit ==
  ASSUME AWS!Init
  PROVE  AWSInv
<1>1. /\ keys = <<>> /\ alias = 0 /\ ready = {} /\ pending = {} /\ named = {} /\ deletes = 0
  BY DEF AWS!Init
<1>2. PICK r : r = [pc |-> "idle", source |-> None, target |-> None, arn |-> 0, attempt |-> 0]
  BY Zenon
<1>3. r \in AWS!Command /\ r.pc = "idle" /\ r.arn = 0
  <2>1. 0 \in 0..Attempts - 1
    BY AWSImportAssumption
  <2>2. QED BY <1>2, <2>1 DEF AWS!Command
<1>4. cmd \in [Commands -> AWS!Command] /\ \A c \in Commands : cmd[c] = r
  BY <1>2, <1>3 DEF AWS!Init
<1>5. Len(keys) = 0 /\ DOMAIN keys = {} /\ keys \in Seq(AWS!Key)
  BY <1>1
<1>6. AWS!TypeOK
  BY <1>1, <1>4, <1>5, AWSImportAssumption DEF AWS!TypeOK
<1>7. \A c \in Commands : SoundAWS(c)
  BY <1>3, <1>4, <1>5 DEF SoundAWS
<1>8. QED BY <1>1, <1>5, <1>6, <1>7 DEF AWSInv, OneKeyEach

\* Every step keeps the invariant of AWS.
LEMMA AWSStep ==
  ASSUME AWSInv, [AWS!Next]_<<cmd, awsVars>>
  PROVE  AWSInv'
<1>1. ASSUME NEW c \in Commands, AWS!Step(c)
      PROVE  AWSInv'
  BY <1>1, DescribeInv, ReadBindingInv, ComparePublicInv, CreateKeyInv, CreateAliasInv,
     ParametersInv, ImportMaterialInv, PollInv DEF AWS!Step
<1>2. CASE UNCHANGED <<cmd, awsVars>>
  BY <1>2, Zenon DEF awsVars, AWSInv, AWS!TypeOK, OneKeyEach, SoundAWS, Accounted, SoundReport
<1>3. CASE AWS!Finished
  BY <1>2, <1>3 DEF AWS!Finished, AWS!vars, awsVars
<1>4. QED BY <1>1, <1>2, <1>3, StartCommandInv, DeleteMaterialInv DEF AWS!Next
-----------------------------------------------------------------------------
(* Cloud KMS.                                                              *)

\* The crypto key is one that c may import into.
KeyFits(c) == key # None /\ key.fits /\ key.level = cmd[c].level

SoundGCP(c) ==
  /\ cmd[c].pc = "idle" => cmd[c].source = None /\ ~cmd[c].provision
  /\ cmd[c].provision => cmd[c].source = None /\ cmd[c].version = 0
                         /\ cmd[c].pc \in {"getRing", "makeRing", "makeKey", "done"}
  /\ cmd[c].pc # "idle" /\ ~cmd[c].provision => cmd[c].source \in Sources
  /\ cmd[c].pc = "regetKey" => key # None
  /\ cmd[c].pc \in {"getJob", "makeJob", "waitJob", "import", "waitVersion", "verify"} => KeyFits(c)
  /\ cmd[c].pc \in {"waitJob", "import"} => job # None
  /\ cmd[c].pc = "import" => job.level = cmd[c].level
  /\ cmd[c].pc \in {"waitVersion", "verify"} => cmd[c].version # 0
  /\ cmd[c].version # 0 =>
       /\ cmd[c].pc \in {"waitVersion", "verify", "done"} /\ KeyFits(c)
       /\ versions[cmd[c].version].level = cmd[c].level
       /\ versions[cmd[c].version].identity = cmd[c].source

\* The one provision that reported the key made it, and its first version.
SoundCreation(c) ==
  /\ cmd[c].pc = "done" /\ versions # <<>>
  /\ versions[1].identity = FreshKey /\ versions[1].level = cmd[c].level

GCPInv ==
  /\ GCP!TypeOK
  /\ key = None => versions = <<>> /\ created = {}
  /\ \A c \in Commands : SoundGCP(c)
  /\ \A c \in created : SoundCreation(c)
  /\ \A c, d \in created : c = d
  /\ \A r \in verified : r[1] \in DOMAIN versions /\ versions[r[1]].identity = r[2]

\* What any step may do to Cloud KMS: the key stays as it was created, the job its
\* level, and versions are added and change only their state.
CloudGoesOn ==
  /\ ring' \in BOOLEAN /\ key' \in GCP!Key \cup {None} /\ job' \in GCP!Job \cup {None}
  /\ versions' \in Seq(GCP!Version) /\ Len(versions) <= Len(versions')
  /\ \A v \in 1..Len(versions) : /\ versions'[v].identity = versions[v].identity
                                 /\ versions'[v].level = versions[v].level
  /\ key # None => key' = key
  /\ key' = None => versions' = <<>>
  /\ job # None => job' # None /\ job'.level = job.level

\* The types of a state of the invariant.
LEMMA GCPTypes ==
  ASSUME GCPInv
  PROVE  /\ versions \in Seq(GCP!Version) /\ Len(versions) \in Nat
         /\ DOMAIN versions = 1..Len(versions)
         /\ cmd \in [Commands -> GCP!Command]
         /\ \A c \in Commands : cmd[c].version \in 0..Len(versions)
BY DEF GCPInv, GCP!TypeOK

\* A command that does not move stays sound.
LEMMA GCPFrame ==
  ASSUME GCPInv, CloudGoesOn, NEW d \in Commands, cmd'[d] = cmd[d]
  PROVE  SoundGCP(d)' /\ cmd'[d].version \in 0..Len(versions')
<1>1. /\ Len(versions) \in Nat /\ Len(versions') \in Nat /\ Len(versions) <= Len(versions')
      /\ cmd[d].version \in 0..Len(versions) /\ SoundGCP(d)
  BY GCPTypes DEF GCPInv, CloudGoesOn
<1>2. key # None => key' = key
  BY DEF CloudGoesOn
<1>3. KeyFits(d) => KeyFits(d)'
  BY <1>2 DEF KeyFits
<1>4. job # None => job' # None /\ job'.level = job.level
  BY DEF CloudGoesOn
<1>5. cmd[d].version # 0 => /\ versions'[cmd[d].version].level = versions[cmd[d].version].level
                            /\ versions'[cmd[d].version].identity = versions[cmd[d].version].identity
  BY <1>1 DEF CloudGoesOn
<1>6. SoundGCP(d)'
  BY <1>1, <1>2, <1>3, <1>4, <1>5, Zenon DEF SoundGCP
<1>7. QED BY <1>1, <1>6

\* A reported creation stays true.
LEMMA CreationKept ==
  ASSUME GCPInv, CloudGoesOn, NEW d \in created, cmd'[d] = cmd[d]
  PROVE  SoundCreation(d)'
<1>1. /\ versions \in Seq(GCP!Version) /\ Len(versions) \in Nat /\ Len(versions') \in Nat
      /\ versions' \in Seq(GCP!Version) /\ Len(versions) <= Len(versions')
      /\ SoundCreation(d)
  BY GCPTypes DEF GCPInv, CloudGoesOn
<1>2. 1 \in 1..Len(versions)
  BY <1>1 DEF SoundCreation
<1>3. versions' # <<>>
  BY <1>1, <1>2
<1>4. versions'[1].identity = versions[1].identity /\ versions'[1].level = versions[1].level
  BY <1>2 DEF CloudGoesOn
<1>5. QED BY <1>1, <1>3, <1>4 DEF SoundCreation

\* A reported verification stays true.
LEMMA VerifiedKept ==
  ASSUME GCPInv, CloudGoesOn, NEW r \in verified
  PROVE  r[1] \in DOMAIN versions' /\ versions'[r[1]].identity = r[2]
<1>1. /\ Len(versions) \in Nat /\ Len(versions') \in Nat /\ Len(versions) <= Len(versions')
      /\ DOMAIN versions' = 1..Len(versions') /\ r[1] \in 1..Len(versions)
      /\ versions[r[1]].identity = r[2]
  BY GCPTypes DEF GCPInv, CloudGoesOn
<1>2. r[1] \in 1..Len(versions')
  BY <1>1
<1>3. QED BY <1>1, <1>2 DEF CloudGoesOn

\* A command changes its own state, and not the level it asks for.
CloudMoves(c) ==
  /\ cmd' \in [Commands -> GCP!Command] /\ cmd'[c].version \in 0..Len(versions')
  /\ \A d \in Commands : d # c => cmd'[d] = cmd[d]

\* One command moves, and may report.
LEMMA GCPMove ==
  ASSUME GCPInv, CloudGoesOn, NEW c \in Commands, cmd[c].pc # "done", CloudMoves(c), SoundGCP(c)',
         created' \subseteq created \cup {c},
         c \in created' => key = None /\ key' # None /\ SoundCreation(c)',
         \A r \in verified' : \/ r \in verified
                              \/ r[1] \in DOMAIN versions' /\ versions'[r[1]].identity = r[2]
  PROVE  GCPInv'
<1>1. \A d \in Commands : SoundGCP(d)' /\ cmd'[d].version \in 0..Len(versions')
  BY GCPFrame, Zenon DEF CloudMoves
<1>2. c \notin created /\ created \subseteq Commands
  BY DEF GCPInv, SoundCreation, GCP!TypeOK
<1>3. \A d \in created : SoundCreation(d)'
  BY <1>2, CreationKept DEF CloudMoves
<1>4. \A d \in created' : SoundCreation(d)'
  BY <1>3, Zenon
<1>5. \A d, e \in created' : d = e
  BY DEF GCPInv
<1>6. key' = None => versions' = <<>> /\ created' = {}
  BY DEF GCPInv, CloudGoesOn
<1>7. \A r \in verified' : r[1] \in DOMAIN versions' /\ versions'[r[1]].identity = r[2]
  BY VerifiedKept, Zenon
<1>8. GCP!TypeOK'
  BY <1>1, <1>2 DEF CloudGoesOn, CloudMoves, GCP!TypeOK
<1>9. QED BY <1>1, <1>4, <1>5, <1>6, <1>7, <1>8, Zenon DEF GCPInv

\* A step that reports nothing.
LEMMA GCPGoesOn ==
  ASSUME GCPInv, CloudGoesOn, NEW c \in Commands, cmd[c].pc # "done", CloudMoves(c), SoundGCP(c)',
         GCP!Quiet
  PROVE  GCPInv'
<1>1. c \notin created
  BY DEF GCPInv, SoundCreation
<1>2. created' = created /\ verified' = verified
  BY DEF GCP!Quiet
<1>3. QED BY <1>1, <1>2, GCPMove, Zenon

\* A step that leaves Cloud KMS alone.
LEMMA CloudStays ==
  ASSUME GCPInv, GCP!Kms
  PROVE  CloudGoesOn
BY DEF GCPInv, GCP!TypeOK, GCP!Kms, CloudGoesOn

\* A command goes on to pc.
LEMMA GCPGoes ==
  ASSUME GCPInv, CloudGoesOn, NEW c \in Commands, NEW pc, GCP!Goto(c, pc),
         pc \in {"getRing", "makeRing", "makeKey", "regetKey", "getJob", "makeJob", "waitJob",
                 "import", "verify", "done"}
  PROVE  /\ CloudMoves(c) /\ cmd'[c].pc = pc /\ cmd'[c].source = cmd[c].source
         /\ cmd'[c].provision = cmd[c].provision /\ cmd'[c].level = cmd[c].level
         /\ cmd'[c].version = cmd[c].version
<1>1. PICK r \in GCP!Command : r = cmd[c]
  BY GCPTypes
<1>2. PICK q : q = [r EXCEPT !.pc = pc]
  BY Zenon
<1>3. /\ q.pc = pc /\ q.source = r.source /\ q.provision = r.provision /\ q.level = r.level
      /\ q.version = r.version
  BY <1>1, <1>2 DEF GCP!Command
<1>4. q \in GCP!Command
  BY <1>1, <1>2 DEF GCP!Command
<1>5. cmd' = [cmd EXCEPT ![c] = q]
  BY <1>1, <1>2, GCPTypes DEF GCP!Goto
<1>6. r.version \in 0..Len(versions')
  BY <1>1, GCPTypes DEF CloudGoesOn
<1>7. QED BY <1>1, <1>3, <1>4, <1>5, <1>6, GCPTypes DEF CloudMoves

\* What a command must have found to go on to pc.
MayGo(c, pc) ==
  /\ cmd[c].pc \notin {"idle", "done"}
  /\ cmd[c].pc \in {"waitVersion", "verify"} => pc \in {"verify", "done"}
  /\ cmd[c].provision => pc \in {"makeRing", "makeKey", "done"}
  /\ pc = "regetKey" => key' # None
  /\ pc \in {"getJob", "makeJob", "waitJob", "import", "verify"} =>
       key' # None /\ key'.fits /\ key'.level = cmd[c].level
  /\ pc \in {"waitJob", "import"} => job' # None
  /\ pc = "import" => job'.level = cmd[c].level
  /\ pc = "verify" => cmd[c].version # 0

\* It is sound then.
LEMMA GCPGoesSound ==
  ASSUME GCPInv, CloudGoesOn, NEW c \in Commands, NEW pc, GCP!Goto(c, pc),
         pc \in {"getRing", "makeRing", "makeKey", "regetKey", "getJob", "makeJob", "waitJob",
                 "import", "verify", "done"},
         MayGo(c, pc)
  PROVE  SoundGCP(c)' /\ CloudMoves(c) /\ cmd'[c].pc = pc /\ cmd'[c].level = cmd[c].level
<1>1. /\ CloudMoves(c) /\ cmd'[c].pc = pc /\ cmd'[c].source = cmd[c].source
      /\ cmd'[c].provision = cmd[c].provision /\ cmd'[c].level = cmd[c].level
      /\ cmd'[c].version = cmd[c].version
  BY GCPGoes
<1>2. SoundGCP(c) /\ Len(versions) \in Nat /\ cmd[c].version \in 0..Len(versions)
  BY GCPTypes DEF GCPInv
<1>3. /\ cmd[c].version # 0 => /\ pc \in {"verify", "done"}
                               /\ key' # None /\ key'.fits /\ key'.level = cmd[c].level
                               /\ versions[cmd[c].version].level = cmd[c].level
                               /\ versions[cmd[c].version].identity = cmd[c].source
  BY <1>2, Zenon DEF SoundGCP, MayGo, KeyFits, CloudGoesOn
<1>4. cmd[c].version # 0 => /\ versions'[cmd[c].version].level = cmd[c].level
                            /\ versions'[cmd[c].version].identity = cmd[c].source
  BY <1>2, <1>3 DEF CloudGoesOn
<1>5. cmd[c].provision => cmd[c].source = None /\ cmd[c].version = 0
  BY <1>2, Zenon DEF SoundGCP
<1>6. ~cmd[c].provision => cmd[c].source \in Sources
  BY <1>2, Zenon DEF SoundGCP, MayGo
<1>7. pc \in {"getJob", "makeJob", "waitJob", "import", "verify"} => KeyFits(c)'
  BY <1>1, Zenon DEF MayGo, KeyFits
<1>8. cmd[c].version # 0 => KeyFits(c)'
  BY <1>1, <1>3 DEF KeyFits
<1>9. pc = "regetKey" => key' # None
  BY DEF MayGo
<1>10. /\ pc \in {"waitJob", "import"} => job' # None
       /\ pc = "import" => job'.level = cmd[c].level
       /\ pc = "verify" => cmd[c].version # 0
  BY DEF MayGo
<1>11. cmd[c].provision => pc \in {"makeRing", "makeKey", "done"}
  BY DEF MayGo
<1>12. SoundGCP(c)'
  BY <1>1, <1>3, <1>4, <1>5, <1>6, <1>7, <1>8, <1>9, <1>10, <1>11, Zenon DEF SoundGCP
<1>13. QED BY <1>1, <1>12, Zenon

\* So a step that reports nothing keeps the invariant.
LEMMA GotoInv ==
  ASSUME GCPInv, CloudGoesOn, NEW c \in Commands, NEW pc, GCP!Goto(c, pc),
         pc \in {"getRing", "makeRing", "makeKey", "regetKey", "getJob", "makeJob", "waitJob",
                 "import", "verify", "done"},
         MayGo(c, pc), GCP!Quiet
  PROVE  GCPInv'
<1>1. SoundGCP(c)' /\ CloudMoves(c)
  BY GCPGoesSound, Zenon
<1>2. QED BY <1>1, GCPGoesOn, Zenon DEF MayGo

\* A command fails.
LEMMA GCPFails ==
  ASSUME GCPInv, CloudGoesOn, NEW c \in Commands, cmd[c].pc \notin {"idle", "done"},
         GCP!Fail(c), GCP!Quiet
  PROVE  GCPInv'
<1>1. MayGo(c, "done")
  BY DEF MayGo
<1>2. QED BY <1>1, GotoInv, Zenon DEF GCP!Fail

\* An import is started.
LEMMA StartGCPImportInv ==
  ASSUME GCPInv, NEW c \in Commands, NEW k \in Sources, GCP!Import(c, k)
  PROVE  GCPInv'
<1>1. PICK r \in GCP!Command : r = cmd[c]
  BY GCPTypes
<1>2. PICK p : p = [r EXCEPT !.pc = "getKey"]
  BY Zenon
<1>3. PICK q : q = [p EXCEPT !.source = k]
  BY Zenon
<1>4. p \in GCP!Command /\ p.pc = "getKey" /\ p.version = r.version /\ p.provision = r.provision
  BY <1>2 DEF GCP!Command
<1>5. /\ q \in GCP!Command /\ q.pc = "getKey" /\ q.version = r.version /\ q.source = k
      /\ q.provision = r.provision
  BY <1>3, <1>4 DEF GCP!Command
<1>6. cmd' = [cmd EXCEPT ![c] = q]
  BY <1>1, <1>2, <1>3, GCPTypes, Zenon DEF GCP!Import
<1>7. cmd[c].pc = "idle" /\ GCP!Kms /\ GCP!Quiet
  BY DEF GCP!Import, GCP!At
<1>8. ~r.provision /\ r.version = 0
  BY <1>1, <1>7, GCPTypes, Zenon DEF GCPInv, SoundGCP
<1>9. CloudMoves(c) /\ cmd'[c] = q
  BY <1>5, <1>6, <1>8, GCPTypes, <1>7 DEF CloudMoves, GCP!Kms
<1>10. SoundGCP(c)'
  BY <1>5, <1>8, <1>9, Zenon DEF SoundGCP
<1>11. QED BY <1>7, <1>9, <1>10, CloudStays, GCPGoesOn

\* A provision is started.
LEMMA StartProvisionInv ==
  ASSUME GCPInv, NEW c \in Commands, GCP!Provision(c)
  PROVE  GCPInv'
<1>1. PICK r \in GCP!Command : r = cmd[c]
  BY GCPTypes
<1>2. PICK p : p = [r EXCEPT !.pc = "getRing"]
  BY Zenon
<1>3. PICK q : q = [p EXCEPT !.provision = TRUE]
  BY Zenon
<1>4. p \in GCP!Command /\ p.pc = "getRing" /\ p.version = r.version /\ p.source = r.source
  BY <1>2 DEF GCP!Command
<1>5. /\ q \in GCP!Command /\ q.pc = "getRing" /\ q.version = r.version /\ q.source = r.source
      /\ q.provision = TRUE
  BY <1>3, <1>4, Zenon DEF GCP!Command
<1>6. cmd' = [cmd EXCEPT ![c] = q]
  BY <1>1, <1>2, <1>3, GCPTypes, Zenon DEF GCP!Provision
<1>7. cmd[c].pc = "idle" /\ GCP!Kms /\ GCP!Quiet
  BY DEF GCP!Provision, GCP!At
<1>8. r.source = None /\ r.version = 0
  BY <1>1, <1>7, GCPTypes, Zenon DEF GCPInv, SoundGCP
<1>9. CloudMoves(c) /\ cmd'[c] = q
  BY <1>5, <1>6, <1>8, GCPTypes, <1>7 DEF CloudMoves, GCP!Kms
<1>10. SoundGCP(c)'
  BY <1>5, <1>8, <1>9, Zenon DEF SoundGCP
<1>11. QED BY <1>7, <1>9, <1>10, CloudStays, GCPGoesOn

\* The key is looked up: it must fit, or be missing.
LEMMA EnsureKeyInv ==
  ASSUME GCPInv, NEW c \in Commands, GCP!ensureImportCryptoKey(c)
  PROVE  GCPInv'
<1>1. cmd[c].pc = "getKey" /\ GCP!Kms /\ GCP!Quiet /\ CloudGoesOn
  BY CloudStays DEF GCP!ensureImportCryptoKey, GCP!At
<1>2. ~cmd[c].provision
  BY <1>1 DEF GCPInv, SoundGCP
<1>3. CASE GCP!Goto(c, "getRing")
  <2>1. MayGo(c, "getRing")
    BY <1>1, <1>2 DEF MayGo
  <2>2. QED BY <1>1, <1>3, <2>1, GotoInv
<1>4. CASE key # None /\ GCP!checkImportCryptoKey(c) /\ GCP!Goto(c, "getJob")
  <2>1. MayGo(c, "getJob")
    BY <1>1, <1>2, <1>4 DEF MayGo, GCP!checkImportCryptoKey, GCP!Kms
  <2>2. QED BY <1>1, <1>4, <2>1, GotoInv
<1>5. CASE GCP!Fail(c)
  BY <1>1, <1>5, GCPFails
<1>6. QED BY <1>3, <1>4, <1>5 DEF GCP!ensureImportCryptoKey

\* The key ring is looked up.
LEMMA GetKeyRingInv ==
  ASSUME GCPInv, NEW c \in Commands, GCP!GetKeyRing(c)
  PROVE  GCPInv'
<1>1. cmd[c].pc = "getRing" /\ GCP!Kms /\ GCP!Quiet /\ CloudGoesOn
  BY CloudStays DEF GCP!GetKeyRing, GCP!At
<1>2. CASE GCP!Fail(c)
  BY <1>1, <1>2, GCPFails
<1>3. CASE GCP!Goto(c, IF ring THEN "makeKey" ELSE "makeRing")
  <2>1. PICK pc \in {"makeKey", "makeRing"} : GCP!Goto(c, pc)
    BY <1>3
  <2>2. MayGo(c, pc)
    BY <1>1, <2>1 DEF MayGo
  <2>3. QED BY <1>1, <2>1, <2>2, GotoInv
<1>4. QED BY <1>2, <1>3 DEF GCP!GetKeyRing

\* The key ring is created.
LEMMA CreateKeyRingInv ==
  ASSUME GCPInv, NEW c \in Commands, GCP!CreateKeyRing(c)
  PROVE  GCPInv'
<1>1. cmd[c].pc = "makeRing" /\ UNCHANGED <<key, job, versions>> /\ GCP!Quiet
  BY DEF GCP!CreateKeyRing, GCP!At
<1>2. ring' \in BOOLEAN
  BY Zenon DEF GCP!CreateKeyRing, GCPInv, GCP!TypeOK
<1>3. CloudGoesOn
  BY <1>1, <1>2 DEF CloudGoesOn, GCPInv, GCP!TypeOK
<1>4. CASE GCP!Fail(c)
  BY <1>1, <1>3, <1>4, GCPFails
<1>5. CASE GCP!Goto(c, "makeKey")
  <2>1. MayGo(c, "makeKey")
    BY <1>1 DEF MayGo
  <2>2. QED BY <1>1, <1>3, <1>5, <2>1, GotoInv
<1>6. QED BY <1>4, <1>5 DEF GCP!CreateKeyRing

\* The key is created, with its first version by a provision and with none by an
\* import; a key that is there is looked at again.
LEMMA CreateCryptoKeyInv ==
  ASSUME GCPInv, NEW c \in Commands, GCP!CreateCryptoKey(c)
  PROVE  GCPInv'
<1>1. cmd[c].pc = "makeKey" /\ UNCHANGED <<ring, job, verified>> /\ cmd[c].level \in Levels
  BY GCPTypes DEF GCP!CreateCryptoKey, GCP!At, GCP!Command
<1>2. CASE UNCHANGED <<key, versions, created>>
  <2>1. CloudGoesOn /\ GCP!Quiet
    BY <1>1, <1>2, CloudStays DEF GCP!Kms, GCP!Quiet
  <2>2. CASE GCP!Fail(c)
    BY <1>1, <2>1, <2>2, GCPFails
  <2>3. CASE key # None /\ ~cmd[c].provision /\ GCP!Goto(c, "regetKey")
    <3>1. MayGo(c, "regetKey")
      BY <1>1, <1>2, <2>3 DEF MayGo
    <3>2. QED BY <2>1, <2>3, <3>1, GotoInv
  <2>4. CASE key = None /\ key' = [fits |-> TRUE, level |-> cmd[c].level]
    <3>1. key' \in GCP!Key
      BY <1>1, <2>4 DEF GCP!Key
    <3>2. QED BY <1>2, <2>4, <3>1, GCPImportAssumption
  <2>5. QED BY <2>2, <2>3, <2>4 DEF GCP!CreateCryptoKey
<1>3. CASE /\ key = None /\ key' = [fits |-> TRUE, level |-> cmd[c].level]
           /\ versions' = IF cmd[c].provision THEN Append(versions, GCP!Generated(c)) ELSE versions
           /\ \/ /\ GCP!Goto(c, IF cmd[c].provision THEN "done" ELSE "getJob")
                 /\ created' = IF cmd[c].provision THEN created \cup {c} ELSE created
              \/ GCP!Fail(c) /\ UNCHANGED created
  <2>1. key' \in GCP!Key /\ key'.fits /\ key'.level = cmd[c].level
    BY <1>1, <1>3, Zenon DEF GCP!Key
  <2>2. key' # None
    BY <2>1, GCPImportAssumption
  <2>3. versions = <<>> /\ created = {}
    BY <1>3, Zenon DEF GCPInv
  <2>4. PICK g \in GCP!Version : g = GCP!Generated(c) /\ g.identity = FreshKey /\ g.level = cmd[c].level
    <3>1. GCP!Generated(c) \in GCP!Version
      BY <1>1 DEF GCP!Generated, GCP!Version
    <3>2. GCP!Generated(c).identity = FreshKey /\ GCP!Generated(c).level = cmd[c].level
      BY DEF GCP!Generated
    <3>3. QED BY <3>1, <3>2
  <2>5. Append(<<>>, g) = <<g>>
    OBVIOUS
  <2>6. versions' = IF cmd[c].provision THEN <<g>> ELSE <<>>
    BY <1>3, <2>3, <2>4, <2>5
  <2>7. versions' \in Seq(GCP!Version) /\ Len(versions) <= Len(versions')
    BY <2>3, <2>6
  <2>8. CloudGoesOn
    <3>1. 1..Len(versions) = {}
      BY <2>3
    <3>2. ring' \in BOOLEAN /\ job' \in GCP!Job \cup {None}
      BY <1>1, Zenon DEF GCPInv, GCP!TypeOK
    <3>3. job # None => job' # None /\ job'.level = job.level
      BY <1>1, Zenon
    <3>4. QED BY <1>3, <2>1, <2>2, <2>7, <3>1, <3>2, <3>3 DEF CloudGoesOn
  <2>9. PICK pc \in {"done", "getJob"} : GCP!Goto(c, pc) /\ (cmd[c].provision => pc = "done")
    BY <1>3 DEF GCP!Fail
  <2>10. MayGo(c, pc)
    BY <1>1, <2>1, <2>2, <2>9 DEF MayGo
  <2>11. SoundGCP(c)' /\ CloudMoves(c) /\ cmd'[c].pc = pc /\ cmd'[c].level = cmd[c].level
    BY <2>8, <2>9, <2>10, GCPGoesSound, Zenon
  <2>12. created' \subseteq created \cup {c} /\ (c \in created' => cmd[c].provision)
    BY <1>3, <2>3
  <2>13. ASSUME c \in created' PROVE SoundCreation(c)'
    <3>1. cmd[c].provision /\ versions' = <<g>> /\ pc = "done"
      BY <2>6, <2>9, <2>12, <2>13
    <3>2. versions' # <<>> /\ versions'[1] = g
      BY <3>1
    <3>3. QED BY <2>4, <2>11, <3>1, <3>2 DEF SoundCreation
  <2>14. QED BY <1>1, <1>3, <2>2, <2>8, <2>11, <2>12, <2>13, GCPMove, Zenon
<1>4. QED BY <1>2, <1>3 DEF GCP!CreateCryptoKey

\* The key that another command created must fit.
LEMMA RegetKeyInv ==
  ASSUME GCPInv, NEW c \in Commands, GCP!RegetKey(c)
  PROVE  GCPInv'
<1>1. cmd[c].pc = "regetKey" /\ GCP!Kms /\ GCP!Quiet /\ CloudGoesOn
  BY CloudStays DEF GCP!RegetKey, GCP!At
<1>2. ~cmd[c].provision /\ key # None
  BY <1>1, Zenon DEF GCPInv, SoundGCP
<1>3. CASE GCP!checkImportCryptoKey(c) /\ GCP!Goto(c, "getJob")
  <2>1. MayGo(c, "getJob")
    BY <1>1, <1>2, <1>3, Zenon DEF MayGo, GCP!checkImportCryptoKey, GCP!Kms
  <2>2. QED BY <1>1, <1>3, <2>1, GotoInv
<1>4. CASE GCP!Fail(c)
  BY <1>1, <1>4, GCPFails
<1>5. QED BY <1>3, <1>4 DEF GCP!RegetKey

\* What an import knows of the key and the job while it asks for the job.
LEMMA ImportsOnly ==
  ASSUME GCPInv, NEW c \in Commands,
         cmd[c].pc \in {"getJob", "makeJob", "waitJob", "import", "waitVersion", "verify"}
  PROVE  /\ ~cmd[c].provision /\ key # None /\ key.fits /\ key.level = cmd[c].level
         /\ cmd[c].source \in Sources /\ cmd[c].level \in Levels
BY GCPTypes, Zenon DEF GCPInv, SoundGCP, KeyFits, GCP!Command

\* The import job is looked up.
LEMMA GetImportJobInv ==
  ASSUME GCPInv, NEW c \in Commands, GCP!GetImportJob(c)
  PROVE  GCPInv'
<1>1. cmd[c].pc = "getJob" /\ GCP!Kms /\ GCP!Quiet /\ CloudGoesOn
  BY CloudStays DEF GCP!GetImportJob, GCP!At
<1>2. CASE GCP!Fail(c)
  BY <1>1, <1>2, GCPFails
<1>3. CASE GCP!Goto(c, IF job = None THEN "makeJob" ELSE "waitJob")
  <2>1. PICK pc \in {"makeJob", "waitJob"} : GCP!Goto(c, pc) /\ (pc = "waitJob" => job # None)
    BY <1>3
  <2>2. MayGo(c, pc)
    BY <1>1, <2>1, ImportsOnly DEF MayGo, GCP!Kms
  <2>3. QED BY <1>1, <2>1, <2>2, GotoInv
<1>4. QED BY <1>2, <1>3 DEF GCP!GetImportJob

\* The import job is created, or another command's is used.
LEMMA CreateImportJobInv ==
  ASSUME GCPInv, NEW c \in Commands, GCP!CreateImportJob(c)
  PROVE  GCPInv'
<1>1. cmd[c].pc = "makeJob" /\ UNCHANGED <<ring, key, versions>> /\ GCP!Quiet
  BY DEF GCP!CreateImportJob, GCP!At
<1>2. PICK j : j = [direct |-> TRUE, level |-> cmd[c].level, state |-> "generating"]
  BY Zenon
<1>3. j \in GCP!Job
  BY <1>1, <1>2, ImportsOnly, Zenon DEF GCP!Job
<1>4. j # None
  BY <1>3, GCPImportAssumption
<1>5. job' = job \/ (job = None /\ job' = j)
  BY <1>2 DEF GCP!CreateImportJob
<1>6. CloudGoesOn
  BY <1>1, <1>3, <1>4, <1>5 DEF CloudGoesOn, GCPInv, GCP!TypeOK
<1>7. CASE GCP!Fail(c)
  BY <1>1, <1>6, <1>7, GCPFails, Zenon
<1>8. CASE /\ job' = IF job = None THEN j ELSE job
           /\ GCP!Goto(c, "waitJob")
  <2>1. MayGo(c, "waitJob")
    BY <1>1, <1>4, <1>8, ImportsOnly DEF MayGo
  <2>2. QED BY <1>1, <1>6, <1>8, <2>1, GotoInv
<1>9. QED BY <1>2, <1>7, <1>8 DEF GCP!CreateImportJob

\* The job is waited for, and must be at the command's level.
LEMMA WaitJobInv ==
  ASSUME GCPInv, NEW c \in Commands, GCP!waitImportJobActive(c)
  PROVE  GCPInv'
<1>1. cmd[c].pc = "waitJob" /\ GCP!Kms /\ GCP!Quiet /\ CloudGoesOn
  BY CloudStays DEF GCP!waitImportJobActive, GCP!At
<1>2. job # None
  BY <1>1 DEF GCPInv, SoundGCP
<1>3. CASE job.level = cmd[c].level /\ GCP!Goto(c, "import")
  <2>1. MayGo(c, "import")
    BY <1>1, <1>2, <1>3, ImportsOnly DEF MayGo, GCP!Kms
  <2>2. QED BY <1>1, <1>3, <2>1, GotoInv
<1>4. CASE GCP!Fail(c)
  BY <1>1, <1>4, GCPFails
<1>5. QED BY <1>3, <1>4 DEF GCP!waitImportJobActive

\* A version is imported at the job's level.
LEMMA ImportVersionInv ==
  ASSUME GCPInv, NEW c \in Commands, GCP!ImportCryptoKeyVersion(c)
  PROVE  GCPInv'
<1>1. cmd[c].pc = "import" /\ UNCHANGED <<ring, key, job>> /\ GCP!Quiet
  BY DEF GCP!ImportCryptoKeyVersion, GCP!At
<1>2. /\ job # None /\ job.level = cmd[c].level /\ ~cmd[c].provision /\ key # None /\ key.fits
      /\ key.level = cmd[c].level /\ cmd[c].source \in Sources /\ cmd[c].level \in Levels
  BY <1>1, ImportsOnly, Zenon DEF GCPInv, SoundGCP
<1>3. CASE UNCHANGED versions /\ GCP!Fail(c)
  BY <1>1, <1>3, CloudStays, GCPFails DEF GCP!Kms
<1>4. CASE versions' = Append(versions, [identity |-> cmd[c].source, level |-> job.level,
                                         state |-> "pending"])
  <2>1. PICK w : w = [identity |-> cmd[c].source, level |-> job.level, state |-> "pending"]
    BY Zenon
  <2>2. w \in GCP!Version /\ w.identity = cmd[c].source /\ w.level = cmd[c].level
    BY <1>2, <2>1, Zenon DEF GCP!Version
  <2>3. versions' = Append(versions, w)
    BY <1>4, <2>1
  <2> versions \in Seq(GCP!Version) /\ Len(versions) \in Nat
    BY GCPTypes
  <2>4. PICK n \in Nat : n = Len(versions) + 1
    OBVIOUS
  <2>5. /\ versions' \in Seq(GCP!Version) /\ Len(versions') = n /\ versions'[n] = w
        /\ \A v \in 1..Len(versions) : versions'[v] = versions[v]
    BY <2>2, <2>3, <2>4
  <2>6. CloudGoesOn
    <3>1. Len(versions) <= Len(versions')
      BY <2>4, <2>5
    <3>2. /\ ring' \in BOOLEAN /\ key' \in GCP!Key \cup {None} /\ job' \in GCP!Job \cup {None}
      BY <1>1 DEF GCPInv, GCP!TypeOK
    <3>3. key' = key /\ key' # None /\ job' = job
      BY <1>1, <1>2
    <3>4. QED BY <2>5, <3>1, <3>2, <3>3 DEF CloudGoesOn
  <2>7. CASE GCP!Fail(c)
    BY <1>1, <2>6, <2>7, GCPFails, Zenon
  <2>8. CASE cmd' = [cmd EXCEPT ![c].pc = "waitVersion", ![c].version = Len(versions) + 1]
    <3>1. PICK r \in GCP!Command : r = cmd[c]
      BY GCPTypes
    <3>2. PICK p : p = [r EXCEPT !.pc = "waitVersion"]
      BY Zenon
    <3>3. PICK q : q = [p EXCEPT !.version = n]
      BY Zenon
    <3>4. /\ p \in GCP!Command /\ p.pc = "waitVersion" /\ p.source = r.source
          /\ p.provision = r.provision /\ p.level = r.level
      BY <3>2 DEF GCP!Command
    <3>5. /\ q \in GCP!Command /\ q.pc = "waitVersion" /\ q.source = r.source
          /\ q.provision = r.provision /\ q.level = r.level /\ q.version = n
      BY <3>3, <3>4 DEF GCP!Command
    <3>6. cmd' = [cmd EXCEPT ![c] = q]
      BY <2>4, <2>8, <3>1, <3>2, <3>3, GCPTypes, Zenon
    <3>7. CloudMoves(c) /\ cmd'[c] = q
      BY <2>4, <2>5, <3>5, <3>6, GCPTypes DEF CloudMoves
    <3>8. n # 0
      BY <2>4, GCPTypes
    <3>9. KeyFits(c)'
      BY <1>1, <1>2, <3>1, <3>5, <3>7 DEF KeyFits
    <3>10. SoundGCP(c)'
      BY <1>2, <2>2, <2>5, <3>1, <3>5, <3>7, <3>8, <3>9 DEF SoundGCP
    <3>11. QED BY <1>1, <2>6, <3>7, <3>10, GCPGoesOn
  <2>9. QED BY <1>3, <2>7, <2>8 DEF GCP!ImportCryptoKeyVersion
<1>5. QED BY <1>3, <1>4 DEF GCP!ImportCryptoKeyVersion

\* The version is waited for.
LEMMA WaitVersionInv ==
  ASSUME GCPInv, NEW c \in Commands, GCP!waitVersionEnabled(c)
  PROVE  GCPInv'
<1>1. cmd[c].pc = "waitVersion" /\ GCP!Kms /\ GCP!Quiet /\ CloudGoesOn
  BY CloudStays DEF GCP!waitVersionEnabled, GCP!At
<1>2. cmd[c].version # 0
  BY <1>1 DEF GCPInv, SoundGCP
<1>3. PICK pc \in {"verify", "done"} : GCP!Goto(c, pc)
  BY DEF GCP!waitVersionEnabled
<1>4. MayGo(c, pc)
  BY <1>1, <1>2, ImportsOnly DEF MayGo, GCP!Kms
<1>5. QED BY <1>1, <1>3, <1>4, GotoInv

\* An import that has verified its version reports it.
LEMMA VerifyVersionInv ==
  ASSUME GCPInv, NEW c \in Commands, GCP!VerifyImported(c)
  PROVE  GCPInv'
<1>1. cmd[c].pc = "verify" /\ GCP!Kms /\ CloudGoesOn /\ created' = created /\ GCP!Goto(c, "done")
  BY CloudStays DEF GCP!VerifyImported, GCP!At, GCP!Fail
<1>2. /\ cmd[c].version # 0 /\ cmd[c].version \in DOMAIN versions
      /\ versions[cmd[c].version].identity = cmd[c].source
  <2>1. cmd[c].version # 0 /\ versions[cmd[c].version].identity = cmd[c].source
    BY <1>1 DEF GCPInv, SoundGCP
  <2>2. QED BY <2>1, GCPTypes
<1>3. MayGo(c, "done")
  BY <1>1 DEF MayGo
<1>4. SoundGCP(c)' /\ CloudMoves(c)
  BY <1>1, <1>3, GCPGoesSound
<1>5. PICK r : r = <<cmd[c].version, cmd[c].source>>
  BY Zenon
<1>6. verified' \subseteq verified \cup {r} /\ r[1] = cmd[c].version /\ r[2] = cmd[c].source
  BY <1>5 DEF GCP!VerifyImported
<1>7. r[1] \in DOMAIN versions' /\ versions'[r[1]].identity = r[2]
  BY <1>1, <1>2, <1>6 DEF GCP!Kms
<1>8. c \notin created
  BY <1>1 DEF GCPInv, SoundCreation
<1>9. QED BY <1>1, <1>4, <1>6, <1>7, <1>8, GCPMove

\* A step of Cloud KMS itself.
LEMMA CloudInv ==
  ASSUME GCPInv, CloudGoesOn, UNCHANGED cmd, GCP!Quiet
  PROVE  GCPInv'
<1>1. \A d \in Commands : SoundGCP(d)' /\ cmd'[d].version \in 0..Len(versions')
  BY GCPFrame
<1>2. created' = created /\ verified' = verified
  BY DEF GCP!Quiet
<1>3. \A d \in created' : SoundCreation(d)'
  BY <1>2, CreationKept
<1>4. \A r \in verified' : r[1] \in DOMAIN versions' /\ versions'[r[1]].identity = r[2]
  BY <1>2, VerifiedKept
<1>5. GCP!TypeOK'
  BY <1>1, <1>2 DEF CloudGoesOn, GCPInv, GCP!TypeOK
<1>6. key' = None => versions' = <<>> /\ created' = {}
  BY <1>2 DEF GCPInv, CloudGoesOn
<1>7. QED BY <1>1, <1>2, <1>3, <1>4, <1>5, <1>6 DEF GCPInv

\* The import job becomes active, or expires.
LEMMA JobInv ==
  ASSUME GCPInv, GCP!JobActive \/ GCP!JobExpires
  PROVE  GCPInv'
<1>1. /\ job # None /\ UNCHANGED <<ring, key, versions, cmd>> /\ GCP!Quiet
  BY DEF GCP!JobActive, GCP!JobExpires
<1>2. job \in GCP!Job
  BY <1>1 DEF GCPInv, GCP!TypeOK
<1>3. PICK s \in {"active", "expired"} : job' = [job EXCEPT !.state = s]
  BY DEF GCP!JobActive, GCP!JobExpires
<1>4. job' \in GCP!Job /\ job'.level = job.level
  BY <1>2, <1>3 DEF GCP!Job
<1>5. job' # None
  BY <1>4, GCPImportAssumption
<1>6. CloudGoesOn
  BY <1>1, <1>4, <1>5 DEF CloudGoesOn, GCPInv, GCP!TypeOK
<1>7. QED BY <1>1, <1>6, CloudInv

\* Cloud KMS finishes an import.
LEMMA VersionDoneInv ==
  ASSUME GCPInv, NEW v \in DOMAIN versions, NEW to \in {"enabled", "failed"},
         GCP!VersionDone(v, to)
  PROVE  GCPInv'
<1>1. UNCHANGED <<ring, key, job, cmd>> /\ GCP!Quiet
  BY DEF GCP!VersionDone
<1>2. PICK w \in GCP!Version : w = versions[v]
  BY GCPTypes
<1>3. PICK q : q = [w EXCEPT !.state = to]
  BY Zenon
<1>4. q \in GCP!Version /\ q.identity = w.identity /\ q.level = w.level
  BY <1>3 DEF GCP!Version
<1>5. versions' = [versions EXCEPT ![v] = q]
  BY <1>2, <1>3, GCPTypes DEF GCP!VersionDone
<1>6. /\ versions' \in Seq(GCP!Version) /\ Len(versions') = Len(versions) /\ versions'[v] = q
      /\ \A u \in DOMAIN versions : u # v => versions'[u] = versions[u]
  BY <1>4, <1>5, GCPTypes
<1>7. key # None
  BY GCPTypes DEF GCPInv
<1>8. CloudGoesOn
  BY <1>1, <1>2, <1>4, <1>6, <1>7, GCPTypes DEF CloudGoesOn, GCPInv, GCP!TypeOK
<1>9. QED BY <1>1, <1>8, CloudInv

\* Other tools may have made the key and the job; no command has started.
LEMMA GCPInit ==
  ASSUME GCP!Init
  PROVE  GCPInv
<1>1. versions = <<>> /\ verified = {} /\ created = {}
  BY DEF GCP!Init
<1>2. \A c \in Commands : /\ cmd[c] \in GCP!Command /\ cmd[c].pc = "idle" /\ cmd[c].version = 0
                          /\ ~cmd[c].provision /\ cmd[c].source = None
  <2> SUFFICES ASSUME NEW c \in Commands
               PROVE  /\ cmd[c] \in GCP!Command /\ cmd[c].pc = "idle" /\ cmd[c].version = 0
                      /\ ~cmd[c].provision /\ cmd[c].source = None
    OBVIOUS
  <2>1. PICK r \in [pc : {"idle"}, provision : {FALSE}, source : {None}, level : Levels,
                    version : {0}] : r = cmd[c]
    BY Zenon DEF GCP!Init
  <2>2. r.pc = "idle" /\ r.version = 0 /\ r.provision = FALSE /\ r.source = None
    BY Zenon
  <2>3. r.provision \in BOOLEAN /\ r.level \in Levels
    BY <2>2, Zenon
  <2>4. r = [pc |-> r.pc, provision |-> r.provision, source |-> r.source, level |-> r.level,
             version |-> r.version]
    OBVIOUS
  <2>5. r \in GCP!Command
    BY <2>2, <2>3, <2>4 DEF GCP!Command
  <2>6. QED BY <2>1, <2>2, <2>5
<1>3. cmd \in [Commands -> GCP!Command]
  BY <1>2 DEF GCP!Init
<1>4. Len(versions) = 0 /\ versions \in Seq(GCP!Version)
  BY <1>1
<1>5. ring \in BOOLEAN /\ key \in GCP!Key \cup {None} /\ job \in GCP!Job \cup {None}
  BY DEF GCP!Init
<1>6. GCP!TypeOK
  BY <1>1, <1>2, <1>3, <1>4, <1>5 DEF GCP!TypeOK
<1>7. \A c \in Commands : SoundGCP(c)
  BY <1>2 DEF SoundGCP
<1>8. QED BY <1>1, <1>6, <1>7 DEF GCPInv

\* Every step keeps the invariant of Cloud KMS.
LEMMA GCPStep ==
  ASSUME GCPInv, [GCP!Next]_<<cmd, gcpVars>>
  PROVE  GCPInv'
<1>1. ASSUME NEW c \in Commands, GCP!Step(c)
      PROVE  GCPInv'
  BY <1>1, EnsureKeyInv, GetKeyRingInv, CreateKeyRingInv, CreateCryptoKeyInv, RegetKeyInv,
     GetImportJobInv, CreateImportJobInv, WaitJobInv, ImportVersionInv, WaitVersionInv,
     VerifyVersionInv DEF GCP!Step
<1>2. CASE UNCHANGED <<cmd, gcpVars>>
  BY <1>2, CloudStays, CloudInv DEF gcpVars, GCP!Kms, GCP!Quiet
<1>3. CASE GCP!Finished
  BY <1>2, <1>3 DEF GCP!Finished, GCP!vars, gcpVars
<1>4. QED BY <1>1, <1>2, <1>3, StartGCPImportInv, StartProvisionInv, JobInv, VersionDoneInv
      DEF GCP!Next
=============================================================================
