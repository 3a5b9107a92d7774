-------------------------- MODULE KeySessionProofs --------------------------
(* One attempt at a wrong PIN, signatures of the cached key only, and a      *)
(* module that outlives the sessions on it, for any number of PKCS#11        *)
(* backends, keys, PINs and faults; and a Vault token that is kept alive for *)
(* any tokens, sleeps and failing calls that its life covers.                *)
EXTENDS KeySession, FiniteSetTheorems, TLAPS

\* A signature waits for its verification, and who is closed has no session.
SoundBackend(s) ==
  /\ s.pc = "verify" => s.sig \in Keys
  /\ s.pc = "off" => s.session = "none"

BackendsOK ==
  /\ be \in [Backends -> PKCS11!Backend]
  /\ \A b \in Backends : SoundBackend(be[b])

TokenOK ==
  /\ token \in [present : BOOLEAN, key : Keys, pin : PINs]
  /\ pinFile \in PINs /\ faults \in 0..MaxFaults /\ loggedIn \in BOOLEAN

\* A refused PIN closes the latch, so that there is no second attempt.
LatchOK == latch \in BOOLEAN /\ attempts \in {0, 1} /\ (attempts = 1 => latch)

Open == {b \in Backends : be[b].pc # "off"}

\* The registry counts the backends that are not closed, and knows whether it is
\* its own initialization that they use, if there is one still.
ModuleOK ==
  /\ module \in [refs : Nat, owned : BOOLEAN, init : PKCS11!Inits]
  /\ module.refs = Cardinality(Open)
  /\ module.owned => module.refs > 0 /\ module.init # "foreign"
  /\ module.init = "ours" => module.owned
  /\ \A b \in Backends : be[b].session = "ok" => module.init # "none"

SignedOK == \A s \in signed : s \in Keys \X Keys /\ s[1] = s[2]

PKCS11Inv == BackendsOK /\ TokenOK /\ LatchOK /\ ModuleOK /\ SignedOK

\* What the retries of f failed calls take, and f passes of the loop.
Spent(f) == LookupRetry * f
Missed(f) == Poll * f

VaultTypes ==
  /\ left \in [Tokens -> Nat] /\ \A t \in Tokens : left[t] <= Period[t]
  /\ written \subseteq Tokens /\ file \in written \cup {Nil} /\ client \in written
  /\ age \in 0..Poll + 1 /\ writes \in 0..MaxWrites
  /\ started \in BOOLEAN /\ closed \in BOOLEAN
  /\ loop \in Vault!Loop /\ (~started => loop.pc = "none")
  /\ loop.pc \notin {"sleep", "ended"} => loop.wake = 0
  /\ loop.pc = "verify" => loop.candidate \in written \ {client} /\ file # client
  /\ faults \in 0..MaxFailures

\* The token in use has, when the loop wakes, what the retries that are left take:
\* twice that until its renewal is scheduled, and once from the deadline on.
ClientOK ==
  /\ client \in Signers /\ (Period[client] > 0 => client \in Renewable)
  /\ Period[client] > 0 /\ loop.renewAt = Nil =>
       left[client] - loop.wake >= 2 * Retries - Spent(faults)
  /\ Period[client] > 0 /\ loop.renewAt # Nil =>
       /\ left[client] - loop.wake >= Retries - Spent(faults)
       /\ loop.renewAt > loop.wake => left[client] - loop.renewAt >= Retries - Spent(faults)

\* The loop has not yet looked at what is in the file.
Unseen == loop.pc \in {"sleep", "file"} \/ (loop.pc = "verify" /\ loop.candidate = file)

\* A good replacement in the file was looked at in every pass but a failed one.
FileOK ==
  file \in (Signers \cap Renewable) \ {client} /\ loop.pc # "ended" =>
    /\ Period[file] > 0 =>
         left[file] - loop.wake >= Period[file] - Missed(IF Unseen THEN faults + 1 ELSE faults)
    /\ faults = 0 => age + loop.wake <= IF Unseen THEN Poll ELSE 0

\* So has the one that is being verified, if it is good, all that it needs.
CandidateOK ==
  loop.pc = "verify" /\ loop.candidate \in Signers \cap Renewable /\ Period[loop.candidate] > 0 =>
    left[loop.candidate] >= 2 * Retries

VaultInv == VaultTypes /\ ClientOK /\ FileOK /\ CandidateOK

SessionInv ==
  /\ type \in {"vault", "pkcs11"}
  /\ type = "vault" => VaultInv
  /\ type = "pkcs11" => PKCS11Inv

\* What a step may not do: change the answer of a backend, initialise a module that
\* is in use, or finalize one that is, or that something else initialised.
PubKept == \A b \in Backends : be[b].pub # Nil => be'[b].pub \in {be[b].pub, Nil}
InitKept ==
  \/ module'.init = module.init
  \/ module.init = "none" /\ module.refs = 0
  \/ module.init = "ours" /\ module'.refs = 0

\* A session of state s is one that was there, or on an initialised module.
MayHaveSession(b, s) == s.session = "ok" => be[b].session = "ok" \/ module.init # "none"
-----------------------------------------------------------------------------
(* The count of references.                                                *)

\* The open backends are finitely many.
LEMMA OpenFinite == IsFiniteSet(Open) /\ Cardinality(Open) \in Nat /\ Cardinality(Open) <= Cardinality(Backends)
<1>1. Open \subseteq Backends
  BY DEF Open
<1>2. QED BY <1>1, FS_Subset, FS_CardinalityType, SessionAssumption

\* Nothing is opened or closed.
LEMMA CountSame ==
  ASSUME ModuleOK, \A b \in Backends : be'[b].pc = "off" <=> be[b].pc = "off", module' = module,
         \A b \in Backends : MayHaveSession(b, be'[b])
  PROVE  ModuleOK' /\ InitKept
<1>1. Open' = Open
  BY DEF Open
<1>2. \A b \in Backends : be'[b].session = "ok" => module'.init # "none"
  BY DEF ModuleOK, MayHaveSession
<1>3. QED BY <1>1, <1>2 DEF ModuleOK, InitKept

\* acquirePKCS11Module counts one more, and initialises for the first.
LEMMA CountAcquired ==
  ASSUME ModuleOK, BackendsOK, NEW b \in Backends, PKCS11!Acquire(b),
         be'[b].pc # "off", be'[b].session = "none", \A c \in Backends \ {b} : be'[c] = be[c]
  PROVE  ModuleOK' /\ InitKept
<1>1. Open' = Open \cup {b} /\ b \notin Open
  BY DEF Open, PKCS11!Acquire, PKCS11!At
<1>2. Cardinality(Open') = Cardinality(Open) + 1
  BY <1>1, OpenFinite, FS_AddElement, Zenon
<1>3. CASE module.refs = 0
  <2>1. module.init \in {"none", "foreign"} /\ ~module.owned
    BY <1>3 DEF ModuleOK, PKCS11!Inits
  <2>2. /\ module'.refs = 1 /\ module' \in [refs : Nat, owned : BOOLEAN, init : PKCS11!Inits]
        /\ module'.owned <=> module.init = "none"
        /\ module'.init = IF module.init = "none" THEN "ours" ELSE "foreign"
    BY <1>3, <2>1, Zenon DEF PKCS11!Acquire, PKCS11!Inits
  <2>3. QED BY <1>2, <1>3, <2>1, <2>2 DEF ModuleOK, InitKept
<1>4. CASE module.refs # 0
  <2>1. /\ module'.refs = module.refs + 1 /\ module'.owned = module.owned
        /\ module'.init = module.init
        /\ module' \in [refs : Nat, owned : BOOLEAN, init : PKCS11!Inits]
    BY <1>4 DEF PKCS11!Acquire, ModuleOK
  <2>2. \A c \in Backends : be'[c].session = "ok" => module'.init # "none"
    BY <2>1 DEF ModuleOK
  <2>3. QED BY <1>2, <2>1, <2>2 DEF ModuleOK, InitKept
<1>5. QED BY <1>3, <1>4

\* release counts one less, and finalizes only after the last.
LEMMA CountReleased ==
  ASSUME ModuleOK, BackendsOK, NEW b \in Backends, be[b].pc # "off",
         be'[b].pc = "off", be'[b].session = "none", \A c \in Backends \ {b} : be'[c] = be[c],
         PKCS11!release
  PROVE  ModuleOK' /\ InitKept
<1>1. Open' = Open \ {b} /\ b \in Open
  BY DEF Open
<1>2. Cardinality(Open') = Cardinality(Open) - 1 /\ Cardinality(Open) # 0
  BY <1>1, OpenFinite, FS_RemoveElement, FS_EmptySet
<1>3. module.refs \in Nat /\ module.refs >= 1
  BY <1>2, OpenFinite DEF ModuleOK
<1>4. /\ module'.refs = module.refs - 1
      /\ module'.owned = (module.owned /\ module.refs - 1 > 0)
      /\ module'.init = IF module.refs = 1 /\ module.owned THEN "none" ELSE module.init
      /\ module' \in [refs : Nat, owned : BOOLEAN, init : PKCS11!Inits]
  BY <1>3 DEF PKCS11!release, PKCS11!Released, PKCS11!Inits, ModuleOK
<1>5. \A c \in Backends : be'[c].session = "ok" => module'.init # "none"
  <2>1. CASE module.refs = 1
    <3>1. Cardinality(Open') = 0
      BY <1>2, <2>1 DEF ModuleOK
    <3>2. IsFiniteSet(Open')
      BY <1>1, OpenFinite, FS_RemoveElement
    <3>3. Open' = {}
      BY <3>1, <3>2, FS_EmptySet
    <3>4. \A c \in Backends : be'[c].pc = "off"
      BY <3>3 DEF Open
    <3>5. \A c \in Backends : be'[c].session = "none"
      BY <3>4 DEF BackendsOK, SoundBackend
    <3>6. QED BY <3>5
  <2>2. CASE module.refs # 1
    BY <1>4, <2>2 DEF ModuleOK
  <2>3. QED BY <2>1, <2>2
<1>6. ModuleOK'
  BY <1>2, <1>3, <1>4, <1>5 DEF ModuleOK, PKCS11!Inits
<1>7. InitKept
  BY <1>3, <1>4 DEF InitKept, ModuleOK, PKCS11!Inits
<1>8. QED BY <1>6, <1>7
-----------------------------------------------------------------------------
(* The backends.                                                           *)

\* One backend goes on to state s.
LEMMA BackendGoes ==
  ASSUME BackendsOK, NEW b \in Backends, NEW s \in PKCS11!Backend, SoundBackend(s),
         be' = [be EXCEPT ![b] = s], be[b].pub # Nil => s.pub \in {be[b].pub, Nil}
  PROVE  /\ BackendsOK' /\ PubKept
         /\ be'[b] = s /\ \A c \in Backends \ {b} : be'[c] = be[c]
BY DEF BackendsOK, PubKept

\* It does so without opening or closing.
LEMMA OpenBackendGoes ==
  ASSUME BackendsOK, ModuleOK, NEW b \in Backends, NEW s \in PKCS11!Backend, SoundBackend(s),
         be' = [be EXCEPT ![b] = s], be[b].pub # Nil => s.pub \in {be[b].pub, Nil},
         be[b].pc # "off", s.pc # "off", module' = module, MayHaveSession(b, s)
  PROVE  BackendsOK' /\ PubKept /\ ModuleOK' /\ InitKept
<1>1. /\ BackendsOK' /\ PubKept
      /\ be'[b] = s /\ \A c \in Backends \ {b} : be'[c] = be[c]
  BY BackendGoes, Zenon
<1>2. \A c \in Backends : be'[c].pc = "off" <=> be[c].pc = "off"
  BY <1>1
<1>3. \A c \in Backends : MayHaveSession(c, be'[c])
  BY <1>1 DEF MayHaveSession
<1>4. QED BY <1>1, <1>2, <1>3, CountSame

\* It closes: Close, and newPKCS11 after an error.
LEMMA BackendCloses ==
  ASSUME BackendsOK, ModuleOK, NEW b \in Backends, be[b].pc # "off",
         be' = [be EXCEPT ![b] = PKCS11!Off], PKCS11!release
  PROVE  BackendsOK' /\ PubKept /\ ModuleOK' /\ InitKept
<1>1. PICK s : s = PKCS11!Off
  OBVIOUS
<1>2. s \in PKCS11!Backend /\ s.pc = "off" /\ s.pub = Nil /\ s.session = "none"
  BY <1>1 DEF PKCS11!Off, PKCS11!Backend
<1>3. /\ BackendsOK' /\ PubKept
      /\ be'[b] = s /\ \A c \in Backends \ {b} : be'[c] = be[c]
  BY <1>1, <1>2, BackendGoes, Zenon DEF SoundBackend
<1>4. QED BY <1>2, <1>3, CountReleased

\* reopen fails.
LEMMA ReopenFailed ==
  ASSUME BackendsOK, ModuleOK, NEW b \in Backends, be[b].pc # "off",
         NEW pinFailure \in BOOLEAN, PKCS11!ReopenFails(b, pinFailure)
  PROVE  BackendsOK' /\ PubKept /\ ModuleOK' /\ InitKept
<1>1. CASE be[b].pub = Nil
  BY <1>1, BackendCloses DEF PKCS11!ReopenFails, PKCS11!Update
<1>2. CASE be[b].pub # Nil
  <2>1. PICK s : s = [be[b] EXCEPT !.pc = "idle", !.session = "none", !.pin = Nil,
                                   !.pinFailure = pinFailure]
    OBVIOUS
  <2>2. s \in PKCS11!Backend /\ s.pc = "idle" /\ s.pub = be[b].pub /\ s.session = "none"
    <3>1. be[b] \in PKCS11!Backend
      BY DEF BackendsOK
    <3>2. QED BY <2>1, <3>1, Zenon DEF PKCS11!Backend
  <2>3. be' = [be EXCEPT ![b] = s] /\ module' = module
    BY <1>2, <2>1 DEF PKCS11!ReopenFails, PKCS11!Update
  <2>4. QED BY <2>2, <2>3, OpenBackendGoes, Zenon DEF SoundBackend, MayHaveSession
<1>3. QED BY <1>1, <1>2

\* acquirePKCS11Module and the steps of reopen.
LEMMA ReopenSteps ==
  ASSUME PKCS11Inv, NEW b \in Backends,
         \/ PKCS11!Acquire(b) \/ PKCS11!Select(b) \/ PKCS11!OpenSession(b) \/ PKCS11!Login(b)
         \/ PKCS11!FindKeys(b)
  PROVE  PKCS11Inv' /\ PubKept /\ InitKept
<1>1. BackendsOK /\ ModuleOK /\ TokenOK /\ LatchOK /\ SignedOK /\ be[b] \in PKCS11!Backend
  BY DEF PKCS11Inv, BackendsOK
<1>2. /\ token' = token /\ pinFile' = pinFile /\ faults' = faults /\ signed' = signed
  BY Zenon DEF PKCS11!Acquire, PKCS11!Select, PKCS11!OpenSession, PKCS11!Login, PKCS11!FindKeys,
         PKCS11!external
<1>3. TokenOK' /\ SignedOK'
  <2>1. PKCS11!Logout => loggedIn' \in BOOLEAN
    BY DEF PKCS11!Logout
  <2>2. loggedIn' \in BOOLEAN
    BY <1>1, <2>1, Zenon DEF TokenOK, PKCS11!Acquire, PKCS11!Select, PKCS11!OpenSession, PKCS11!Login,
                      PKCS11!FindKeys
  <2>3. QED BY <1>1, <1>2, <2>2 DEF TokenOK, SignedOK
<1>4. LatchOK'
  <2>1. \/ attempts' = attempts /\ latch' = latch
        \/ ~latch /\ attempts' = attempts + 1 /\ latch' = TRUE
    BY Zenon DEF PKCS11!Acquire, PKCS11!Select, PKCS11!OpenSession, PKCS11!Login, PKCS11!FindKeys
  <2>2. CASE attempts' = attempts /\ latch' = latch
    BY <1>1, <2>2 DEF LatchOK
  <2>3. CASE ~latch /\ attempts' = attempts + 1 /\ latch' = TRUE
    <3>1. attempts = 0
      BY <1>1, <2>3 DEF LatchOK
    <3>2. attempts' \in {0, 1}
      BY <2>3, <3>1
    <3>3. QED BY <2>3, <3>2 DEF LatchOK
  <2>4. QED BY <2>1, <2>2, <2>3, Zenon
<1>5. BackendsOK' /\ PubKept /\ ModuleOK' /\ InitKept
  <2>1. CASE PKCS11!Acquire(b)
    <3>1. PICK s : s = [PKCS11!Off EXCEPT !.pc = "select"]
      BY Zenon
    <3>2. s \in PKCS11!Backend /\ s.pc = "select" /\ s.pub = Nil /\ s.session = "none"
      BY <3>1, Zenon DEF PKCS11!Off, PKCS11!Backend
    <3>3. be' = [be EXCEPT ![b] = s] /\ be[b].pc = "off"
      BY <2>1, <3>1 DEF PKCS11!Acquire, PKCS11!Update, PKCS11!At
    <3>4. /\ BackendsOK' /\ PubKept
          /\ be'[b] = s /\ \A c \in Backends \ {b} : be'[c] = be[c]
      BY <1>1, <3>2, <3>3, BackendGoes, Zenon DEF SoundBackend
    <3>5. QED BY <1>1, <2>1, <3>2, <3>4, CountAcquired
  <2>2. CASE PKCS11!Select(b)
    <3>1. be[b].pc # "off"
      BY <2>2 DEF PKCS11!Select, PKCS11!At
    <3>2. PICK s : s = [be[b] EXCEPT !.pc = "open", !.pin = pinFile]
      OBVIOUS
    <3>3. /\ s \in PKCS11!Backend /\ s.pc = "open" /\ s.pub = be[b].pub
          /\ s.session = be[b].session
      BY <1>1, <3>2, Zenon DEF PKCS11!Backend, TokenOK
    <3>4. (be' = [be EXCEPT ![b] = s] /\ module' = module) \/ PKCS11!ReopenFails(b, FALSE)
      BY <2>2, <3>2, Zenon DEF PKCS11!Select, PKCS11!Update
    <3>5. QED BY <1>1, <3>1, <3>3, <3>4, OpenBackendGoes, ReopenFailed, Zenon
             DEF SoundBackend, MayHaveSession
  <2>3. CASE PKCS11!OpenSession(b)
    <3>1. be[b].pc # "off"
      BY <2>3 DEF PKCS11!OpenSession, PKCS11!At
    <3>2. PICK s : s = [be[b] EXCEPT !.pc = "login", !.session = "ok"]
      OBVIOUS
    <3>3. s \in PKCS11!Backend /\ s.pc = "login" /\ s.pub = be[b].pub
      BY <1>1, <3>2, Zenon DEF PKCS11!Backend
    <3>4. \/ be' = [be EXCEPT ![b] = s] /\ module' = module /\ module.init # "none"
          \/ PKCS11!ReopenFails(b, FALSE)
      BY <2>3, <3>2, Zenon DEF PKCS11!OpenSession, PKCS11!Update, PKCS11!Answers
    <3>5. QED BY <1>1, <3>1, <3>3, <3>4, OpenBackendGoes, ReopenFailed, Zenon
             DEF SoundBackend, MayHaveSession
  <2>4. CASE PKCS11!Login(b)
    <3>1. be[b].pc # "off"
      BY <2>4 DEF PKCS11!Login, PKCS11!At
    <3>2. PICK s : s = [be[b] EXCEPT !.pc = "keys", !.pin = Nil]
      OBVIOUS
    <3>3. /\ s \in PKCS11!Backend /\ s.pc = "keys" /\ s.pub = be[b].pub
          /\ s.session = be[b].session
      BY <1>1, <3>2, Zenon DEF PKCS11!Backend
    <3>4. \/ be' = [be EXCEPT ![b] = s] /\ module' = module
          \/ PKCS11!ReopenFails(b, FALSE) \/ PKCS11!ReopenFails(b, TRUE)
      BY <2>4, <3>2, Zenon DEF PKCS11!Login, PKCS11!Update
    <3>5. QED BY <1>1, <3>1, <3>3, <3>4, OpenBackendGoes, ReopenFailed, Zenon
             DEF SoundBackend, MayHaveSession
  <2>5. CASE PKCS11!FindKeys(b)
    <3>1. be[b].pc # "off"
      BY <2>5 DEF PKCS11!FindKeys, PKCS11!At
    <3>2. PICK s : s = [be[b] EXCEPT !.pc = be[b].next, !.next = "idle", !.pub = token.key]
      OBVIOUS
    <3>3. /\ s \in PKCS11!Backend /\ s.pc \in {"idle", "sign", "precheck", "resign"}
          /\ s.pub = token.key /\ s.session = be[b].session
      BY <1>1, <3>2, Zenon DEF PKCS11!Backend, TokenOK
    <3>4. \/ /\ be' = [be EXCEPT ![b] = s] /\ module' = module /\ be[b].pub \in {Nil, token.key}
          \/ PKCS11!ReopenFails(b, FALSE)
      BY <2>5, <3>2, Zenon DEF PKCS11!FindKeys, PKCS11!Update
    <3>5. QED BY <1>1, <3>1, <3>3, <3>4, OpenBackendGoes, ReopenFailed, Zenon
             DEF SoundBackend, MayHaveSession
  <2>6. QED BY <2>1, <2>2, <2>3, <2>4, <2>5
<1>6. QED BY <1>3, <1>4, <1>5 DEF PKCS11Inv

\* The operations of an open backend, and Close.
LEMMA OperationSteps ==
  ASSUME PKCS11Inv, NEW b \in Backends,
         \/ \E op \in {"sign", "precheck"} : PKCS11!Begin(b, op)
         \/ PKCS11!ModuleSign(b) \/ PKCS11!Verify(b) \/ PKCS11!Precheck(b) \/ PKCS11!Close(b)
  PROVE  PKCS11Inv' /\ PubKept /\ InitKept
<1>1. /\ BackendsOK /\ ModuleOK /\ TokenOK /\ LatchOK /\ SignedOK
      /\ be[b] \in PKCS11!Backend /\ SoundBackend(be[b])
  BY DEF PKCS11Inv, BackendsOK
<1>2. /\ token' = token /\ pinFile' = pinFile /\ faults' = faults
      /\ latch' = latch /\ attempts' = attempts
  BY DEF PKCS11!Begin, PKCS11!ModuleSign, PKCS11!Verify, PKCS11!Precheck, PKCS11!Close,
         PKCS11!external
<1>3. TokenOK' /\ LatchOK'
  <2>1. PKCS11!Logout => loggedIn' \in BOOLEAN
    BY DEF PKCS11!Logout
  <2>2. loggedIn' \in BOOLEAN
    BY <1>1, <2>1 DEF TokenOK, PKCS11!Begin, PKCS11!ModuleSign, PKCS11!Verify, PKCS11!Precheck,
                      PKCS11!Close
  <2>3. QED BY <1>1, <1>2, <2>2 DEF TokenOK, LatchOK
<1>4. SignedOK'
  <2>1. CASE PKCS11!Verify(b)
    <3>1. be[b].sig = be[b].pub => <<be[b].pub, be[b].sig>> \in Keys \X Keys
      BY <1>1, <2>1 DEF PKCS11!Verify, PKCS11!At, SoundBackend
    <3>2. QED BY <1>1, <2>1, <3>1 DEF PKCS11!Verify, SignedOK
  <2>2. CASE ~PKCS11!Verify(b)
    BY <1>1, <2>2 DEF PKCS11!Begin, PKCS11!ModuleSign, PKCS11!Precheck, PKCS11!Close, SignedOK
  <2>3. QED BY <2>1, <2>2
<1>5. BackendsOK' /\ PubKept /\ ModuleOK' /\ InitKept
  <2>1. ASSUME NEW op \in {"sign", "precheck"}, PKCS11!Begin(b, op)
        PROVE  BackendsOK' /\ PubKept /\ ModuleOK' /\ InitKept
    <3>1. PICK s : s = IF be[b].session = "none"
                       THEN [be[b] EXCEPT !.pc = "select", !.next = op]
                       ELSE [be[b] EXCEPT !.pc = op]
      BY Zenon
    <3>2. /\ s \in PKCS11!Backend /\ s.pc \in {"select", "sign", "precheck"}
          /\ s.pub = be[b].pub /\ s.session = be[b].session
      BY <1>1, <3>1, ZenonT(30) DEF PKCS11!Backend
    <3>3. be' = [be EXCEPT ![b] = s] /\ module' = module /\ be[b].pc # "off"
      BY <2>1, <3>1 DEF PKCS11!Begin, PKCS11!Update, PKCS11!At
    <3>4. QED BY <1>1, <3>2, <3>3, OpenBackendGoes, Zenon DEF SoundBackend, MayHaveSession
  <2>2. CASE PKCS11!ModuleSign(b)
    <3>1. be[b].pc # "off" /\ module' = module
      BY <2>2 DEF PKCS11!ModuleSign, PKCS11!At
    <3>2. PICK s : /\ be' = [be EXCEPT ![b] = s]
                   /\ \/ s = [be[b] EXCEPT !.pc = "verify", !.sig = token.key]
                      \/ s = [be[b] EXCEPT !.pc = "select", !.session = "none", !.next = "resign"]
                      \/ s = [be[b] EXCEPT !.pc = "idle", !.session = "none", !.sig = Nil]
      BY <2>2 DEF PKCS11!ModuleSign, PKCS11!Update, PKCS11!Dropped
    <3>3. /\ s \in PKCS11!Backend /\ s.pc \in {"verify", "select", "idle"}
          /\ s.pub = be[b].pub /\ (s.pc = "verify" => s.sig \in Keys)
          /\ s.session \in {"none", be[b].session}
      BY <1>1, <3>2, ZenonT(30) DEF PKCS11!Backend, TokenOK
    <3>4. QED BY <1>1, <3>1, <3>2, <3>3, OpenBackendGoes, Zenon DEF SoundBackend, MayHaveSession
  <2>3. CASE PKCS11!Verify(b) \/ PKCS11!Precheck(b)
    <3>1. be[b].pc # "off" /\ module' = module
      BY <2>3 DEF PKCS11!Verify, PKCS11!Precheck, PKCS11!At
    <3>2. PICK s : /\ be' = [be EXCEPT ![b] = s]
                   /\ \/ s = [be[b] EXCEPT !.pc = "idle", !.sig = Nil]
                      \/ s = [be[b] EXCEPT !.pc = "idle"]
      BY <2>3 DEF PKCS11!Verify, PKCS11!Precheck, PKCS11!Update
    <3>3. /\ s \in PKCS11!Backend /\ s.pc = "idle" /\ s.pub = be[b].pub
          /\ s.session = be[b].session
      BY <1>1, <3>2, Zenon DEF PKCS11!Backend
    <3>4. QED BY <1>1, <3>1, <3>2, <3>3, OpenBackendGoes, Zenon DEF SoundBackend, MayHaveSession
  <2>4. CASE PKCS11!Close(b)
    BY <1>1, <2>4, BackendCloses, Zenon DEF PKCS11!Close, PKCS11!Update, PKCS11!At
  <2>5. QED BY <2>1, <2>2, <2>3, <2>4
<1>6. QED BY <1>3, <1>4, <1>5 DEF PKCS11Inv
-----------------------------------------------------------------------------
(* The token, external.                                                    *)

\* A session fails in every backend that has one.
LEMMA SessionsFail ==
  ASSUME BackendsOK, ModuleOK, NEW s \in {"lost", "wedged"}, be' = PKCS11!Sessionless(s)
  PROVE  /\ BackendsOK' /\ PubKept
         /\ \A b \in Backends : be'[b].pc = be[b].pc /\ be'[b].session # "ok"
<1>1. ASSUME NEW b \in Backends
      PROVE  /\ be'[b] \in PKCS11!Backend /\ be'[b].pc = be[b].pc /\ be'[b].sig = be[b].sig
             /\ be'[b].pub = be[b].pub /\ be'[b].session # "ok"
             /\ be[b].session = "none" => be'[b].session = "none"
  <2>1. be[b] \in PKCS11!Backend
    BY DEF BackendsOK
  <2>2. PICK t : t = [be[b] EXCEPT !.session = s]
    BY Zenon
  <2>3. /\ t \in PKCS11!Backend /\ t.pc = be[b].pc /\ t.sig = be[b].sig /\ t.pub = be[b].pub
        /\ t.session = s
    BY <2>1, <2>2 DEF PKCS11!Backend
  <2>4. \/ be'[b] = be[b] /\ (be[b].session = "none" \/ module.init = "none")
        \/ be'[b] = t /\ be[b].session # "none"
    BY <2>2 DEF PKCS11!Sessionless
  <2>5. QED BY <2>1, <2>3, <2>4 DEF ModuleOK
<1>2. be' \in [Backends -> PKCS11!Backend]
  BY <1>1, Zenon DEF PKCS11!Sessionless
<1>3. \A b \in Backends : SoundBackend(be'[b])
  BY <1>1 DEF BackendsOK, SoundBackend
<1>4. QED BY <1>1, <1>2, <1>3 DEF BackendsOK, PubKept

\* The HSM restarts: the module is not initialised any more, and nobody has a session
\* that works.
LEMMA InitializationLost ==
  ASSUME BackendsOK, ModuleOK, PKCS11!ServerRestart
  PROVE  BackendsOK' /\ PubKept /\ ModuleOK'
<1>1. /\ BackendsOK' /\ PubKept
      /\ \A b \in Backends : be'[b].pc = be[b].pc /\ be'[b].session # "ok"
  BY SessionsFail DEF PKCS11!ServerRestart
<1>2. Open' = Open
  BY <1>1 DEF Open
<1>3. /\ module' \in [refs : Nat, owned : BOOLEAN, init : PKCS11!Inits]
      /\ module'.refs = module.refs /\ module'.owned = module.owned /\ module'.init = "none"
  BY DEF PKCS11!ServerRestart, ModuleOK, PKCS11!Inits
<1>4. QED BY <1>1, <1>2, <1>3 DEF ModuleOK

\* What happens to the token, to its HSM and to the PIN file.
LEMMA TokenSteps ==
  ASSUME PKCS11Inv,
         \/ PKCS11!Remove \/ PKCS11!Insert \/ PKCS11!Wedge \/ PKCS11!Replace
         \/ PKCS11!ServerRestart
  PROVE  PKCS11Inv' /\ PubKept /\ (InitKept \/ PKCS11!ServerRestart)
<1>1. BackendsOK /\ ModuleOK /\ TokenOK /\ LatchOK /\ SignedOK
  BY DEF PKCS11Inv
<1>2. /\ signed' = signed /\ latch' = latch /\ attempts' = attempts
      /\ module' = module \/ PKCS11!ServerRestart
  BY DEF PKCS11!Remove, PKCS11!Insert, PKCS11!Wedge, PKCS11!Replace, PKCS11!ServerRestart
<1>3. LatchOK' /\ SignedOK'
  BY <1>1, <1>2 DEF LatchOK, SignedOK
<1>4. TokenOK'
  <2>1. faults' \in 0..MaxFaults
    <3>1. PKCS11!Fault \/ faults' = faults
      BY DEF PKCS11!Remove, PKCS11!Insert, PKCS11!Wedge, PKCS11!Replace, PKCS11!ServerRestart
    <3>2. QED BY <1>1, <3>1, SessionAssumption DEF TokenOK, PKCS11!Fault
  <2>2. token' \in [present : BOOLEAN, key : Keys, pin : PINs] /\ pinFile' \in PINs
    BY <1>1, Zenon DEF TokenOK, PKCS11!Remove, PKCS11!Insert, PKCS11!Wedge, PKCS11!Replace,
                       PKCS11!ServerRestart
  <2>3. loggedIn' \in BOOLEAN
    BY <1>1, Zenon DEF TokenOK, PKCS11!Remove, PKCS11!Insert, PKCS11!Wedge, PKCS11!Replace,
                       PKCS11!ServerRestart
  <2>4. QED BY <2>1, <2>2, <2>3 DEF TokenOK
<1>5. BackendsOK' /\ PubKept /\ ModuleOK' /\ (InitKept \/ PKCS11!ServerRestart)
  <2>1. CASE PKCS11!ServerRestart
    BY <1>1, <2>1, InitializationLost
  <2>2. CASE module' = module /\ be' = be
    BY <1>1, <2>2, CountSame DEF BackendsOK, PubKept, MayHaveSession
  <2>3. CASE /\ module' = module
             /\ be' = PKCS11!Sessionless("lost") \/ be' = PKCS11!Sessionless("wedged")
    <3>1. /\ BackendsOK' /\ PubKept
          /\ \A b \in Backends : be'[b].pc = be[b].pc /\ be'[b].session # "ok"
      BY <1>1, <2>3, SessionsFail
    <3>2. QED BY <1>1, <2>3, <3>1, CountSame DEF MayHaveSession
  <2>4. QED BY <1>2, <2>1, <2>2, <2>3
            DEF PKCS11!Remove, PKCS11!Insert, PKCS11!Wedge, PKCS11!Replace
<1>6. QED BY <1>3, <1>4, <1>5 DEF PKCS11Inv
-----------------------------------------------------------------------------
(* The Vault token.                                                        *)

\* The constants, as numbers.
LEMMA Numbers ==
  /\ Poll \in Nat /\ LookupRetry \in Nat /\ RenewRetry \in Nat /\ Retries \in Nat
  /\ RenewRetry <= LookupRetry /\ LookupRetry <= Poll /\ Retries >= 1 /\ Poll >= 1
  /\ MaxFailures \in Nat /\ MaxWrites \in Nat /\ Nil \notin Int /\ Nil \notin Tokens
  /\ \A t \in Tokens : Period[t] \in Nat
<1>1. /\ Poll \in Nat /\ LookupRetry \in Nat /\ RenewRetry \in Nat /\ MaxFailures \in Nat
      /\ MaxWrites \in Nat /\ RenewRetry <= LookupRetry /\ LookupRetry <= Poll
      /\ 0 < RenewRetry
  BY RenewalAssumption
<1>2. LookupRetry * MaxFailures \in Nat
  BY <1>1
<1>3. QED BY <1>1, <1>2, RenewalAssumption DEF Retries

\* The longest period bounds them all.
LEMMA LongestPeriod == Vault!MaxPeriod \in Nat /\ \A t \in Tokens : Period[t] <= Vault!MaxPeriod
<1>1. \E n \in {Period[t] : t \in Tokens} : \A t \in Tokens : Period[t] <= n
  BY RenewalAssumption
<1>2. /\ Vault!MaxPeriod \in {Period[t] : t \in Tokens}
      /\ \A t \in Tokens : Period[t] <= Vault!MaxPeriod
  BY <1>1 DEF Vault!MaxPeriod
<1>3. QED BY <1>2, Numbers

\* What the retries so far have taken, and what they may have.
LEMMA Amounts ==
  ASSUME NEW f \in 0..MaxFailures
  PROVE  /\ f \in Nat /\ Spent(f) \in Nat /\ Spent(f + 1) = Spent(f) + LookupRetry
         /\ Missed(f) \in Nat /\ Missed(f + 1) = Missed(f) + Poll
         /\ Retries - Spent(f) >= 1
         /\ \A t \in Signers \cap Renewable :
              Period[t] > 0 => Period[t] - Missed(f + 1) >= 2 * Retries
<1>1. /\ Poll \in Nat /\ LookupRetry \in Nat /\ MaxFailures \in Nat /\ f \in Nat
      /\ f <= MaxFailures
  BY Numbers
<1>2. PICK d \in Nat : MaxFailures = f + d
  BY <1>1
<1>3. LookupRetry * f \in Nat /\ LookupRetry * d \in Nat /\ Poll * f \in Nat /\ Poll * d \in Nat
  BY <1>1
<1>4. LookupRetry * MaxFailures = LookupRetry * f + LookupRetry * d
  BY <1>1, <1>2
<1>5. Poll * (MaxFailures + 1) = Poll * (f + 1) + Poll * d
  BY <1>1, <1>2
<1>6. Poll * (f + 1) = Poll * f + Poll /\ LookupRetry * (f + 1) = LookupRetry * f + LookupRetry
  BY <1>1
<1>7. Retries - LookupRetry * f >= 1
  BY <1>3, <1>4 DEF Retries
<1>8. ASSUME NEW t \in Signers \cap Renewable, Period[t] > 0
      PROVE  Period[t] - Poll * (f + 1) >= 2 * Retries
  <2>1. Period[t] \in Nat /\ Retries \in Nat
    BY Numbers, RenewalAssumption
  <2>2. Period[t] >= 2 * Retries + Poll * (MaxFailures + 1)
    BY <1>8, LifetimeAssumption
  <2>3. Poll * (f + 1) \in Nat
    BY <1>1, <1>3, <1>6
  <2>4. QED BY <1>3, <1>5, <2>1, <2>2, <2>3
<1>9. QED BY <1>1, <1>3, <1>6, <1>7, <1>8 DEF Spent, Missed

\* The loop goes to sleep.
LEMMA FallsAsleep ==
  ASSUME loop \in Vault!Loop, NEW d \in 0..Poll,
         NEW r \in (-Poll..Vault!MaxPeriod) \cup {Nil}, Vault!Sleep(d, r)
  PROVE  /\ loop' \in Vault!Loop /\ loop'.pc = "sleep" /\ loop'.wake = d /\ loop'.renewAt = r
         /\ loop'.candidate = Nil
BY Zenon DEF Vault!Loop, Vault!Sleep

\* A token in use that expires is alive, with what the retries take.
LEMMA ClientAlive ==
  ASSUME VaultInv
  PROVE  /\ Vault!Alive(client) /\ client \in Tokens /\ left[client] \in Nat /\ loop.wake \in Nat
         /\ Period[client] > 0 => /\ left[client] - loop.wake >= 1 /\ client \in Renewable
                                  /\ left[client] - loop.wake >= Retries - Spent(faults)
                                  /\ left[client] <= Period[client]
<1>1. /\ client \in Tokens /\ left[client] \in Nat /\ faults \in 0..MaxFailures
      /\ left[client] <= Period[client] /\ loop \in Vault!Loop
  BY DEF VaultInv, VaultTypes
<1>2. loop.wake \in Nat
  BY <1>1, Numbers DEF Vault!Loop
<1>3. /\ Retries \in Nat /\ Spent(faults) \in Nat /\ Retries - Spent(faults) >= 1
      /\ Period[client] \in Nat
  BY <1>1, Numbers, Amounts
<1>4. Period[client] > 0 => /\ left[client] - loop.wake >= 1
                            /\ left[client] - loop.wake >= Retries - Spent(faults)
  BY <1>1, <1>2, <1>3 DEF VaultInv, ClientOK
<1>5. Vault!Alive(client)
  BY <1>1, <1>2, <1>3, <1>4 DEF Vault!Alive
<1>6. QED BY <1>1, <1>2, <1>4, <1>5 DEF VaultInv, ClientOK

\* A good replacement in the file has what it needs, whenever it is looked at.
LEMMA FileAlive ==
  ASSUME VaultInv, file \in (Signers \cap Renewable) \ {client}, loop.pc # "ended"
  PROVE  /\ file \in Tokens /\ left[file] \in Nat /\ Period[file] \in Nat
         /\ Period[file] > 0 => left[file] - loop.wake >= 2 * Retries
<1>1. /\ file \in Tokens /\ left[file] \in Nat /\ faults \in 0..MaxFailures /\ loop \in Vault!Loop
  BY Numbers, RenewalAssumption DEF VaultInv, VaultTypes
<1>2. loop.wake \in Nat /\ Period[file] \in Nat /\ Retries \in Nat /\ Poll \in Nat
  BY <1>1, Numbers DEF Vault!Loop
<1>3. ASSUME Period[file] > 0 PROVE left[file] - loop.wake >= 2 * Retries
  <2>1. left[file] - loop.wake >= Period[file] - Missed(IF Unseen THEN faults + 1 ELSE faults)
    BY <1>3 DEF VaultInv, FileOK
  <2>2. /\ Missed(faults) \in Nat /\ Missed(faults + 1) = Missed(faults) + Poll
        /\ Period[file] - Missed(faults + 1) >= 2 * Retries
    BY <1>1, <1>3, Amounts
  <2>3. CASE Unseen
    BY <1>1, <1>2, <2>1, <2>2, <2>3
  <2>4. CASE ~Unseen
    BY <1>1, <1>2, <2>1, <2>2, <2>4
  <2>5. QED BY <2>3, <2>4
<1>4. QED BY <1>1, <1>2, <1>3

\* The loop goes from one step of a pass to another, or ends: time stands still.
LEMMA LoopMoves ==
  ASSUME VaultInv, UNCHANGED <<left, file, age, written, writes, client, faults>>,
         started' \in BOOLEAN, closed' \in BOOLEAN, loop' \in Vault!Loop,
         loop'.wake = loop.wake, loop'.renewAt = loop.renewAt,
         ~started' => loop'.pc = "none",
         loop'.pc \notin {"sleep", "ended"} => loop.wake = 0,
         loop'.pc = "verify" =>
           loop' = loop \/ (loop'.candidate = file /\ file \notin {Nil, client} /\ loop.pc = "file"),
         \/ loop'.pc = "ended"
         \/ loop.pc # "ended" /\ (Unseen => Unseen')
         \/ file \in {Nil, client}
  PROVE  VaultInv'
<1>1. VaultTypes'
  BY DEF VaultInv, VaultTypes
<1>2. ClientOK'
  BY DEF VaultInv, ClientOK
<1>3. FileOK'
  <2> SUFFICES ASSUME file \in (Signers \cap Renewable) \ {client}, loop'.pc # "ended"
               PROVE  /\ Period[file] > 0 =>
                           left[file] - loop.wake >=
                             Period[file] - Missed(IF Unseen' THEN faults + 1 ELSE faults)
                      /\ faults = 0 => age + loop.wake <= IF Unseen' THEN Poll ELSE 0
    BY DEF FileOK
  <2>1. file # Nil
    BY Numbers, RenewalAssumption
  <2>2. loop.pc # "ended" /\ (Unseen => Unseen')
    BY <2>1
  <2>3. /\ faults \in 0..MaxFailures /\ loop.wake \in Nat /\ age \in Nat /\ Poll \in Nat
    BY Numbers, ClientAlive DEF VaultInv, VaultTypes
  <2>4. Missed(faults) \in Nat /\ Missed(faults + 1) = Missed(faults) + Poll
    BY <2>3, Amounts
  <2>5. left[file] \in Nat /\ Period[file] \in Nat
    BY <2>2, FileAlive
  <2>6. /\ Period[file] > 0 =>
             left[file] - loop.wake >=
               Period[file] - Missed(IF Unseen THEN faults + 1 ELSE faults)
        /\ faults = 0 => age + loop.wake <= IF Unseen THEN Poll ELSE 0
    BY <2>2 DEF VaultInv, FileOK
  <2>7. CASE Unseen <=> Unseen'
    BY <2>6, <2>7
  <2>8. CASE ~Unseen /\ Unseen'
    BY <2>3, <2>4, <2>5, <2>6, <2>8
  <2>9. QED BY <2>2, <2>7, <2>8
<1>4. CandidateOK'
  <2>1. CASE loop' = loop
    BY <2>1 DEF VaultInv, CandidateOK
  <2>2. CASE loop'.candidate = file /\ file \notin {Nil, client} /\ loop.pc = "file"
    <3>1. loop.wake \in Nat /\ Retries \in Nat
      BY ClientAlive, Numbers
    <3>2. file \in Signers \cap Renewable /\ Period[file] > 0 => left[file] >= 2 * Retries
      BY <2>2, <3>1, FileAlive
    <3>3. QED BY <2>2, <3>2 DEF CandidateOK
  <2>3. CASE loop'.pc # "verify"
    BY <2>3 DEF CandidateOK
  <2>4. QED BY <2>1, <2>2, <2>3
<1>5. QED BY <1>1, <1>2, <1>3, <1>4 DEF VaultInv

\* StartRenewal, Close, the look at the file, the end of a sleep and of the loop.
LEMMA LoopMovesInv ==
  ASSUME VaultInv,
         Vault!StartRenewal \/ Vault!Close \/ Vault!ReadFile \/ Vault!Wake \/ Vault!Stop
  PROVE  VaultInv'
<1>1. /\ loop \in Vault!Loop /\ started \in BOOLEAN /\ closed \in BOOLEAN
      /\ (~started => loop.pc = "none") /\ (loop.pc \notin {"sleep", "ended"} => loop.wake = 0)
      /\ file \in Tokens \cup {Nil} /\ client \in Tokens
  BY DEF VaultInv, VaultTypes
<1>2. CASE Vault!StartRenewal
  <2>1. /\ loop' \in Vault!Loop /\ loop'.wake = loop.wake /\ loop'.renewAt = loop.renewAt
        /\ loop'.pc = "file" /\ loop.pc = "none"
    BY <1>1, <1>2 DEF Vault!StartRenewal, Vault!Loop
  <2>2. Unseen'
    BY <2>1 DEF Unseen
  <2>3. /\ UNCHANGED <<left, file, age, written, writes, client, faults>>
        /\ started' \in BOOLEAN /\ closed' \in BOOLEAN /\ started'
    BY <1>1, <1>2 DEF Vault!StartRenewal
  <2>4. QED BY <1>1, <2>1, <2>2, <2>3, LoopMoves
<1>3. CASE Vault!Close
  <2>1. /\ UNCHANGED <<left, file, age, written, writes, client, faults>> /\ loop' = loop
        /\ started' = started /\ closed' \in BOOLEAN
    BY <1>3 DEF Vault!Close
  <2>2. Unseen' = Unseen
    BY <2>1 DEF Unseen
  <2>3. QED BY <1>1, <2>1, <2>2, LoopMoves
<1>4. CASE Vault!ReadFile
  <2>1. /\ UNCHANGED <<left, file, age, written, writes, client, faults>>
        /\ started' = started /\ closed' = closed /\ loop.pc = "file"
    BY <1>4 DEF Vault!ReadFile
  <2>2. CASE file \notin {Nil, client}
    <3>1. loop' = [loop EXCEPT !.pc = "verify", !.candidate = file]
      BY <1>4, <2>2 DEF Vault!ReadFile
    <3>2. /\ loop' \in Vault!Loop /\ loop'.wake = loop.wake /\ loop'.renewAt = loop.renewAt
          /\ loop'.pc = "verify" /\ loop'.candidate = file
      BY <1>1, <2>2, <3>1, Zenon DEF Vault!Loop
    <3>3. Unseen'
      BY <2>1, <3>2 DEF Unseen
    <3>4. QED BY <1>1, <2>1, <2>2, <3>2, <3>3, LoopMoves
  <2>3. CASE file \in {Nil, client}
    <3>1. loop' = [loop EXCEPT !.pc = "lookup"]
      BY <1>4, <2>3 DEF Vault!ReadFile
    <3>2. /\ loop' \in Vault!Loop /\ loop'.wake = loop.wake /\ loop'.renewAt = loop.renewAt
          /\ loop'.pc = "lookup"
      BY <1>1, <3>1 DEF Vault!Loop
    <3>3. QED BY <1>1, <2>1, <2>3, <3>2, LoopMoves
  <2>4. QED BY <2>2, <2>3
<1>5. CASE Vault!Wake
  <2>1. /\ loop' \in Vault!Loop /\ loop'.wake = loop.wake /\ loop'.renewAt = loop.renewAt
        /\ loop'.pc = "file" /\ loop.pc = "sleep" /\ loop.wake = 0
    BY <1>1, <1>5 DEF Vault!Wake, Vault!Loop
  <2>2. Unseen'
    BY <2>1 DEF Unseen
  <2>3. /\ UNCHANGED <<left, file, age, written, writes, client, faults>>
        /\ started' = started /\ closed' = closed
    BY <1>5 DEF Vault!Wake
  <2>4. QED BY <1>1, <2>1, <2>2, <2>3, LoopMoves
<1>6. CASE Vault!Stop
  <2>1. /\ loop' \in Vault!Loop /\ loop'.wake = loop.wake /\ loop'.renewAt = loop.renewAt
        /\ loop'.pc = "ended" /\ loop.pc = "sleep"
    BY <1>1, <1>6 DEF Vault!Stop, Vault!Loop
  <2>2. /\ UNCHANGED <<left, file, age, written, writes, client, faults>>
        /\ started' = started /\ closed' = closed
    BY <1>6 DEF Vault!Stop
  <2>3. QED BY <1>1, <2>1, <2>2, LoopMoves
<1>7. QED BY <1>2, <1>3, <1>4, <1>5, <1>6

\* A verified candidate is taken over, or the pass goes on without it.
LEMMA VerifyInv ==
  ASSUME VaultInv, Vault!Verify
  PROVE  VaultInv'
<1> DEFINE c == loop.candidate
<1>1. /\ loop \in Vault!Loop /\ loop.pc = "verify" /\ loop.wake = 0 /\ started
      /\ c \in written \ {client} /\ c \in Tokens /\ file # client
      /\ faults \in 0..MaxFailures /\ age \in Nat /\ left[c] \in Nat /\ Period[c] \in Nat
  BY Numbers DEF Vault!Verify, VaultInv, VaultTypes
<1>2. UNCHANGED <<left, file, age, written, writes, started, closed>>
  BY DEF Vault!Verify
<1>3. /\ faults \in Nat /\ Spent(faults) \in Nat /\ Spent(faults + 1) = Spent(faults) + LookupRetry
      /\ Missed(faults) \in Nat /\ Missed(faults + 1) = Missed(faults) + Poll
      /\ LookupRetry \in Nat /\ Poll \in Nat /\ Retries \in Nat /\ Retries >= 1
  BY <1>1, Amounts, Numbers
<1>4. CASE /\ Vault!verifyClientCanSign(c) /\ faults' = faults /\ client' = c
           /\ loop' = [loop EXCEPT !.pc = "lookup", !.candidate = Nil, !.renewAt = Nil]
  <2>1. /\ loop' \in Vault!Loop /\ loop'.pc = "lookup" /\ loop'.wake = 0 /\ loop'.renewAt = Nil
    BY <1>1, <1>4, Zenon DEF Vault!Loop
  <2>2. VaultTypes'
    BY <1>1, <1>2, <1>4, <2>1 DEF VaultInv, VaultTypes
  <2>3. c \in Signers /\ (Period[c] > 0 => c \in Renewable)
    BY <1>1, <1>4 DEF Vault!verifyClientCanSign, Vault!TTL, Vault!Alive
  <2>4. Period[c] > 0 => left[c] >= 2 * Retries
    BY <1>1, <2>3 DEF VaultInv, CandidateOK
  <2>5. ClientOK'
    BY <1>1, <1>2, <1>3, <1>4, <2>1, <2>3, <2>4 DEF ClientOK
  <2>6. ~Unseen'
    BY <2>1 DEF Unseen
  <2>7. file # c => ~Unseen
    BY <1>1 DEF Unseen
  <2>8. FileOK'
    BY <1>1, <1>2, <1>4, <2>1, <2>6, <2>7 DEF VaultInv, FileOK
  <2>9. CandidateOK'
    BY <2>1 DEF CandidateOK
  <2>10. QED BY <2>2, <2>5, <2>8, <2>9 DEF VaultInv
<1>5. CASE /\ IF Vault!verifyClientCanSign(c) THEN Vault!Fault ELSE Vault!NoFault
           /\ loop' = [loop EXCEPT !.pc = "lookup", !.candidate = Nil]
           /\ UNCHANGED client
  <2>1. /\ loop' \in Vault!Loop /\ loop'.pc = "lookup" /\ loop'.wake = 0
        /\ loop'.renewAt = loop.renewAt
    BY <1>1, <1>5, Zenon DEF Vault!Loop
  <2>2. /\ faults' \in 0..MaxFailures
        /\ \/ faults' = faults + 1
           \/ faults' = faults /\ ~Vault!verifyClientCanSign(c)
    BY <1>1, <1>5, Numbers DEF Vault!Fault, Vault!NoFault
  <2>3. VaultTypes'
    BY <1>1, <1>2, <1>5, <2>1, <2>2 DEF VaultInv, VaultTypes
  <2>4. ClientOK'
    <3>1. left[client] \in Nat /\ Spent(faults') >= Spent(faults) /\ Spent(faults') \in Nat
      BY <1>3, <2>2, ClientAlive, Amounts
    <3>2. loop.renewAt \in Int \cup {Nil}
      BY <1>1, LongestPeriod, Numbers DEF Vault!Loop
    <3>3. QED BY <1>1, <1>2, <1>3, <1>5, <2>1, <3>1, <3>2 DEF VaultInv, ClientOK
  <2>5. ~Unseen'
    BY <2>1 DEF Unseen
  <2>6. ASSUME file \in (Signers \cap Renewable) \ {client}
        PROVE  /\ Period[file] > 0 => left[file] >= Period[file] - Missed(faults')
               /\ faults' = 0 => age <= 0
    <3>1. /\ left[file] \in Nat /\ Period[file] \in Nat
          /\ Period[file] > 0 => left[file] >= 2 * Retries
      BY <1>1, <2>6, FileAlive
    <3>2. /\ Period[file] > 0 =>
               left[file] >= Period[file] - Missed(IF Unseen THEN faults + 1 ELSE faults)
          /\ faults = 0 => age <= IF Unseen THEN Poll ELSE 0
      BY <1>1, <2>6, <3>1 DEF VaultInv, FileOK
    <3>3. CASE faults' = faults + 1
      BY <1>3, <3>1, <3>2, <3>3
    <3>4. CASE faults' = faults /\ ~Vault!verifyClientCanSign(c)
      <4>1. c # file
        BY <1>3, <2>6, <3>1, <3>4 DEF Vault!verifyClientCanSign, Vault!Alive, Vault!TTL
      <4>2. ~Unseen
        BY <1>1, <4>1 DEF Unseen
      <4>3. QED BY <3>2, <3>4, <4>2
    <3>5. QED BY <2>2, <3>3, <3>4
  <2>7. FileOK'
    BY <1>1, <1>2, <1>5, <2>1, <2>5, <2>6, FileAlive DEF FileOK
  <2>8. CandidateOK'
    BY <2>1 DEF CandidateOK
  <2>9. QED BY <2>3, <2>4, <2>7, <2>8 DEF VaultInv
<1>6. QED BY <1>4, <1>5 DEF Vault!Verify, Vault!NoFault

\* A call that failed in the middle of a pass: the loop sleeps for d.
LEMMA FailedCall ==
  ASSUME VaultInv, loop.pc \in {"lookup", "renew"}, NEW d \in Nat, d <= LookupRetry,
         IF Vault!Alive(client) THEN Vault!Fault ELSE Vault!NoFault,
         Vault!Sleep(d, loop.renewAt),
         UNCHANGED <<left, file, age, written, writes, client, started, closed>>
  PROVE  VaultInv'
<1>1. /\ loop \in Vault!Loop /\ loop.wake = 0 /\ started
      /\ faults \in 0..MaxFailures /\ age \in Nat
  BY Numbers DEF VaultInv, VaultTypes
<1>2. faults' \in 0..MaxFailures /\ faults' = faults + 1
  BY <1>1, ClientAlive, Numbers DEF Vault!Fault
<1>3. /\ faults \in Nat /\ Spent(faults) \in Nat /\ Spent(faults') = Spent(faults) + LookupRetry
      /\ Missed(faults) \in Nat /\ Missed(faults') = Missed(faults) + Poll
      /\ Missed(faults' + 1) = Missed(faults') + Poll
      /\ LookupRetry \in Nat /\ Poll \in Nat /\ Retries \in Nat /\ LookupRetry <= Poll
  BY <1>1, <1>2, Amounts, Numbers
<1>4. d \in 0..Poll /\ loop.renewAt \in (-Poll..Vault!MaxPeriod) \cup {Nil}
  BY <1>1, <1>3 DEF Vault!Loop
<1>5. /\ loop' \in Vault!Loop /\ loop'.pc = "sleep" /\ loop'.wake = d
      /\ loop'.renewAt = loop.renewAt
  BY <1>1, <1>4, FallsAsleep, Zenon
<1>6. VaultTypes'
  BY <1>1, <1>2, <1>5 DEF VaultInv, VaultTypes
<1>7. ClientOK'
  <2>1. left[client] \in Nat /\ loop.renewAt \in Int \cup {Nil}
    BY <1>3, <1>4, ClientAlive, LongestPeriod
  <2>2. QED BY <1>1, <1>3, <1>5, <2>1 DEF VaultInv, ClientOK
<1>8. FileOK'
  <2>1. ~Unseen /\ Unseen'
    BY <1>5 DEF Unseen
  <2>2. SUFFICES ASSUME file \in (Signers \cap Renewable) \ {client}, Period[file] > 0
                 PROVE  left[file] - d >= Period[file] - Missed(faults' + 1)
    BY <1>1, <1>2, <1>5, <2>1 DEF FileOK
  <2>3. left[file] \in Nat /\ Period[file] \in Nat
    BY <2>2, FileAlive
  <2>4. left[file] >= Period[file] - Missed(faults)
    BY <1>1, <2>1, <2>2, <2>3 DEF VaultInv, FileOK
  <2>5. QED BY <1>3, <2>3, <2>4
<1>9. CandidateOK'
  BY <1>5 DEF CandidateOK
<1>10. QED BY <1>6, <1>7, <1>8, <1>9 DEF VaultInv

\* The pass is over, and the loop sleeps until the next one or the renewal.
LEMMA PassEnds ==
  ASSUME VaultInv, loop.pc = "lookup", NEW d \in 0..Poll,
         NEW r \in (-Poll..Vault!MaxPeriod) \cup {Nil}, Vault!Sleep(d, r),
         UNCHANGED <<left, file, age, written, writes, client, started, closed, faults>>,
         Period[client] > 0 => /\ r \in Nat /\ d <= r
                               /\ left[client] - r >= Retries - Spent(faults)
  PROVE  VaultInv'
<1>1. /\ loop \in Vault!Loop /\ loop.wake = 0 /\ started
      /\ faults \in 0..MaxFailures /\ age \in Nat /\ d \in Nat /\ d <= Poll
  BY Numbers DEF VaultInv, VaultTypes
<1>2. /\ Spent(faults) \in Nat /\ Poll \in Nat /\ Retries \in Nat /\ Nil \notin Int
      /\ Missed(faults) \in Nat /\ Missed(faults + 1) = Missed(faults) + Poll
  BY <1>1, Amounts, Numbers
<1>3. loop' \in Vault!Loop /\ loop'.pc = "sleep" /\ loop'.wake = d /\ loop'.renewAt = r
  BY <1>1, FallsAsleep
<1>4. VaultTypes'
  BY <1>1, <1>3 DEF VaultInv, VaultTypes
<1>5. ClientOK'
  <2>1. left[client] \in Nat
    BY ClientAlive
  <2>2. client \in Signers /\ (Period[client] > 0 => client \in Renewable)
    BY DEF VaultInv, ClientOK
  <2>3. Period[client] > 0 => r # Nil /\ left[client] - d >= Retries - Spent(faults)
    BY <1>1, <1>2, <2>1
  <2>4. QED BY <1>3, <2>2, <2>3 DEF ClientOK
<1>6. FileOK'
  <2>1. ~Unseen /\ Unseen'
    BY <1>3 DEF Unseen
  <2>2. SUFFICES ASSUME file \in (Signers \cap Renewable) \ {client}
                 PROVE  /\ Period[file] > 0 => left[file] - d >= Period[file] - Missed(faults + 1)
                        /\ faults = 0 => age + d <= Poll
    BY <1>3, <2>1 DEF FileOK
  <2>3. left[file] \in Nat /\ Period[file] \in Nat
    BY <2>2, FileAlive
  <2>4. /\ Period[file] > 0 => left[file] >= Period[file] - Missed(faults)
        /\ faults = 0 => age <= 0
    BY <1>1, <2>1, <2>2, <2>3 DEF VaultInv, FileOK
  <2>5. QED BY <1>1, <1>2, <2>3, <2>4
<1>7. CandidateOK'
  BY <1>3 DEF CandidateOK
<1>8. QED BY <1>4, <1>5, <1>6, <1>7 DEF VaultInv

\* Half of what a token has left, rounded up, leaves the other half.
LEMMA Halves ==
  ASSUME NEW n \in Nat, NEW s \in Nat, n >= 2 * Retries - s, Retries - s >= 1
  PROVE  LET h == Vault!Most((n + 1) \div 2, 1)
         IN  h \in Nat /\ 0 < h /\ h <= n /\ n - h >= Retries - s
<1>1. Retries \in Nat
  BY Numbers
<1>2. PICK h \in Nat : (n + 1) \div 2 = h /\ (n = 2 * h \/ n + 1 = 2 * h)
  OBVIOUS
<1>3. n >= 2 /\ h >= 1
  BY <1>1, <1>2
<1>4. Vault!Most((n + 1) \div 2, 1) = h
  BY <1>2, <1>3 DEF Vault!Most
<1>5. QED BY <1>1, <1>2, <1>3, <1>4

\* The deadline of the renewal of a token that expires.
LEMMA DeadlineInTime ==
  ASSUME VaultInv, loop.pc = "lookup", Period[client] > 0
  PROVE  LET r == Vault!Deadline
         IN  /\ r \in -Poll..Vault!MaxPeriod
             /\ loop.renewAt = Nil => r > 0
             /\ r > 0 => left[client] - r >= Retries - Spent(faults)
<1>1. loop \in Vault!Loop /\ loop.wake = 0 /\ faults \in 0..MaxFailures
  BY DEF VaultInv, VaultTypes
<1>2. /\ left[client] \in Nat /\ client \in Tokens /\ left[client] <= Period[client]
      /\ Period[client] \in Nat /\ Vault!MaxPeriod \in Nat /\ Period[client] <= Vault!MaxPeriod
      /\ Poll \in Nat /\ Spent(faults) \in Nat /\ Retries - Spent(faults) >= 1 /\ Retries \in Nat
  BY <1>1, ClientAlive, Numbers, LongestPeriod, Amounts
<1>3. CASE loop.renewAt = Nil
  <2>1. Vault!Deadline = Vault!Most((left[client] + 1) \div 2, 1)
    BY <1>2, <1>3 DEF Vault!Deadline, Vault!TTL
  <2>2. left[client] >= 2 * Retries - Spent(faults)
    BY <1>1, <1>2, <1>3 DEF VaultInv, ClientOK
  <2>3. PICK h : h = Vault!Most((left[client] + 1) \div 2, 1)
    OBVIOUS
  <2>4. /\ h \in Nat /\ 0 < h /\ h <= left[client]
        /\ left[client] - h >= Retries - Spent(faults)
    BY <1>2, <2>2, <2>3, Halves
  <2>5. QED BY <1>2, <2>1, <2>3, <2>4
<1>4. CASE loop.renewAt # Nil
  <2>1. Vault!Deadline = loop.renewAt
    BY <1>4 DEF Vault!Deadline
  <2>2. loop.renewAt \in -Poll..Vault!MaxPeriod
    BY <1>1, <1>4 DEF Vault!Loop
  <2>3. loop.renewAt > 0 => left[client] - loop.renewAt >= Retries - Spent(faults)
    BY <1>1, <1>2, <1>4, <2>2 DEF VaultInv, ClientOK
  <2>4. QED BY <1>4, <2>1, <2>2, <2>3
<1>5. QED BY <1>3, <1>4

\* LookupSelf and the schedule.
LEMMA LookupSelfInv ==
  ASSUME VaultInv, Vault!LookupSelf
  PROVE  VaultInv'
<1>1. /\ loop.pc = "lookup" /\ loop \in Vault!Loop /\ loop.wake = 0 /\ started
      /\ UNCHANGED <<left, file, age, written, writes, client, started, closed>>
      /\ Poll \in Nat /\ LookupRetry \in Nat /\ Poll \in 0..Poll
  BY Numbers DEF Vault!LookupSelf, VaultInv, VaultTypes
<1>2. CASE /\ IF Vault!Alive(client) THEN Vault!Fault ELSE Vault!NoFault
           /\ Vault!Sleep(LookupRetry, loop.renewAt)
  BY <1>1, <1>2, FailedCall
<1>3. CASE /\ Vault!NoFault
           /\ client \notin Renewable \/ Vault!TTL(client) = 0
           /\ Vault!Sleep(Poll, Nil)
  <2>1. Period[client] \in Nat /\ ~(Period[client] > 0)
    BY <1>1, <1>3, ClientAlive, Numbers DEF Vault!TTL
  <2>2. QED BY <1>1, <1>3, <2>1, PassEnds DEF Vault!NoFault
<1>4. CASE /\ Vault!NoFault
           /\ ~(client \notin Renewable \/ Vault!TTL(client) = 0)
           /\ IF Vault!Deadline > 0
              THEN Vault!Sleep(Vault!Least(Vault!Deadline, Poll), Vault!Deadline)
              ELSE loop' = [loop EXCEPT !.pc = "renew", !.renewAt = Vault!Deadline]
  <2>1. Period[client] > 0
    BY <1>4, ClientAlive, Numbers DEF Vault!TTL
  <2>2. PICK r : r = Vault!Deadline
    OBVIOUS
  <2>3. /\ r \in -Poll..Vault!MaxPeriod /\ (loop.renewAt = Nil => r > 0)
        /\ r > 0 => left[client] - r >= Retries - Spent(faults)
    BY <1>1, <2>1, <2>2, DeadlineInTime
  <2>4. Vault!MaxPeriod \in Nat
    BY LongestPeriod
  <2>5. CASE r > 0
    <3>1. PICK d : d = Vault!Least(r, Poll)
      OBVIOUS
    <3>2. d \in 0..Poll /\ d <= r /\ r \in Nat
      BY <1>1, <2>3, <2>4, <2>5, <3>1 DEF Vault!Least
    <3>3. Vault!Sleep(d, r) /\ faults' = faults
      BY <1>4, <2>2, <2>5, <3>1 DEF Vault!NoFault
    <3>4. QED BY <1>1, <2>3, <2>5, <3>2, <3>3, PassEnds
  <2>6. CASE ~(r > 0)
    <3>1. loop.renewAt # Nil /\ r = loop.renewAt
      BY <2>2, <2>3, <2>6 DEF Vault!Deadline
    <3>2. loop' = [loop EXCEPT !.pc = "renew", !.renewAt = r] /\ faults' = faults
      BY <1>4, <2>2, <2>6 DEF Vault!NoFault
    <3>3. /\ loop' \in Vault!Loop /\ loop'.pc = "renew" /\ loop'.wake = loop.wake
          /\ loop'.renewAt = loop.renewAt
      BY <1>1, <3>1, <3>2, Zenon DEF Vault!Loop
    <3>4. ~Unseen
      BY <1>1 DEF Unseen
    <3>5. started' \in BOOLEAN /\ closed' \in BOOLEAN
      BY <1>1 DEF VaultInv, VaultTypes
    <3>6. QED BY <1>1, <3>2, <3>3, <3>4, <3>5, LoopMoves
  <2>7. QED BY <2>5, <2>6
<1>5. QED BY <1>2, <1>3, <1>4 DEF Vault!LookupSelf

\* RenewSelf, which gives the token a new period.
LEMMA RenewSelfInv ==
  ASSUME VaultInv, Vault!RenewSelf
  PROVE  VaultInv'
<1>1. /\ loop.pc = "renew" /\ loop \in Vault!Loop /\ loop.wake = 0 /\ started
      /\ UNCHANGED <<file, age, written, writes, client, started, closed>>
      /\ RenewRetry \in Nat /\ RenewRetry <= LookupRetry /\ faults \in 0..MaxFailures
      /\ left \in [Tokens -> Nat] /\ client \in Tokens /\ Period[client] \in Nat
  BY Numbers DEF Vault!RenewSelf, VaultInv, VaultTypes
<1>2. CASE /\ IF Vault!Alive(client) THEN Vault!Fault ELSE Vault!NoFault
           /\ Vault!Sleep(RenewRetry, loop.renewAt)
           /\ UNCHANGED left
  BY <1>1, <1>2, FailedCall
<1>3. CASE /\ faults' = faults
           /\ left' = [left EXCEPT ![client] = Period[client]]
           /\ loop' = [loop EXCEPT !.pc = "file", !.renewAt = Nil]
  <2>1. /\ loop' \in Vault!Loop /\ loop'.pc = "file" /\ loop'.wake = 0 /\ loop'.renewAt = Nil
    BY <1>1, <1>3, Zenon DEF Vault!Loop
  <2>2. /\ left' \in [Tokens -> Nat] /\ left'[client] = Period[client]
        /\ \A t \in Tokens \ {client} : left'[t] = left[t]
    BY <1>1, <1>3
  <2>3. \A t \in Tokens : left'[t] <= Period[t]
    BY <1>1, <2>2 DEF VaultInv, VaultTypes
  <2>4. VaultTypes'
    BY <1>1, <1>3, <2>1, <2>2, <2>3 DEF VaultInv, VaultTypes
  <2>5. /\ Spent(faults) \in Nat /\ Missed(faults) \in Nat /\ Poll \in Nat /\ Retries \in Nat
        /\ Missed(faults + 1) = Missed(faults) + Poll
    BY <1>1, Amounts, Numbers
  <2>6. ClientOK'
    <3>1. client \in Signers /\ (Period[client] > 0 => client \in Renewable)
      BY DEF VaultInv, ClientOK
    <3>2. Period[client] > 0 => Period[client] - Missed(faults + 1) >= 2 * Retries
      BY <1>1, <3>1, Amounts
    <3>3. Period[client] > 0 => Period[client] >= 2 * Retries - Spent(faults)
      BY <1>1, <2>5, <3>2
    <3>4. Period[client] > 0 => left'[client] - loop'.wake >= 2 * Retries - Spent(faults)
      BY <1>1, <2>1, <2>2, <3>3
    <3>5. QED BY <1>1, <1>3, <2>1, <3>1, <3>4 DEF ClientOK
  <2>7. FileOK'
    <3>1. ~Unseen /\ Unseen'
      BY <1>1, <2>1 DEF Unseen
    <3>2. SUFFICES ASSUME file \in (Signers \cap Renewable) \ {client}
                   PROVE  /\ Period[file] > 0 => left'[file] >= Period[file] - Missed(faults + 1)
                          /\ faults = 0 => age <= Poll
      <4>1. left'[file] \in Nat \/ file \notin Tokens
        BY <2>2
      <4>2. age \in Nat /\ Signers \subseteq Tokens
        BY Numbers, RenewalAssumption DEF VaultInv, VaultTypes
      <4>3. QED BY <1>1, <1>3, <2>1, <3>1, <4>1, <4>2 DEF FileOK
    <3>3. /\ left[file] \in Nat /\ Period[file] \in Nat /\ file \in Tokens /\ age \in Nat
      BY <1>1, <3>2, FileAlive, Numbers DEF VaultInv, VaultTypes
    <3>4. /\ Period[file] > 0 => left[file] >= Period[file] - Missed(faults)
          /\ faults = 0 => age <= 0
      BY <1>1, <3>1, <3>2, <3>3 DEF VaultInv, FileOK
    <3>5. left'[file] = left[file]
      BY <2>2, <3>2, <3>3
    <3>6. QED BY <2>5, <3>3, <3>4, <3>5
  <2>8. CandidateOK'
    BY <2>1 DEF CandidateOK
  <2>9. QED BY <2>4, <2>6, <2>7, <2>8 DEF VaultInv
<1>4. QED BY <1>2, <1>3 DEF Vault!RenewSelf, Vault!NoFault

\* The token file is written anew.
LEMMA WriteFileInv ==
  ASSUME VaultInv, Vault!WriteFile
  PROVE  VaultInv'
<1>1. PICK t \in (Tokens \ written) \cup {Nil} :
        /\ t # file /\ file' = t /\ written' = written \cup ({t} \ {Nil})
        /\ left' = IF t = Nil THEN left ELSE [left EXCEPT ![t] = Period[t]]
  BY DEF Vault!WriteFile
<1>2. /\ UNCHANGED <<client, started, closed, loop, faults>> /\ age' = 0
      /\ writes < MaxWrites /\ writes' = writes + 1
  BY DEF Vault!WriteFile
<1>3. /\ left \in [Tokens -> Nat] /\ \A u \in Tokens : left[u] <= Period[u]
      /\ written \subseteq Tokens /\ client \in written /\ loop \in Vault!Loop
      /\ faults \in 0..MaxFailures /\ writes \in Nat /\ MaxWrites \in Nat
      /\ loop.pc = "verify" => loop.candidate \in written \ {client}
      /\ loop.pc \notin {"sleep", "ended"} => loop.wake = 0
  BY Numbers DEF VaultInv, VaultTypes
<1>4. /\ left' \in [Tokens -> Nat] /\ \A u \in Tokens : left'[u] <= Period[u]
      /\ \A u \in written : left'[u] = left[u]
      /\ t # Nil => left'[t] = Period[t]
  <2>1. CASE t = Nil
    BY <1>1, <1>3, <2>1
  <2>2. CASE t # Nil
    <3>1. t \in Tokens /\ t \notin written /\ Period[t] \in Nat
      BY <2>2, Numbers
    <3>2. left' = [left EXCEPT ![t] = Period[t]]
      BY <1>1, <2>2
    <3>3. left' \in [Tokens -> Nat] /\ left'[t] = Period[t] /\ \A u \in Tokens \ {t} : left'[u] = left[u]
      BY <1>3, <3>1, <3>2
    <3>4. \A u \in Tokens : left'[u] <= Period[u]
      BY <1>3, <3>1, <3>3
    <3>5. \A u \in written : left'[u] = left[u]
      BY <1>3, <3>1, <3>3
    <3>6. QED BY <3>3, <3>4, <3>5
  <2>3. QED BY <2>1, <2>2
<1>5. client # t /\ Nil \notin Tokens
  BY <1>3, Numbers
<1>6. VaultTypes'
  <2>1. writes' \in 0..MaxWrites /\ age' \in 0..Poll + 1
    BY <1>2, <1>3, Numbers
  <2>2. written' \subseteq Tokens /\ written \subseteq written' /\ file' \in written' \cup {Nil}
    BY <1>1, <1>3
  <2>3. QED BY <1>1, <1>2, <1>3, <1>4, <1>5, <2>1, <2>2 DEF VaultInv, VaultTypes
<1>7. ClientOK'
  <2>1. left'[client] = left[client]
    BY <1>3, <1>4
  <2>2. QED BY <1>2, <2>1 DEF VaultInv, ClientOK
<1>8. FileOK'
  <2>1. loop.wake \in Nat /\ loop.wake <= Poll /\ Poll \in Nat
    BY <1>3, Numbers DEF Vault!Loop
  <2>2. /\ Missed(faults) \in Nat /\ Missed(faults + 1) = Missed(faults) + Poll
    BY <1>3, Amounts
  <2>3. loop.pc = "sleep" => Unseen'
    BY <1>2 DEF Unseen
  <2>4. SUFFICES ASSUME t \in (Signers \cap Renewable) \ {client}, loop.pc # "ended"
                 PROVE  /\ Period[t] > 0 =>
                             left'[t] - loop.wake >=
                               Period[t] - Missed(IF Unseen' THEN faults + 1 ELSE faults)
                        /\ faults = 0 => age' + loop.wake <= IF Unseen' THEN Poll ELSE 0
    BY <1>1, <1>2 DEF FileOK
  <2>5. t # Nil /\ Period[t] \in Nat /\ left'[t] = Period[t]
    BY <1>4, <2>4, Numbers, RenewalAssumption
  <2>6. CASE Unseen'
    BY <1>2, <2>1, <2>2, <2>5, <2>6
  <2>7. CASE ~Unseen'
    <3>1. loop.wake = 0
      BY <1>3, <2>3, <2>4, <2>7
    <3>2. QED BY <1>2, <2>2, <2>5, <2>7, <3>1
  <2>8. QED BY <2>6, <2>7
<1>9. CandidateOK'
  <2>1. loop.pc = "verify" => left'[loop.candidate] = left[loop.candidate]
    BY <1>3, <1>4
  <2>2. QED BY <1>2, <2>1 DEF VaultInv, CandidateOK
<1>10. QED BY <1>6, <1>7, <1>8, <1>9 DEF VaultInv

\* Time passes: what is left of every token and of the sleep shrinks alike.
LEMMA TickInv ==
  ASSUME VaultInv, Vault!Tick
  PROVE  VaultInv'
<1>1. /\ loop.pc = "sleep" /\ loop \in Vault!Loop /\ loop.wake > 0 /\ started
      /\ faults \in 0..MaxFailures /\ left \in [Tokens -> Nat]
      /\ \A t \in Tokens : left[t] <= Period[t]
      /\ UNCHANGED <<file, written, writes, client, started, closed, faults>>
      /\ age \in Nat /\ age <= Poll + 1 /\ client \in Tokens
  BY Numbers DEF Vault!Tick, VaultInv, VaultTypes
<1>2. /\ loop.wake \in Nat /\ loop.wake <= Poll /\ Poll \in Nat /\ Vault!MaxPeriod \in Nat
      /\ loop.renewAt \in (-Poll..Vault!MaxPeriod) \cup {Nil} /\ Nil \notin Int
  BY <1>1, Numbers, LongestPeriod DEF Vault!Loop
<1>3. /\ left' \in [Tokens -> Nat]
      /\ \A t \in Tokens : left'[t] <= Period[t] /\ left'[t] >= left[t] - 1
  <2>1. \A t \in Tokens : left'[t] = IF left[t] - 1 < 0 THEN 0 ELSE left[t] - 1
    BY DEF Vault!Tick, Vault!Most
  <2>2. \A t \in Tokens : left[t] \in Nat /\ Period[t] \in Nat
    BY <1>1, Numbers
  <2>3. \A t \in Tokens : left'[t] \in Nat /\ left'[t] <= Period[t] /\ left'[t] >= left[t] - 1
    BY <1>1, <2>1, <2>2
  <2>4. QED BY <2>3 DEF Vault!Tick
<1>4. PICK r : r = IF loop.renewAt = Nil THEN Nil ELSE Vault!Most(loop.renewAt - 1, -Poll)
  OBVIOUS
<1>5. /\ r \in (-Poll..Vault!MaxPeriod) \cup {Nil} /\ (r = Nil <=> loop.renewAt = Nil)
      /\ r # Nil /\ r > loop.wake - 1 => loop.renewAt > loop.wake /\ r = loop.renewAt - 1
  <2>1. CASE loop.renewAt = Nil
    BY <1>4, <2>1
  <2>2. CASE loop.renewAt # Nil
    BY <1>1, <1>2, <1>4, <2>2 DEF Vault!Most
  <2>3. QED BY <2>1, <2>2
<1>6. loop' = [loop EXCEPT !.wake = loop.wake - 1, !.renewAt = r]
  BY <1>4 DEF Vault!Tick
<1>7. /\ loop' \in Vault!Loop /\ loop'.pc = "sleep" /\ loop'.wake = loop.wake - 1
      /\ loop'.renewAt = r
  <2>1. loop.wake - 1 \in 0..Poll
    BY <1>1, <1>2
  <2>2. QED BY <1>1, <1>5, <1>6, <2>1, Zenon DEF Vault!Loop
<1>8. age' \in Nat /\ age' <= Poll + 1 /\ age' <= age + 1
  BY <1>1, <1>2 DEF Vault!Tick, Vault!Least
<1>9. VaultTypes'
  BY <1>1, <1>2, <1>3, <1>7, <1>8 DEF VaultInv, VaultTypes
<1>10. ClientOK'
  <2>1. /\ left[client] \in Nat /\ left'[client] \in Nat /\ left'[client] >= left[client] - 1
        /\ Spent(faults) \in Nat /\ Retries \in Nat
    BY <1>1, <1>3, Amounts, Numbers
  <2>2. CASE r = Nil
    BY <1>1, <1>2, <1>5, <1>7, <2>1, <2>2 DEF VaultInv, ClientOK
  <2>3. CASE r # Nil
    BY <1>1, <1>2, <1>5, <1>7, <2>1, <2>3 DEF VaultInv, ClientOK
  <2>4. QED BY <2>2, <2>3
<1>11. FileOK'
  <2>1. Unseen /\ Unseen'
    BY <1>1, <1>7 DEF Unseen
  <2>2. SUFFICES ASSUME file \in (Signers \cap Renewable) \ {client}
                 PROVE  /\ Period[file] > 0 =>
                             left'[file] - (loop.wake - 1) >= Period[file] - Missed(faults + 1)
                        /\ faults = 0 => age' + (loop.wake - 1) <= Poll
    BY <1>1, <1>7, <2>1 DEF FileOK
  <2>3. /\ left[file] \in Nat /\ Period[file] \in Nat /\ file \in Tokens
        /\ Missed(faults + 1) \in Nat
    BY <1>1, <1>2, <2>2, FileAlive, Amounts
  <2>4. /\ Period[file] > 0 => left[file] - loop.wake >= Period[file] - Missed(faults + 1)
        /\ faults = 0 => age + loop.wake <= Poll
    BY <1>1, <2>1, <2>2 DEF VaultInv, FileOK
  <2>5. left'[file] \in Nat /\ left'[file] >= left[file] - 1
    BY <1>3, <2>3
  <2>6. /\ loop.wake \in Nat /\ loop.wake > 0 /\ Poll \in Nat
        /\ age \in Nat /\ age' \in Nat /\ age' <= age + 1
    BY <1>1, <1>2, <1>8
  <2>7. Period[file] > 0 =>
          left'[file] - (loop.wake - 1) >= Period[file] - Missed(faults + 1)
    BY <2>3, <2>4, <2>5, <2>6
  <2>8. faults = 0 => age' + (loop.wake - 1) <= Poll
    BY <2>4, <2>6
  <2>9. QED BY <2>7, <2>8
<1>12. CandidateOK'
  BY <1>7 DEF CandidateOK
<1>13. QED BY <1>9, <1>10, <1>11, <1>12 DEF VaultInv

\* The token that has passed the preflight.
LEMMA VaultInit ==
  ASSUME Vault!Init
  PROVE  VaultInv
<1>1. PICK n \in Slack..Period[First] : left = [Period EXCEPT ![First] = n]
  BY Zenon DEF Vault!Init
<1>2. /\ file = First /\ client = First /\ written = {First} /\ age = 0 /\ writes = 0
      /\ started = FALSE /\ closed = FALSE /\ faults = 0
      /\ loop = [pc |-> "none", candidate |-> Nil, renewAt |-> Nil, wake |-> 0]
  BY DEF Vault!Init
<1>3. /\ First \in Tokens /\ First \in Signers /\ (Period[First] > 0 => First \in Renewable)
      /\ Slack \in Nat /\ (Period[First] > 0 => Slack >= 2 * Retries)
      /\ Period \in [Tokens -> Nat]
      /\ Period[First] \in Nat /\ Retries \in Nat /\ Poll \in Nat
      /\ MaxFailures \in Nat /\ MaxWrites \in Nat
  BY Numbers, RenewalAssumption, LifetimeAssumption
<1>4. n \in Nat /\ n <= Period[First] /\ (Period[First] > 0 => n >= 2 * Retries)
  BY <1>3
<1>5. /\ left \in [Tokens -> Nat] /\ left[First] = n
      /\ \A t \in Tokens \ {First} : left[t] = Period[t]
  BY <1>1, <1>3, <1>4
<1>6. \A t \in Tokens : left[t] <= Period[t]
  BY <1>3, <1>4, <1>5
<1>7. loop \in Vault!Loop /\ loop.pc = "none" /\ loop.wake = 0 /\ loop.renewAt = Nil
  BY <1>2, <1>3 DEF Vault!Loop
<1>8. VaultTypes
  <2>1. age \in 0..Poll + 1 /\ writes \in 0..MaxWrites /\ faults \in 0..MaxFailures
    BY <1>2, <1>3
  <2>2. written \subseteq Tokens /\ file \in written \cup {Nil} /\ client \in written
    BY <1>2, <1>3
  <2>3. started \in BOOLEAN /\ closed \in BOOLEAN
    BY <1>2, Zenon
  <2>4. QED BY <1>5, <1>6, <1>7, <2>1, <2>2, <2>3, Zenon DEF VaultTypes
<1>9. ClientOK
  <2>1. Spent(0) = 0
    BY Numbers DEF Spent
  <2>2. QED BY <1>2, <1>3, <1>4, <1>5, <1>7, <2>1 DEF ClientOK
<1>10. FileOK /\ CandidateOK
  BY <1>2, <1>7 DEF FileOK, CandidateOK
<1>11. QED BY <1>8, <1>9, <1>10 DEF VaultInv
-----------------------------------------------------------------------------
(* The theorems.                                                           *)

\* No PKCS#11 backend is open at the start.
LEMMA PKCS11Init ==
  ASSUME PKCS11!Init
  PROVE  PKCS11Inv
<1>1. BackendsOK
  <2>1. PKCS11!Off \in PKCS11!Backend /\ SoundBackend(PKCS11!Off)
    BY DEF PKCS11!Off, PKCS11!Backend, SoundBackend
  <2>2. QED BY <2>1 DEF PKCS11!Init, BackendsOK
<1>2. TokenOK
  <2>1. (CHOOSE k \in Keys : TRUE) \in Keys /\ (CHOOSE n \in PINs : TRUE) \in PINs
    BY SessionAssumption
  <2>2. token \in [present : BOOLEAN, key : Keys, pin : PINs] /\ pinFile \in PINs
    BY <2>1, Zenon DEF PKCS11!Init
  <2>3. loggedIn = FALSE /\ faults = 0
    BY DEF PKCS11!Init
  <2>4. faults \in 0..MaxFaults
    BY <2>3, SessionAssumption
  <2>5. QED BY <2>2, <2>3, <2>4, Zenon DEF TokenOK
<1>3. LatchOK /\ SignedOK
  <2>1. latch = FALSE /\ attempts = 0 /\ signed = {}
    BY DEF PKCS11!Init
  <2>2. attempts \in {0, 1} /\ attempts # 1
    BY <2>1
  <2>3. QED BY <2>1, <2>2, Zenon DEF LatchOK, SignedOK
<1>4. ModuleOK
  <2>1. Open = {}
    BY DEF PKCS11!Init, PKCS11!Off, Open
  <2>2. Cardinality(Open) = 0
    BY <2>1, FS_EmptySet
  <2>3. \A b \in Backends : be[b].session = "none"
    BY DEF PKCS11!Init, PKCS11!Off
  <2>4. QED BY <2>2, <2>3 DEF PKCS11!Init, PKCS11!Inits, ModuleOK
<1>5. QED BY <1>1, <1>2, <1>3, <1>4 DEF PKCS11Inv

\* Init sets up the backend of one type.
LEMMA SessionInit == Init => SessionInv
<1> SUFFICES ASSUME Init PROVE SessionInv
  OBVIOUS
<1>1. type \in {"vault", "pkcs11"} /\ (type = "vault" => Vault!Init) /\ (type = "pkcs11" => PKCS11!Init)
  BY DEF Init
<1>2. QED BY <1>1, VaultInit, PKCS11Init DEF SessionInv

\* Every step of the token's loop, of its file and of time.
LEMMA VaultStep ==
  ASSUME VaultInv, Vault!Next
  PROVE  VaultInv'
BY LoopMovesInv, VerifyInv, LookupSelfInv, RenewSelfInv, WriteFileInv, TickInv
   DEF Vault!Next, Vault!LoopStep

\* Nothing changes.
LEMMA VaultStutters ==
  ASSUME VaultInv, UNCHANGED <<tokenVars, faults>>
  PROVE  VaultInv'
<1>1. /\ left' = left /\ file' = file /\ age' = age /\ written' = written /\ writes' = writes
      /\ client' = client /\ started' = started /\ closed' = closed /\ loop' = loop
      /\ faults' = faults
  BY DEF tokenVars
<1>2. VaultTypes' /\ ClientOK' /\ CandidateOK'
  BY <1>1 DEF VaultInv, VaultTypes, ClientOK, CandidateOK
<1>3. Unseen' = Unseen
  BY <1>1 DEF Unseen
<1>4. FileOK'
  BY <1>1, <1>3, Zenon DEF VaultInv, FileOK
<1>5. QED BY <1>2, <1>4 DEF VaultInv

\* Every step is one of the backend of the type that was set up.
LEMMA SessionStep ==
  ASSUME SessionInv, [Next]_vars
  PROVE  SessionInv' /\ (type' = "pkcs11" => type = "pkcs11")
                     /\ (type = "pkcs11" => PubKept /\ (InitKept \/ PKCS11!ServerRestart))
<1>1. CASE IsVault(Vault!Next)
  <2>1. type' = type /\ type = "vault" /\ VaultInv /\ Vault!Next
    BY <1>1 DEF IsVault, SessionInv
  <2>2. VaultInv'
    BY <2>1, VaultStep
  <2>3. QED BY <2>1, <2>2 DEF SessionInv
<1>2. CASE IsPKCS11(PKCS11!Next)
  <2>1. type' = type /\ type = "pkcs11" /\ PKCS11Inv /\ PKCS11!Next
    BY <1>2 DEF IsPKCS11, SessionInv
  <2>2. PKCS11Inv' /\ PubKept /\ (InitKept \/ PKCS11!ServerRestart)
    BY <2>1, ReopenSteps, OperationSteps, TokenSteps DEF PKCS11!Next, PKCS11!Step
  <2>3. QED BY <2>1, <2>2 DEF SessionInv
<1>3. CASE UNCHANGED vars
  <2>1. /\ type' = type /\ faults' = faults /\ token' = token /\ loggedIn' = loggedIn
        /\ attempts' = attempts /\ pinFile' = pinFile /\ latch' = latch /\ module' = module
        /\ be' = be /\ signed' = signed
    BY <1>3 DEF vars, sessionVars
  <2>2. PKCS11Inv => PKCS11Inv'
    BY <2>1 DEF PKCS11Inv, BackendsOK, TokenOK, LatchOK, ModuleOK, SignedOK, Open
  <2>3. VaultInv => VaultInv'
    BY <1>3, VaultStutters DEF vars
  <2>4. QED BY <2>1, <2>2, <2>3 DEF SessionInv, PubKept, InitKept
<1>4. QED BY <1>1, <1>2, <1>3 DEF Next

\* Vault: the token in use, and a good one in the file, has left what the retries
\* still to come take (renewLoop).  PKCS#11: the latch is closed by the first refused
\* PIN, the registry counts the open backends and keeps the module for them, and what
\* was returned was signed by the key that the backend answers (nativePKCS11.Login,
\* acquirePKCS11Module, release, Sign).
THEOREM SessionInvariant == Spec => []SessionInv
<1>1. SessionInv /\ [Next]_vars => SessionInv'
  BY SessionStep
<1>2. QED BY <1>1, SessionInit, PTL DEF Spec

\* The Vault token in use stays alive whatever calls fail and however the file
\* changes, a replacement that cannot sign or be renewed is never taken over, and
\* one that can is in use after a poll interval without failures (renewLoop): for
\* periods of which half covers the retries.
THEOREM TokenStaysAlive == Spec => []TokenKeptAlive
<1>1. SessionInv => TokenKeptAlive
  <2> SUFFICES ASSUME type = "vault", VaultInv
               PROVE  /\ Vault!TypeOK
                      /\ Period[client] = 0 \/ left[client] > 0
                      /\ client \in Signers /\ (Period[client] = 0 \/ client \in Renewable)
                      /\ loop.pc = "sleep" /\ file \in Signers \cap Renewable /\ age > Poll
                           /\ faults = 0 => client = file
    BY DEF SessionInv, TokenKeptAlive
  <2>1. Vault!TypeOK
    <3>1. /\ left \in [Tokens -> Nat] /\ \A t \in Tokens : left[t] <= Period[t]
          /\ written \subseteq Tokens /\ file \in Tokens \cup {Nil} /\ client \in Tokens
          /\ age \in 0..Poll + 1 /\ writes \in 0..MaxWrites /\ loop \in Vault!Loop
          /\ faults \in 0..MaxFailures
      BY DEF VaultInv, VaultTypes
    <3>2. \A t \in Tokens : left[t] \in 0..Vault!MaxPeriod
      BY <3>1, Numbers, LongestPeriod
    <3>3. left \in [Tokens -> 0..Vault!MaxPeriod]
      BY <3>1, <3>2
    <3>4. {started, closed} \subseteq BOOLEAN
      BY DEF VaultInv, VaultTypes
    <3>5. QED BY <3>1, <3>3, <3>4, Zenon DEF Vault!TypeOK
  <2>2. Period[client] = 0 \/ left[client] > 0
    BY ClientAlive DEF Vault!Alive
  <2>3. client \in Signers /\ (Period[client] = 0 \/ client \in Renewable)
    BY ClientAlive, Numbers DEF VaultInv, ClientOK
  <2>4. ASSUME loop.pc = "sleep", file \in Signers \cap Renewable, age > Poll, faults = 0
        PROVE  client = file
    <3>1. Unseen /\ loop.wake \in Nat /\ Poll \in Nat /\ age \in Nat
      BY <2>4, ClientAlive, Numbers DEF Unseen, VaultInv, VaultTypes
    <3>2. file # client => age + loop.wake <= Poll
      BY <2>4, <3>1 DEF VaultInv, FileOK
    <3>3. QED BY <2>4, <3>1, <3>2
  <2>5. QED BY <2>1, <2>2, <2>3, <2>4
<1>2. QED BY <1>1, SessionInvariant, PTL

\* However many PKCS#11 backends there are, the process uses up at most one attempt
\* at the PIN (the latch of nativePKCS11.Login).
THEOREM OneAttempt == Spec => []OneWrongPIN
<1>1. SessionInv => OneWrongPIN
  <2> SUFFICES ASSUME type = "pkcs11", PKCS11Inv PROVE PKCS11!TypeOK /\ attempts <= 1
    BY DEF SessionInv, OneWrongPIN
  <2>1. Cardinality(Backends) \in Nat /\ module.refs \in 0..Cardinality(Backends)
    BY OpenFinite, FS_CardinalityType, SessionAssumption DEF PKCS11Inv, ModuleOK
  <2>2. module \in [refs : 0..Cardinality(Backends), owned : BOOLEAN, init : PKCS11!Inits]
    BY <2>1 DEF PKCS11Inv, ModuleOK
  <2>3. attempts \in 0..Cardinality(Backends) + 1 /\ attempts <= 1
    BY <2>1 DEF PKCS11Inv, LatchOK
  <2>4. {loggedIn, latch} \subseteq BOOLEAN /\ signed \subseteq Keys \X Keys
    BY DEF PKCS11Inv, LatchOK, TokenOK, SignedOK
  <2>5. PKCS11!Cardinality(Backends) = Cardinality(Backends)
    BY DEF PKCS11!Cardinality, Cardinality
  <2>6. QED BY <2>2, <2>3, <2>4, <2>5 DEF PKCS11!TypeOK, PKCS11Inv, TokenOK, BackendsOK
<1>2. QED BY <1>1, SessionInvariant, PTL

\* A signature that a backend returned was made with the key whose public half it
\* answers, and that answer never changes (the verification in Sign, reopen).
THEOREM SignaturesOfIdentity == Spec => SignedByIdentity
<1>1. SessionInv /\ [Next]_vars =>
        [type = "pkcs11" =>
           /\ \A s \in signed' : s[1] = s[2]
           /\ \A b \in Backends : be[b].pub # Nil => be'[b].pub \in {be[b].pub, Nil}]_vars
  <2> SUFFICES ASSUME SessionInv, [Next]_vars, type = "pkcs11", vars' # vars
               PROVE  /\ \A s \in signed' : s[1] = s[2]
                      /\ \A b \in Backends : be[b].pub # Nil => be'[b].pub \in {be[b].pub, Nil}
    OBVIOUS
  <2>1. type' = "pkcs11"
    BY DEF Next, IsVault, IsPKCS11
  <2>2. QED BY <2>1, SessionStep DEF SessionInv, PKCS11Inv, SignedOK, PubKept
<1>2. QED BY <1>1, SessionInvariant, PTL DEF Spec, SignedByIdentity

\* The references counted are those of the open backends, a session that works is on
\* an initialised module, and but for the HSM's own restart the module is initialised
\* for the first backend and finalized with the last, never for something else that
\* initialised it (acquirePKCS11Module, release, reopen).
THEOREM ModuleIsKept == Spec => ModuleOutlivesSessions
<1> DEFINE Kept ==
      /\ module'.refs = Cardinality({b \in Backends : be'[b].pc # "off"})
      /\ \A b \in Backends : be'[b].session = "ok" => module'.init # "none"
      /\ module'.refs = 0 => module'.init # "ours"
      /\ \/ module'.init = module.init
         \/ module.init = "none" /\ module.refs = 0
         \/ module.init = "ours" /\ module'.refs = 0
         \/ PKCS11!ServerRestart
<1>1. SessionInv /\ [Next]_vars => [type = "pkcs11" => Kept]_vars
  <2> SUFFICES ASSUME SessionInv, [Next]_vars, type = "pkcs11", vars' # vars
               PROVE  Kept
    OBVIOUS
  <2>1. PKCS11Inv' /\ (InitKept \/ PKCS11!ServerRestart)
    <3>1. type' = "pkcs11"
      BY DEF Next, IsVault, IsPKCS11
    <3>2. QED BY <3>1, SessionStep DEF SessionInv
  <2>2. module'.refs = Cardinality({b \in Backends : be'[b].pc # "off"})
    BY <2>1 DEF PKCS11Inv, ModuleOK, Open
  <2>3. QED BY <2>1, <2>2 DEF PKCS11Inv, ModuleOK, InitKept
<1>2. QED BY <1>1, SessionInvariant, PTL DEF Spec, ModuleOutlivesSessions
=============================================================================
