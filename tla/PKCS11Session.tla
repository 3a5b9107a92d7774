--------------------------- MODULE PKCS11Session ---------------------------
(***************************************************************************)
(* The PKCS#11 backends of one process: the module they share and count,   *)
(* the session of each, its recovery when the token goes away or its key   *)
(* or PIN changes, and the process-wide latch on a refused PIN.  The mutex *)
(* of a backend makes its operations one at a time; the steps of different *)
(* backends interleave.                                                    *)
(***************************************************************************)
EXTENDS Naturals, FiniteSets

CONSTANTS Backends, Keys, PINs, Nil,
          MaxFaults   \* bound: what happens to the token and the PIN file

VARIABLES token,    \* [present, key, pin]: the token, external
          loggedIn, \* the process is logged in to the token
          attempts, \* history: logins of this process with a wrong PIN
          pinFile,
          latch,    \* pkcs11PINFailures has an entry for the token
          module,   \* [refs, owned, init]: the registry's entry, the module's state
          be,       \* backend -> its state
          signed,   \* history: <<cached key, key that signed>> of returned signatures
          faults

vars == <<token, loggedIn, attempts, pinFile, latch, module, be, signed, faults>>
external == <<token, pinFile, faults>>

Inits == {"none", "ours", "foreign"}   \* by whom the module is initialised now

Backend == [pc : {"off", "idle", "select", "open", "login", "keys", "sign", "resign",
                  "precheck", "verify"},
            next : {"idle", "sign", "precheck", "resign"},  \* what reopen is for
            session : {"none", "ok", "lost", "wedged"},
            pub : Keys \cup {Nil}, pin : PINs \cup {Nil}, sig : Keys \cup {Nil},
            pinFailure : BOOLEAN]
Off == [pc |-> "off", next |-> "idle", session |-> "none", pub |-> Nil, pin |-> Nil,
        sig |-> Nil, pinFailure |-> FALSE]

TypeOK ==
  /\ token \in [present : BOOLEAN, key : Keys, pin : PINs]
  /\ {loggedIn, latch} \subseteq BOOLEAN /\ attempts \in 0..Cardinality(Backends) + 1
  /\ pinFile \in PINs
  /\ module \in [refs : 0..Cardinality(Backends), owned : BOOLEAN, init : Inits]
  /\ be \in [Backends -> Backend]
  /\ signed \subseteq Keys \X Keys
  /\ faults \in 0..MaxFaults

\* Keys and PINs are interchangeable, so one of each is there first.
Init ==
  /\ token \in [present : BOOLEAN, key : {CHOOSE k \in Keys : TRUE}, pin : PINs]
  /\ loggedIn = FALSE /\ attempts = 0 /\ latch = FALSE
  /\ pinFile = CHOOSE n \in PINs : TRUE
  /\ \E i \in {"none", "foreign"} : module = [refs |-> 0, owned |-> FALSE, init |-> i]
  /\ be = [b \in Backends |-> Off]
  /\ signed = {} /\ faults = 0

At(b, pc) == be[b].pc = pc
Update(b, state) == be' = [be EXCEPT ![b] = state]

\* Logging in is per process: closing the last session logs out.
Sessions(states) == {b \in Backends : states[b].session # "none"}
Logout == loggedIn' = (loggedIn /\ Sessions(be') # {})
-----------------------------------------------------------------------------
\* Mutant of Acquire: every backend initialises, and the last answer counts.
AcquireAnew(b) ==
  /\ At(b, "off")
  /\ module' = [refs |-> module.refs + 1, owned |-> module.init = "none",
                init |-> IF module.init = "none" THEN "ours" ELSE module.init]
  /\ Update(b, [Off EXCEPT !.pc = "select"])
  /\ UNCHANGED <<external, loggedIn, attempts, latch, signed>>

\* acquirePKCS11Module, under the registry's mutex: Initialize is called for a new
\* entry only, and the entry says whether it was this package's.
Acquire(b) ==
  /\ At(b, "off")
  /\ module' = IF module.refs = 0
               THEN [refs |-> 1, owned |-> module.init = "none",
                     init |-> IF module.init = "none" THEN "ours" ELSE module.init]
               ELSE [module EXCEPT !.refs = @ + 1]
  /\ Update(b, [Off EXCEPT !.pc = "select"])
  /\ UNCHANGED <<external, loggedIn, attempts, latch, signed>>

\* Finalize, or nothing, when n backends are left.
Released(n, finalize) ==
  [refs |-> n, owned |-> module.owned /\ n > 0,
   init |-> IF finalize THEN "none" ELSE module.init]

\* Mutant of release: whoever is last finalizes.
releaseFinalize == module' = Released(module.refs - 1, module.refs = 1)

\* Mutant of release: the count is not looked at.
releaseFirst == module' = Released(module.refs - 1, module.owned)

\* The last backend to go finalizes the module, if this package initialised it,
\* and its entry is deleted.
release == module' = Released(module.refs - 1, module.refs = 1 /\ module.owned)

\* reopen has failed with an error: its caller returns it, and newPKCS11 closes
\* the backend.
ReopenFails(b, pinFailure) ==
  IF be[b].pub = Nil
  THEN Update(b, Off) /\ release
  ELSE /\ Update(b, [be[b] EXCEPT !.pc = "idle", !.session = "none", !.pin = Nil,
                                  !.pinFailure = pinFailure])
       /\ UNCHANGED module

\* The calls of reopen find an initialised module and the token in it.  reopen
\* does not initialise: a module that lost its initialization stays as it is.
Answers == token.present /\ module.init # "none"

\* Exactly one token that does EdDSA, and the PIN file, read anew.
Select(b) ==
  /\ At(b, "select")
  /\ \/ Answers /\ UNCHANGED module
        /\ Update(b, [be[b] EXCEPT !.pc = "open", !.pin = pinFile])
     \/ ~Answers /\ ReopenFails(b, FALSE)
  /\ Logout
  /\ UNCHANGED <<external, attempts, latch, signed>>

OpenSession(b) ==
  /\ At(b, "open")
  /\ \/ Answers /\ UNCHANGED module
        /\ Update(b, [be[b] EXCEPT !.pc = "login", !.session = "ok"])
     \/ ~Answers /\ ReopenFails(b, FALSE)
  /\ Logout
  /\ UNCHANGED <<external, attempts, latch, signed>>

\* Mutant of Login: only the backend remembers that its PIN was refused.
LoginUnlatched(b) ==
  /\ At(b, "login")
  /\ \/ /\ loggedIn \/ be[b].pin = token.pin
        /\ Update(b, [be[b] EXCEPT !.pc = "keys", !.pin = Nil]) /\ loggedIn' = TRUE
        /\ UNCHANGED <<attempts, module>>
     \/ /\ ~loggedIn /\ be[b].pin # token.pin
        /\ attempts' = attempts + 1 /\ ReopenFails(b, TRUE) /\ Logout
  /\ UNCHANGED <<external, latch, signed>>

\* nativePKCS11.Login, its mutex held from the look at the latch to the answer.
Login(b) ==
  /\ At(b, "login")
  /\ \/ /\ be[b].session # "ok" /\ ReopenFails(b, FALSE)
        /\ Logout /\ UNCHANGED <<attempts, latch>>
     \/ /\ be[b].session = "ok" /\ latch /\ ReopenFails(b, TRUE)
        /\ Logout /\ UNCHANGED <<attempts, latch>>
     \/ /\ be[b].session = "ok" /\ ~latch /\ (loggedIn \/ be[b].pin = token.pin)
        /\ Update(b, [be[b] EXCEPT !.pc = "keys", !.pin = Nil]) /\ loggedIn' = TRUE
        /\ UNCHANGED <<attempts, latch, module>>
     \/ /\ be[b].session = "ok" /\ ~latch /\ ~loggedIn /\ be[b].pin # token.pin
        /\ attempts' = attempts + 1 /\ latch' = TRUE
        /\ ReopenFails(b, TRUE) /\ Logout
  /\ UNCHANGED <<external, signed>>

\* Mutant of FindKeys: what the token holds now becomes the identity.
FindKeysAnew(b) ==
  /\ At(b, "keys")
  /\ \/ /\ be[b].session = "ok" /\ UNCHANGED module
        /\ Update(b, [be[b] EXCEPT !.pc = be[b].next, !.next = "idle", !.pub = token.key])
     \/ be[b].session # "ok" /\ ReopenFails(b, FALSE)
  /\ Logout
  /\ UNCHANGED <<external, attempts, latch, signed>>

\* keys: one pair, sensitive and not extractable; after the first time it must be
\* the pair that is cached.
FindKeys(b) ==
  /\ At(b, "keys")
  /\ \/ /\ be[b].session = "ok" /\ be[b].pub \in {Nil, token.key} /\ UNCHANGED module
        /\ Update(b, [be[b] EXCEPT !.pc = be[b].next, !.next = "idle", !.pub = token.key])
     \/ /\ be[b].session # "ok" \/ be[b].pub \notin {Nil, token.key}
        /\ ReopenFails(b, FALSE)
  /\ Logout
  /\ UNCHANGED <<external, attempts, latch, signed>>
-----------------------------------------------------------------------------
\* Sign, VerifyCanSign or ClaimCluster begins: not after a refused PIN; without
\* a session it reopens first.
Begin(b, op) ==
  /\ At(b, "idle") /\ ~be[b].pinFailure
  /\ Update(b, IF be[b].session = "none"
               THEN [be[b] EXCEPT !.pc = "select", !.next = op]
               ELSE [be[b] EXCEPT !.pc = op])
  /\ UNCHANGED <<external, loggedIn, attempts, latch, module, signed>>

Dropped(b) == [be[b] EXCEPT !.pc = "idle", !.session = "none", !.sig = Nil]

\* Mutant of ModuleSign: a session that failed is kept.
ModuleSignKeeps(b) ==
  /\ At(b, "sign") \/ At(b, "resign")
  /\ \/ be[b].session = "ok" /\ Update(b, [be[b] EXCEPT !.pc = "verify", !.sig = token.key])
     \/ /\ be[b].session = "lost" /\ At(b, "sign")
        /\ Update(b, [be[b] EXCEPT !.pc = "select", !.session = "none", !.next = "resign"])
     \/ /\ be[b].session = "wedged" \/ (be[b].session = "lost" /\ At(b, "resign"))
        /\ Update(b, [be[b] EXCEPT !.pc = "idle"])
  /\ Logout
  /\ UNCHANGED <<external, attempts, latch, module, signed>>

\* module.Sign signs with whatever key the handle stands for now.  A session that
\* was lost is reopened, once per call; any other error drops the session.
ModuleSign(b) ==
  /\ At(b, "sign") \/ At(b, "resign")
  /\ \/ be[b].session = "ok" /\ Update(b, [be[b] EXCEPT !.pc = "verify", !.sig = token.key])
     \/ /\ be[b].session = "lost" /\ At(b, "sign")
        /\ Update(b, [be[b] EXCEPT !.pc = "select", !.session = "none", !.next = "resign"])
     \/ /\ be[b].session = "wedged" \/ (be[b].session = "lost" /\ At(b, "resign"))
        /\ Update(b, Dropped(b))
  /\ Logout
  /\ UNCHANGED <<external, attempts, latch, module, signed>>

\* Mutant of Verify: the token is trusted.
VerifyNothing(b) ==
  /\ At(b, "verify")
  /\ signed' = signed \cup {<<be[b].pub, be[b].sig>>}
  /\ Update(b, [be[b] EXCEPT !.pc = "idle", !.sig = Nil])
  /\ UNCHANGED <<external, loggedIn, attempts, latch, module>>

\* The signature must verify under the cached key.
Verify(b) ==
  /\ At(b, "verify")
  /\ signed' = IF be[b].sig = be[b].pub THEN signed \cup {<<be[b].pub, be[b].sig>>} ELSE signed
  /\ Update(b, [be[b] EXCEPT !.pc = "idle", !.sig = Nil])
  /\ UNCHANGED <<external, loggedIn, attempts, latch, module>>

\* The precheck of ClaimCluster reads the keys again; MarkerFile has the rest.
Precheck(b) ==
  /\ At(b, "precheck")
  /\ Update(b, [be[b] EXCEPT !.pc = "idle"])
  /\ UNCHANGED <<external, loggedIn, attempts, latch, module, signed>>

\* Close waits for the mutex, closes the session and releases the module.
Close(b) ==
  /\ At(b, "idle")
  /\ Update(b, Off) /\ release /\ Logout
  /\ UNCHANGED <<external, attempts, latch, signed>>
-----------------------------------------------------------------------------
Fault == faults < MaxFaults /\ faults' = faults + 1
Sessionless(s) ==
  [b \in Backends |-> IF be[b].session = "none" \/ module.init = "none" THEN be[b]
                      ELSE [be[b] EXCEPT !.session = s]]

\* External: the token is removed, and every session with it, or comes back.
Remove ==
  /\ Fault /\ token.present
  /\ token' = [token EXCEPT !.present = FALSE]
  /\ be' = Sessionless("lost") /\ loggedIn' = FALSE
  /\ UNCHANGED <<attempts, pinFile, latch, module, signed>>

Insert ==
  /\ ~token.present
  /\ token' = [token EXCEPT !.present = TRUE]
  /\ UNCHANGED <<loggedIn, attempts, pinFile, latch, module, be, signed, faults>>

\* External: sessions fail with an error that does not say that they are lost; the
\* module goes on and opens new ones.
Wedge ==
  /\ Fault /\ be' = Sessionless("wedged")
  /\ UNCHANGED <<token, loggedIn, attempts, pinFile, latch, module, signed>>

\* External: the HSM behind the module restarts and loses the initialization of
\* Cryptoki, with every session (CKR_CRYPTOKI_NOT_INITIALIZED from then on, which
\* is not among the codes that sign recovers from).
ServerRestart ==
  /\ Fault /\ module.init # "none"
  /\ module' = [module EXCEPT !.init = "none"]
  /\ be' = Sessionless("wedged") /\ loggedIn' = FALSE
  /\ UNCHANGED <<token, attempts, pinFile, latch, signed>>

\* External: the key pair or the PIN is replaced on the token, or the PIN file.
Replace ==
  /\ Fault
  /\ \/ \E k \in Keys \ {token.key} : token' = [token EXCEPT !.key = k] /\ UNCHANGED pinFile
     \/ \E n \in PINs \ {token.pin} : token' = [token EXCEPT !.pin = n] /\ UNCHANGED pinFile
     \/ \E n \in PINs \ {pinFile} : pinFile' = n /\ UNCHANGED token
  /\ UNCHANGED <<loggedIn, attempts, latch, module, be, signed>>

Step(b) ==
  \/ Select(b) \/ OpenSession(b) \/ Login(b) \/ FindKeys(b) \/ ModuleSign(b)
  \/ Verify(b) \/ Precheck(b)

Next ==
  \/ \E b \in Backends : \/ Acquire(b) \/ Step(b) \/ Close(b)
                         \/ \E op \in {"sign", "precheck"} : Begin(b, op)
  \/ Remove \/ Insert \/ Wedge \/ ServerRestart \/ Replace

Spec == Init /\ [][Next]_vars
============================================================================
