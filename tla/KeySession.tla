----------------------------- MODULE KeySession -----------------------------
(***************************************************************************)
(* What a key backend keeps up while the process runs, and closes at its   *)
(* end: the token of a Vault client, renewed and replaced, or the sessions *)
(* of PKCS#11 backends, recovered.  Config.Type decides which; the         *)
(* variables of the other are Nil.                                         *)
(***************************************************************************)
EXTENDS Integers, FiniteSets

CONSTANTS Nil,
          Tokens, Period, Renewable, Signers, First, Slack,    \* vault
          Poll, LookupRetry, RenewRetry, MaxFailures, MaxWrites,
          Backends, Keys, PINs, MaxFaults                      \* pkcs11

ASSUME RenewalAssumption ==
  /\ First \in Tokens /\ Renewable \subseteq Tokens /\ Signers \subseteq Tokens
  /\ Period \in [Tokens -> Nat] /\ \E t \in Tokens : \A u \in Tokens : Period[u] <= Period[t]
  /\ {Poll, LookupRetry, RenewRetry, MaxFailures, MaxWrites} \subseteq Nat
  /\ 0 < RenewRetry /\ RenewRetry <= LookupRetry /\ LookupRetry <= Poll
  /\ Nil \notin Tokens /\ Nil \notin Int

\* What the retries of every failing call take, and one tick.
Retries == LookupRetry * MaxFailures + 1

\* The preflight has passed the first token.  Half of what it has left covers the
\* retries, and so does half of a period after the passes in which a replacement
\* could not be verified.
ASSUME LifetimeAssumption ==
  /\ First \in Signers /\ (Period[First] > 0 => First \in Renewable)
  /\ Slack \in 0..Period[First] /\ (Period[First] > 0 => Slack >= 2 * Retries)
  /\ \A t \in Signers \cap Renewable :
       Period[t] > 0 => Period[t] >= 2 * Retries + Poll * (MaxFailures + 1)

ASSUME SessionAssumption ==
  /\ IsFiniteSet(Backends) /\ MaxFaults \in Nat
  /\ Keys # {} /\ PINs # {} /\ Nil \notin Keys

VARIABLES type, faults,
          left, file, age, written, writes, client, started, closed, loop,
          token, loggedIn, attempts, pinFile, latch, module, be, signed

tokenVars == <<left, file, age, written, writes, client, started, closed, loop>>
sessionVars == <<token, loggedIn, attempts, pinFile, latch, module, be, signed>>
vars == <<type, faults, tokenVars, sessionVars>>

Vault == INSTANCE VaultRenewal WITH MaxFaults <- MaxFailures
PKCS11 == INSTANCE PKCS11Session

NoToken == /\ left = Nil /\ file = Nil /\ age = Nil /\ written = Nil /\ writes = Nil
           /\ client = Nil /\ started = Nil /\ closed = Nil /\ loop = Nil
NoSession == /\ token = Nil /\ loggedIn = Nil /\ attempts = Nil /\ pinFile = Nil
             /\ latch = Nil /\ module = Nil /\ be = Nil /\ signed = Nil

Init ==
  \/ type = "vault" /\ Vault!Init /\ NoSession
  \/ type = "pkcs11" /\ PKCS11!Init /\ NoToken

\* A step of the backend of that type.
IsVault(step) == type = "vault" /\ step /\ UNCHANGED <<type, sessionVars>>
IsPKCS11(step) == type = "pkcs11" /\ step /\ UNCHANGED <<type, tokenVars>>

Next == IsVault(Vault!Next) \/ IsPKCS11(PKCS11!Next)

Spec == Init /\ [][Next]_vars

\* The goroutine of renewLoop runs and time passes; select picks the closed
\* channel some day.  Calls of a PKCS#11 backend run to their end, the node asks
\* for signatures again and again, and a token that was removed comes back.
FairSpec ==
  /\ Spec
  /\ WF_vars(IsVault(Vault!LoopStep)) /\ WF_vars(IsVault(Vault!Tick))
  /\ SF_vars(IsVault(Vault!Stop))
  /\ WF_vars(IsPKCS11(PKCS11!Insert))
  /\ \A b \in Backends : /\ WF_vars(IsPKCS11(PKCS11!Step(b)))
                         /\ SF_vars(IsPKCS11(PKCS11!Begin(b, "sign")))
-----------------------------------------------------------------------------
\* The Vault token in use stays alive although calls fail and the file changes at
\* any moment: each is renewed, or replaced by one that can be kept alive, in time
\* (renewLoop).  A replacement that cannot sign, or cannot be renewed, is never
\* taken over; one that can is in use once it has been in the file for a poll
\* interval, however far away the renewal of the old token is.
TokenKeptAlive ==
  type = "vault" =>
    /\ Vault!TypeOK
    /\ Period[client] = 0 \/ left[client] > 0
    /\ client \in Signers /\ (Period[client] = 0 \/ client \in Renewable)
    /\ loop.pc = "sleep" /\ file \in Signers \cap Renewable /\ age > Poll /\ faults = 0
         => client = file

\* After Close a loop that runs ends, from whatever it was doing, and one that had
\* not been started never runs, also when Close comes between the preflight and
\* StartRenewal.
CloseEnds ==
  /\ type = "vault" /\ closed ~> type # "vault" \/ loop.pc \in {"none", "ended"}
  /\ [][type = "vault" /\ closed /\ loop.pc = "none" => loop'.pc = "none"]_vars

\* However many PKCS#11 backends try, one after the other or at once, and however
\* often they recover, one process uses up one attempt at the PIN: the token's
\* retry counter is never run down (the latch of nativePKCS11.Login).
OneWrongPIN == type = "pkcs11" => PKCS11!TypeOK /\ attempts <= 1

\* A signature that a backend returned was made with the key whose public half it
\* answers, not with one that replaced it on the token; and what it answers never
\* changes while it lives (verification in Sign, reopen).
SignedByIdentity ==
  [][type = "pkcs11" =>
       /\ \A s \in signed' : s[1] = s[2]
       /\ \A b \in Backends : be[b].pub # Nil => be'[b].pub \in {be[b].pub, Nil}]_vars

\* The count of references is that of the backends, and who has a working session
\* has an initialised module.  The module is initialised for the first backend
\* only, and finalized with the last, if it was this package that initialised it:
\* never under the session of another, never by recovery, and never for something
\* else in the process that uses it too (acquirePKCS11Module, its release).  What
\* the HSM's own restart does to it is the exception.
ModuleOutlivesSessions ==
  [][type = "pkcs11" =>
       /\ module'.refs = Cardinality({b \in Backends : be'[b].pc # "off"})
       /\ \A b \in Backends : be'[b].session = "ok" => module'.init # "none"
       /\ module'.refs = 0 => module'.init # "ours"
       /\ \/ module'.init = module.init
          \/ module.init = "none" /\ module.refs = 0
          \/ module.init = "ours" /\ module'.refs = 0
          \/ PKCS11!ServerRestart]_vars

\* Once the token stays with its key, a backend that stays open signs again, unless
\* a PIN was refused or the module lost its initialization: no session that failed
\* is kept for ever (sign, reopen).  Recovery does not initialise the module, so
\* after a restart of the HSM that loses it no backend of the process signs until
\* all have been closed, as README.md documents for BouncyHsm.
SignsAgain ==
  \A b \in Backends :
    \/ []<>(type # "pkcs11" \/ (be[b].pc = "verify" /\ be[b].sig = be[b].pub))
    \/ []<>(type # "pkcs11" \/ be[b].pc = "off")
    \/ <>[](type = "pkcs11" /\ (latch \/ token.key # be[b].pub \/ module.init = "none"))
=============================================================================
