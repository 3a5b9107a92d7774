---------------------------- MODULE VaultRenewal ----------------------------
(***************************************************************************)
(* The token of the Vault backend: renewLoop keeps it alive and replaces   *)
(* it when the token file does, in discrete time.  A tick is the unit that *)
(* Vault reports a TTL in, a second, and the calls of one pass of the loop *)
(* take no time compared with its sleeps.                                  *)
(***************************************************************************)
EXTENDS Integers, FiniteSets

CONSTANTS Tokens, Nil,
          Period,     \* token -> its TTL in ticks when minted or renewed; 0: for ever
          Renewable,  \* the tokens that can be renewed
          Signers,    \* the tokens whose policy lets them sign
          First,      \* the token of the start
          Slack,      \* bound: what the first token has left, at least
          Poll, LookupRetry, RenewRetry,  \* the sleeps, in ticks
          MaxFaults,  \* bound: calls that Vault fails
          MaxWrites   \* bound: changes of the token file

VARIABLES left,     \* token -> ticks until it expires
          file,     \* the content of the token file
          age,      \* history: ticks since it changed, up to Poll + 1
          written,  \* the tokens that have been in the file
          writes,
          client,   \* the token the client uses
          started, closed,
          loop,     \* the goroutine of renewLoop
          faults

vars == <<left, file, age, written, writes, client, started, closed, loop, faults>>

MaxPeriod == CHOOSE n \in {Period[t] : t \in Tokens} : \A t \in Tokens : Period[t] <= n
Loop == [pc : {"none", "file", "verify", "lookup", "renew", "sleep", "ended"},
         candidate : Tokens \cup {Nil},
         renewAt : -Poll..MaxPeriod \cup {Nil},   \* ticks until then
         wake : 0..Poll]

TypeOK ==
  /\ left \in [Tokens -> 0..MaxPeriod]
  /\ file \in Tokens \cup {Nil} /\ client \in Tokens /\ written \subseteq Tokens
  /\ age \in 0..Poll + 1 /\ writes \in 0..MaxWrites
  /\ {started, closed} \subseteq BOOLEAN
  /\ loop \in Loop
  /\ faults \in 0..MaxFaults

Init ==
  /\ \E n \in Slack..Period[First] : left = [Period EXCEPT ![First] = n]
  /\ file = First /\ client = First /\ written = {First} /\ age = 0 /\ writes = 0
  /\ started = FALSE /\ closed = FALSE
  /\ loop = [pc |-> "none", candidate |-> Nil, renewAt |-> Nil, wake |-> 0]
  /\ faults = 0

Alive(t) == Period[t] = 0 \/ left[t] > 0
Fault == faults < MaxFaults /\ faults' = faults + 1
NoFault == UNCHANGED faults

\* TokenTTL: 0 for a token that never expires.
TTL(t) == IF Period[t] = 0 THEN 0 ELSE left[t]

Least(m, n) == IF m < n THEN m ELSE n
Most(m, n) == IF m < n THEN n ELSE m

Sleep(d, renewAt) ==
  loop' = [loop EXCEPT !.pc = "sleep", !.wake = d, !.renewAt = renewAt, !.candidate = Nil]
-----------------------------------------------------------------------------
\* Mutant of StartRenewal: it forgets that a backend was closed.
StartRenewalClosed ==
  /\ ~started /\ started' = TRUE
  /\ loop' = [loop EXCEPT !.pc = "file"]
  /\ UNCHANGED <<left, file, age, written, writes, client, closed, faults>>

\* Called after the preflight; on a closed backend it is an error, and a second
\* call changes nothing.
StartRenewal ==
  /\ ~closed /\ ~started /\ started' = TRUE
  /\ loop' = [loop EXCEPT !.pc = "file"]
  /\ UNCHANGED <<left, file, age, written, writes, client, closed, faults>>

Close ==
  /\ ~closed /\ closed' = TRUE
  /\ UNCHANGED <<left, file, age, written, writes, client, started, loop, faults>>

\* A token in the file that is not the client's is a candidate; a file that is
\* empty or cannot be read is passed over.
ReadFile ==
  /\ loop.pc = "file"
  /\ loop' = IF file \notin {Nil, client}
             THEN [loop EXCEPT !.pc = "verify", !.candidate = file]
             ELSE [loop EXCEPT !.pc = "lookup"]
  /\ UNCHANGED <<left, file, age, written, writes, client, started, closed, faults>>

\* Its capabilities, its lifetime, and a signature.
verifyClientCanSign(t) ==
  /\ Alive(t) /\ t \in Signers
  /\ TTL(t) > 0 => t \in Renewable

\* Mutant of Verify: a token that can sign is good enough.
VerifyCapability ==
  /\ loop.pc = "verify"
  /\ loop' = [loop EXCEPT !.pc = "lookup", !.candidate = Nil, !.renewAt = Nil]
  /\ client' = IF Alive(loop.candidate) /\ loop.candidate \in Signers
               THEN loop.candidate ELSE client
  /\ UNCHANGED <<left, file, age, written, writes, started, closed, faults>>

\* The candidate is taken over only if it passes the checks of the start.
Verify ==
  /\ loop.pc = "verify"
  /\ \/ /\ verifyClientCanSign(loop.candidate) /\ NoFault
        /\ client' = loop.candidate
        /\ loop' = [loop EXCEPT !.pc = "lookup", !.candidate = Nil, !.renewAt = Nil]
     \/ /\ IF verifyClientCanSign(loop.candidate) THEN Fault ELSE NoFault
        /\ loop' = [loop EXCEPT !.pc = "lookup", !.candidate = Nil]
        /\ UNCHANGED client
  /\ UNCHANGED <<left, file, age, written, writes, started, closed>>

\* Mutant of Deadline: the renewal is due when the token expires.
DeadlineLate == IF loop.renewAt = Nil THEN Most(TTL(client), 1) ELSE loop.renewAt

\* The deadline of the renewal: half the TTL, a second at least.  Time that is
\* not whole is rounded up, the later deadline.
Deadline == IF loop.renewAt = Nil THEN Most((TTL(client) + 1) \div 2, 1) ELSE loop.renewAt

\* Mutant of LookupSelf: the loop sleeps until the renewal is due.
LookupSelfSleeps ==
  /\ loop.pc = "lookup" /\ Alive(client)
  /\ IF client \notin Renewable \/ TTL(client) = 0 THEN Sleep(Poll, Nil)
     ELSE IF Deadline > 0 THEN Sleep(Deadline, Deadline)
     ELSE loop' = [loop EXCEPT !.pc = "renew", !.renewAt = Deadline]
  /\ UNCHANGED <<left, file, age, written, writes, client, started, closed, faults>>

\* LookupSelf and the schedule that follows from it.
LookupSelf ==
  /\ loop.pc = "lookup"
  /\ \/ /\ Alive(client) /\ NoFault
        /\ IF client \notin Renewable \/ TTL(client) = 0 THEN Sleep(Poll, Nil)
           ELSE IF Deadline > 0 THEN Sleep(Least(Deadline, Poll), Deadline)
           ELSE loop' = [loop EXCEPT !.pc = "renew", !.renewAt = Deadline]
     \/ /\ IF Alive(client) THEN Fault ELSE NoFault
        /\ Sleep(LookupRetry, loop.renewAt)
  /\ UNCHANGED <<left, file, age, written, writes, client, started, closed>>

\* RenewSelf; a failure leaves the deadline in the past, so the next pass tries
\* again.
RenewSelf ==
  /\ loop.pc = "renew"
  /\ \/ /\ Alive(client) /\ NoFault
        /\ left' = [left EXCEPT ![client] = Period[client]]
        /\ loop' = [loop EXCEPT !.pc = "file", !.renewAt = Nil]
     \/ /\ IF Alive(client) THEN Fault ELSE NoFault
        /\ Sleep(RenewRetry, loop.renewAt)
        /\ UNCHANGED left
  /\ UNCHANGED <<file, age, written, writes, client, started, closed>>

\* sleepOrStop: either case of the select when both are ready.
Wake ==
  /\ loop.pc = "sleep" /\ loop.wake = 0
  /\ loop' = [loop EXCEPT !.pc = "file"]
  /\ UNCHANGED <<left, file, age, written, writes, client, started, closed, faults>>

\* Mutant of Stop: a sleep after a failed call is not interrupted.
StopPolling ==
  /\ loop.pc = "sleep" /\ closed /\ TTL(client) > 0 /\ loop.renewAt # Nil
  /\ loop' = [loop EXCEPT !.pc = "ended"]
  /\ UNCHANGED <<left, file, age, written, writes, client, started, closed, faults>>

Stop ==
  /\ loop.pc = "sleep" /\ closed
  /\ loop' = [loop EXCEPT !.pc = "ended"]
  /\ UNCHANGED <<left, file, age, written, writes, client, started, closed, faults>>

\* External: the Secret is projected anew, with a fresh token or with none.
WriteFile ==
  /\ writes < MaxWrites /\ writes' = writes + 1
  /\ \E t \in (Tokens \ written) \cup {Nil} :
       /\ t # file
       /\ file' = t /\ written' = written \cup ({t} \ {Nil})
       /\ left' = IF t = Nil THEN left ELSE [left EXCEPT ![t] = Period[t]]
  /\ age' = 0
  /\ UNCHANGED <<client, started, closed, loop, faults>>

\* External: time passes while the loop sleeps.
Tick ==
  /\ loop.pc = "sleep" /\ loop.wake > 0
  /\ left' = [t \in Tokens |-> Most(left[t] - 1, 0)]
  /\ age' = Least(age + 1, Poll + 1)
  /\ loop' = [loop EXCEPT !.wake = @ - 1,
                !.renewAt = IF @ = Nil THEN Nil ELSE Most(@ - 1, -Poll)]
  /\ UNCHANGED <<file, written, writes, client, started, closed, faults>>

LoopStep == ReadFile \/ Verify \/ LookupSelf \/ RenewSelf \/ Wake
Next == StartRenewal \/ Close \/ LoopStep \/ Stop \/ WriteFile \/ Tick

Spec == Init /\ [][Next]_vars
=============================================================================
