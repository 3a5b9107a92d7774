------------------------- MODULE GatedSignerProofs -------------------------
(* The gated signer never signs twice: the inductive invariant and the     *)
(* safety properties that follow from it, for every number of replicas,    *)
(* workers, requests, retries and faults.  And the replicated signer       *)
(* implements the gate: the committed mark of a chain is the gate's mark.  *)
EXTENDS GatedSigner, RaftStoreProofs

\* The entries that carry the number a worker waits for hold its command.
OwnEntry(w, cmd) == \A e \in Entries : e.id = future[w].id => e.cmd = cmd

Expecting(w) == future[w].st \in {"wait", "ok"}

\* A worker past its reservation holds reserved bytes and their signature.  They
\* may differ from its own request in the timestamp only.
HoldsSignature(wk) ==
  /\ wk.signature \in signed /\ wk.signature.over = wk.signBytes
  /\ wk.signBytes \in ReservedBytes
  /\ onlyDiffersByTimestamp(wk.signBytes, SignBytesOf(wk.msg))
  /\ wk.ts = wk.signBytes.ts

WorkerOK(w) ==
  /\ worker[w].pc # "idle" => /\ worker[w].msg \in Requests /\ Acceptable(worker[w].msg)
                              /\ worker[w].node \in Replicas
  /\ worker[w].pc = "reserve" /\ Expecting(w) => OwnEntry(w, ReserveOf(worker[w].msg))
  /\ worker[w].pc \in {"signed", "commit"} => HoldsSignature(worker[w])
  /\ worker[w].pc = "commit" /\ Expecting(w) => OwnEntry(w, CommitOf(worker[w]))

WorkersOK == \A w \in Callers : WorkerOK(w)

\* The key signs reserved bytes only, and only its signatures are recorded.
SignedOK ==
  /\ \A s \in signed : s.over \in ReservedBytes
  /\ \A e \in pending : e.cmd.op = "commit" => e.cmd.signature \in signed
  /\ \A i \in 1..Len(log) : log[i].cmd.op = "commit" => log[i].cmd.signature \in signed
  /\ RecordedSignatures \subseteq signed

ReleasedOK ==
  \A r \in released : /\ r.signature \in RecordedSignatures
                      /\ r.signature.over = SignBytesOf(r.msg)
                      /\ r.extSigned = nonNilPrecommit(r.msg)

SignerInv == StoreInv /\ TypeOK /\ WorkersOK /\ SignedOK /\ ReleasedOK
-----------------------------------------------------------------------------
\* A request that passes the checks of SignVote makes a well-formed command.
LEMMA RequestBytes ==
  ASSUME NEW m \in Requests, Acceptable(m)
  PROVE  /\ m \in Request
         /\ SignBytesOf(m) \in SignBytes
         /\ SignBytesOf(m).chain = m.chain /\ SignBytesOf(m).height = m.height
         /\ SignBytesOf(m).round = m.round /\ SignBytesOf(m).step = voteToStep(m.type)
         /\ SignBytesOf(m).ts = m.ts /\ SignBytesOf(m).block = m.block
         /\ WellFormed(ReserveOf(m))
         /\ ReserveOf(m).op = "reserve" /\ ReserveOf(m).signBytes = SignBytesOf(m)
<1>1. m \in Request
  BY SignerAssumption
<1>2. voteToStep(m.type) \in Steps
  BY <1>1 DEF Acceptable, Request, voteToStep, Steps, StepPropose, StepPrevote, StepPrecommit
<1>3. /\ SignBytesOf(m) \in SignBytes
      /\ SignBytesOf(m).chain = m.chain /\ SignBytesOf(m).height = m.height
      /\ SignBytesOf(m).round = m.round /\ SignBytesOf(m).step = voteToStep(m.type)
      /\ SignBytesOf(m).ts = m.ts /\ SignBytesOf(m).block = m.block
  BY <1>1, <1>2 DEF SignBytesOf, SignBytes, Request
<1>4. ReserveOf(m) \in ReserveCommand
  BY <1>1, <1>2, <1>3 DEF ReserveOf, ReserveCommand, Request
<1>5. QED BY <1>1, <1>3, <1>4 DEF WellFormed, ReserveOf, Command

\* Bytes that differ in the timestamp only are at the same coordinates, and
\* putting their timestamp into the request gives back the bytes.
LEMMA TimestampOnly ==
  ASSUME NEW m \in Requests, Acceptable(m), NEW b \in SignBytes,
         onlyDiffersByTimestamp(b, SignBytesOf(m))
  PROVE  /\ b.chain = m.chain /\ b.height = m.height /\ b.round = m.round
         /\ b.step = voteToStep(m.type)
         /\ [m EXCEPT !.ts = b.ts] \in Request
         /\ SignBytesOf([m EXCEPT !.ts = b.ts]) = b
         /\ nonNilPrecommit([m EXCEPT !.ts = b.ts]) = nonNilPrecommit(m)
<1>1. /\ b.chain = m.chain /\ b.height = m.height /\ b.round = m.round
      /\ b.step = voteToStep(m.type) /\ b.block = m.block
  BY RequestBytes DEF onlyDiffersByTimestamp, SignBytes
<1> DEFINE r == [m EXCEPT !.ts = b.ts]
<1>2. /\ r \in Request /\ r.chain = m.chain /\ r.type = m.type /\ r.height = m.height
      /\ r.round = m.round /\ r.block = m.block /\ r.ts = b.ts
  BY RequestBytes DEF Request, SignBytes
<1> HIDE DEF r
<1>3. SignBytesOf(r) = b
  BY <1>1, <1>2 DEF SignBytesOf, SignBytes
<1>4. nonNilPrecommit(r) = nonNilPrecommit(m)
  BY <1>2 DEF nonNilPrecommit
<1>5. QED BY <1>1, <1>2, <1>3, <1>4 DEF r

\* A commit command of a worker that holds a signature is well formed.
LEMMA CommitWellFormed ==
  ASSUME TypeOK, WorkersOK, NEW w \in Callers, worker[w].pc \in {"signed", "commit"}
  PROVE  /\ WellFormed(CommitOf(worker[w]))
         /\ CommitOf(worker[w]).op = "commit"
         /\ CommitOf(worker[w]).signBytes = worker[w].signBytes
         /\ CommitOf(worker[w]).signature = worker[w].signature
<1> DEFINE wk == worker[w]
           m == wk.msg
<1>1. /\ m \in Requests /\ Acceptable(m) /\ wk.signature \in Signature
      /\ wk.signature.over = wk.signBytes
      /\ onlyDiffersByTimestamp(wk.signBytes, SignBytesOf(m))
  BY DEF WorkersOK, WorkerOK, HoldsSignature, TypeOK
<1>2. wk.signBytes \in SignBytes
  BY <1>1 DEF Signature
<1>3. /\ wk.signBytes.chain = m.chain /\ wk.signBytes.height = m.height
      /\ wk.signBytes.round = m.round /\ wk.signBytes.step = voteToStep(m.type)
  BY <1>1, <1>2, TimestampOnly, Zenon
<1>4. CommitOf(wk) \in CommitCommand
  BY <1>1, <1>2, <1>3 DEF CommitOf, CommitCommand, SignBytes
<1>5. QED BY <1>1, <1>3, <1>4 DEF WellFormed, CommitOf, Command

\* What was once committed stays in the history.
LEMMA HistoryKeeps ==
  ASSUME StoreInv, StoreInv', HistoryGrows
  PROVE  /\ CommittedMarks \subseteq CommittedMarks'
         /\ ReservedBytes \subseteq ReservedBytes'
         /\ RecordedSignatures \subseteq RecordedSignatures'
<1>1. 0..Len(log) \subseteq 0..Len(log')
  BY HistoryTypes DEF HistoryGrows, StoreInv, StoreTypeOK
<1>2. CommittedMarks \subseteq CommittedMarks'
  BY <1>1 DEF CommittedMarks, HistoryGrows
<1>3. QED BY <1>2 DEF ReservedBytes, RecordedSignatures

\* A step that commits nothing leaves the history as it is.
LEMMA MarksStay ==
  ASSUME log' = log, states' = states
  PROVE  /\ CommittedMarks' = CommittedMarks
         /\ ReservedBytes' = ReservedBytes
         /\ RecordedSignatures' = RecordedSignatures
<1>1. CommittedMarks' = CommittedMarks
  BY DEF CommittedMarks
<1>2. QED BY <1>1 DEF ReservedBytes, RecordedSignatures

\* A mark of the history is a mark of the chain it stands for.
LEMMA CommittedMarkTypes ==
  ASSUME StoreInv, NEW m \in CommittedMarks
  PROVE  \E i \in 0..Len(log), c \in Chains : m = states[i].state[c] /\ IsMark(c, m)
BY HistoryTypes DEF CommittedMarks, MarksOK

\* Two marks of the history at the same coordinates hold the same bytes, and
\* the same signature when both have one.
LEMMA OneMarkPerHRS ==
  ASSUME StoreInv, NEW a \in CommittedMarks, NEW b \in CommittedMarks,
         SameHRS(a.signBytes, b.signBytes)
  PROVE  /\ a.signBytes = b.signBytes
         /\ a.signature # Nil /\ b.signature # Nil => a.signature = b.signature
<1>1. PICK i \in 0..Len(log), c \in Chains : a = states[i].state[c] /\ IsMark(c, a)
  BY CommittedMarkTypes
<1>2. PICK j \in 0..Len(log), d \in Chains : b = states[j].state[d] /\ IsMark(d, b)
  BY CommittedMarkTypes
<1>3. /\ c = d /\ a \in SignState /\ b \in SignState
      /\ a.height = b.height /\ a.round = b.round /\ a.step = b.step
  <2>1. /\ a \in SignState /\ a.signBytes.chain = c /\ a.height = a.signBytes.height
        /\ a.round = a.signBytes.round /\ a.step = a.signBytes.step
    BY <1>1, IsMarkFields
  <2>2. /\ b \in SignState /\ b.signBytes.chain = d /\ b.height = b.signBytes.height
        /\ b.round = b.signBytes.round /\ b.step = b.signBytes.step
    BY <1>2, IsMarkFields
  <2>3. QED BY <2>1, <2>2, Zenon DEF SameHRS
<1>4. ~Below(a, b) /\ ~Below(b, a)
  <2>1. a.height \in Int /\ a.round \in Int /\ a.step \in Int
    BY <1>3, SignStateFields
  <2>2. QED BY <1>3, <2>1 DEF Below
<1>5. a # Nil /\ b # Nil
  BY <1>3, NilIsNoValue
<1>6. Len(log) \in Nat
  BY HistoryTypes
<1>7. CASE i <= j
  <2>1. MarkFollows(a, b)
    BY <1>1, <1>2, <1>3, <1>7, Zenon DEF StoreInv, MarksOnlyAdvance
  <2>2. QED BY <1>4, <1>5, <2>1 DEF MarkFollows
<1>8. CASE j <= i
  <2>1. MarkFollows(b, a)
    BY <1>1, <1>2, <1>3, <1>8 DEF StoreInv, MarksOnlyAdvance
  <2>2. QED BY <1>4, <1>5, <2>1 DEF MarkFollows
<1>9. QED BY <1>6, <1>7, <1>8

\* An answered reservation points at a mark of the history: the one to sign, or
\* the one whose signature is to be released again.
LEMMA ReserveAnswer ==
  ASSUME SignerInv, NEW w \in Callers, worker[w].pc = "reserve", Succeeded(w)
  PROVE  \E m \in CommittedMarks :
           /\ m \in SignState
           /\ m.signature # Nil => m.signature.over = m.signBytes
           /\ onlyDiffersByTimestamp(m.signBytes, SignBytesOf(worker[w].msg))
           /\ future[w].res.timestamp = m.signBytes.ts
           /\ \/ /\ future[w].res.reuse /\ future[w].res.signature # Nil
                 /\ future[w].res.signature = m.signature
              \/ ~future[w].res.reuse /\ future[w].res.signBytes = m.signBytes
<1> DEFINE msg == worker[w].msg
           cmd == ReserveOf(msg)
           b == SignBytesOf(msg)
<1>1. PICK i \in 1..Len(log) : /\ log[i].id = future[w].id
                               /\ future[w].res = Apply(states[i - 1], log[i].cmd).res
  BY DEF SignerInv, StoreInv, AnswersFromLog, Succeeded
<1>2. msg \in Requests /\ Acceptable(msg) /\ log[i].cmd = cmd
  BY <1>1 DEF SignerInv, WorkersOK, WorkerOK, Expecting, Succeeded, OwnEntry, Entries
<1>3. i \in 0..Len(log) /\ i - 1 \in 0..Len(log)
  BY HistoryTypes DEF SignerInv
<1>4. states[i - 1] \in FSM /\ MarksOK(states[i - 1]) /\ MarksOK(states[i])
  BY <1>3, HistoryTypes DEF SignerInv
<1>5. /\ WellFormed(cmd) /\ cmd.op = "reserve" /\ cmd.signBytes = b /\ b.chain \in Chains
  BY <1>2, RequestBytes DEF SignBytes
<1>6. Apply(states[i - 1], cmd) = applyReserve(states[i - 1], cmd)
  BY <1>5 DEF Apply
<1> DEFINE new == states[i].state[b.chain]
<1>7. states[i] = applyReserve(states[i - 1], cmd).fsm
  BY <1>2, <1>6 DEF SignerInv, StoreInv, HistoryOK
<1>8. future[w].res = applyReserve(states[i - 1], cmd).res /\ future[w].res.err = Nil
  BY <1>1, <1>2, <1>6 DEF Succeeded
<1> HIDE DEF cmd, b, msg
<1>9. /\ new # Nil
      /\ onlyDiffersByTimestamp(new.signBytes, b)
      /\ future[w].res.timestamp = new.signBytes.ts
      /\ \/ /\ future[w].res.reuse /\ future[w].res.signature # Nil
            /\ future[w].res.signature = new.signature
         \/ ~future[w].res.reuse /\ future[w].res.signBytes = new.signBytes
  <2> DEFINE out == applyReserve(states[i - 1], cmd)
  <2>1. out.res.err = Nil =>
          LET mark == out.fsm.state[cmd.signBytes.chain]
          IN  /\ mark # Nil
              /\ onlyDiffersByTimestamp(mark.signBytes, cmd.signBytes)
              /\ out.res.timestamp = mark.signBytes.ts
              /\ \/ out.res.reuse /\ out.res.signature # Nil
                    /\ out.res.signature = mark.signature
                 \/ ~out.res.reuse /\ out.res.signBytes = mark.signBytes
    BY <1>4, <1>5, ReserveEffect, Zenon
  <2> HIDE DEF out
  <2>2. states[i] = out.fsm /\ future[w].res = out.res /\ out.res.err = Nil
    BY <1>7, <1>8 DEF out
  <2>3. QED BY <1>5, <2>1, <2>2
<1>10. new \in CommittedMarks
  <2>1. i \in 0..Len(log) /\ b.chain \in Chains /\ new = states[i].state[b.chain] /\ new # Nil
    BY <1>3, <1>5, <1>9
  <2> HIDE DEF new
  <2>2. QED BY <2>1 DEF CommittedMarks
<1>11. new \in SignState /\ (new.signature # Nil => new.signature.over = new.signBytes)
  BY <1>4, <1>5, <1>9, Zenon DEF MarksOK, IsMark
<1> HIDE DEF new
<1>12. QED BY <1>9, <1>10, <1>11 DEF b, msg

\* An accepted Commit means that the signature is recorded.
LEMMA CommitAnswer ==
  ASSUME SignerInv, NEW w \in Callers, worker[w].pc = "commit", Succeeded(w)
  PROVE  worker[w].signature \in RecordedSignatures
<1> DEFINE cmd == CommitOf(worker[w])
<1>1. PICK i \in 1..Len(log) : /\ log[i].id = future[w].id
                               /\ future[w].res = Apply(states[i - 1], log[i].cmd).res
  BY DEF SignerInv, StoreInv, AnswersFromLog, Succeeded
<1>2. log[i].cmd = cmd
  BY <1>1 DEF SignerInv, WorkersOK, WorkerOK, Expecting, Succeeded, OwnEntry, Entries
<1>3. i \in 0..Len(log) /\ i - 1 \in 0..Len(log)
  BY HistoryTypes DEF SignerInv
<1>4. states[i - 1] \in FSM /\ MarksOK(states[i - 1])
  BY <1>3, HistoryTypes DEF SignerInv
<1>5. /\ WellFormed(cmd) /\ cmd.op = "commit" /\ cmd.signature = worker[w].signature
  BY CommitWellFormed DEF SignerInv
<1>6. Apply(states[i - 1], cmd) = applyCommit(states[i - 1], cmd)
  BY <1>5 DEF Apply
<1>7. states[i] = applyCommit(states[i - 1], cmd).fsm
  BY <1>2, <1>6 DEF SignerInv, StoreInv, HistoryOK
<1>8. applyCommit(states[i - 1], cmd).res.err = Nil
  BY <1>1, <1>2, <1>6 DEF Succeeded
<1> HIDE DEF cmd
<1>9. states[i].state[cmd.signBytes.chain] = MarkOf(cmd.signBytes, cmd.signature)
  BY <1>4, <1>5, <1>7, <1>8, CommitEffect
<1>10. /\ cmd.signBytes.chain \in Chains /\ cmd.signature \in Signature
       /\ MarkOf(cmd.signBytes, cmd.signature) \in SignState
  BY <1>5, CommitFields, MarkOfIsMark DEF IsMark, SignBytes
<1>11. MarkOf(cmd.signBytes, cmd.signature) \in CommittedMarks
  BY <1>3, <1>9, <1>10, NilIsNoValue DEF CommittedMarks
<1>12. MarkOf(cmd.signBytes, cmd.signature).signature = cmd.signature
  BY DEF MarkOf
<1>13. QED BY <1>5, <1>10, <1>11, <1>12, NilIsNoValue DEF RecordedSignatures
-----------------------------------------------------------------------------
\* The worker is done, or nothing it relies on has changed: its own record, and
\* the entries with the number it waits for, should it still wait.
Undisturbed(w) ==
  \/ worker'[w].pc = "idle"
  \/ /\ worker'[w] = worker[w]
     /\ \/ ~Expecting(w)'
        \/ /\ Expecting(w) /\ future'[w].id = future[w].id
           /\ \A e \in Entries' : e.id = future[w].id => e \in Entries

\* The worker part of the invariant survives as long as the history grows.
LEMMA WorkerKept ==
  ASSUME SignerInv, ReservedBytes \subseteq ReservedBytes', signed \subseteq signed',
         NEW w \in Callers, Undisturbed(w)
  PROVE  WorkerOK(w)'
<1>1. WorkerOK(w)
  BY DEF SignerInv, WorkersOK
<1>2. CASE worker'[w].pc = "idle"
  BY <1>2 DEF WorkerOK
<1>3. CASE worker'[w] = worker[w] /\ ~Expecting(w)'
  <2>1. HoldsSignature(worker[w]) => HoldsSignature(worker[w])'
    BY <1>3 DEF HoldsSignature
  <2>2. QED BY <1>1, <1>3, <2>1 DEF WorkerOK
<1>4. CASE /\ worker'[w] = worker[w] /\ Expecting(w) /\ future'[w].id = future[w].id
           /\ \A e \in Entries' : e.id = future[w].id => e \in Entries
  <2>1. HoldsSignature(worker[w]) => HoldsSignature(worker[w])'
    BY <1>4 DEF HoldsSignature
  <2>2. OwnEntry(w, ReserveOf(worker[w].msg)) => OwnEntry(w, ReserveOf(worker[w].msg))'
    BY <1>4 DEF OwnEntry
  <2>3. OwnEntry(w, CommitOf(worker[w])) => OwnEntry(w, CommitOf(worker[w]))'
    BY <1>4 DEF OwnEntry
  <2>4. QED BY <1>1, <1>4, <2>1, <2>2, <2>3 DEF WorkerOK
<1>5. QED BY <1>2, <1>3, <1>4 DEF Undisturbed

\* What may leave: a recorded signature over the message it goes out with.
MayLeave(r) == /\ r \in Response
               /\ r.signature \in RecordedSignatures
               /\ r.signature.over = SignBytesOf(r.msg)
               /\ r.extSigned = nonNilPrecommit(r.msg)

\* An idle worker is one of the right type.
LEMMA IdleType == Idle \in Worker /\ Idle.pc = "idle"
BY DEF Idle, Worker, PC

\* The request of a worker ends; at most one message that may leave does.
LEMMA EndInv ==
  ASSUME SignerInv, NEW w \in Callers, faults' \in Nat,
         UNCHANGED <<log, states, pending, nextID, applied, fsm, role, snap, signed>>,
         future' = future \/ future' = [future EXCEPT ![w] = NoFuture],
         worker' = [worker EXCEPT ![w] = Idle],
         \A r \in released' : r \in released \/ MayLeave(r)
  PROVE  SignerInv'
<1>1. StoreInv' /\ HistoryGrows
  BY CallerInv DEF SignerInv
<1>2. TypeOK'
  <2>1. worker' \in [Callers -> Worker]
    BY IdleType DEF SignerInv, TypeOK
  <2>2. released' \subseteq Response
    BY DEF SignerInv, TypeOK, MayLeave
  <2>3. QED BY <1>1, <2>1, <2>2 DEF SignerInv, TypeOK, StoreInv
<1>3. WorkersOK'
  <2>1. worker'[w].pc = "idle"
    BY IdleType DEF SignerInv, TypeOK
  <2>2. \A v \in Callers \ {w} : worker'[v] = worker[v] /\ future'[v] = future[v]
    BY DEF SignerInv, TypeOK, StoreInv, StoreTypeOK
  <2>3. Entries' = Entries
    BY DEF Entries
  <2>4. \A v \in Callers : Undisturbed(v)
    BY <2>1, <2>2, <2>3 DEF Expecting, Undisturbed
  <2>5. ReservedBytes \subseteq ReservedBytes'
    BY <1>1, HistoryKeeps DEF SignerInv
  <2>6. QED BY <2>4, <2>5, WorkerKept DEF WorkersOK
<1>4. /\ CommittedMarks' = CommittedMarks
      /\ ReservedBytes' = ReservedBytes
      /\ RecordedSignatures' = RecordedSignatures
  BY MarksStay
<1>5. SignedOK'
  BY <1>4, Zenon DEF SignerInv, SignedOK
<1>6. ReleasedOK'
  BY <1>4 DEF SignerInv, ReleasedOK, MayLeave
<1>7. QED BY <1>1, <1>2, <1>3, <1>5, <1>6 DEF SignerInv

\* Finish ends the request, with the message stamped or with an error.
LEMMA FinishInv ==
  ASSUME SignerInv, NEW w \in Callers, Collect(w), NEW b \in SignBytes,
         NEW sig \in RecordedSignatures, sig.over = b,
         worker[w].msg \in Requests, Acceptable(worker[w].msg),
         onlyDiffersByTimestamp(b, SignBytesOf(worker[w].msg)),
         Finish(w, b.ts, sig)
  PROVE  SignerInv'
<1> DEFINE m == worker[w].msg
           r == [msg |-> [m EXCEPT !.ts = b.ts], signature |-> sig,
                 extSigned |-> nonNilPrecommit(m)]
<1>1. sig \in Signature
  BY DEF SignerInv, SignedOK, TypeOK
<1>2. nonNilPrecommit(m) \in BOOLEAN
  BY DEF nonNilPrecommit
<1>3. MayLeave(r)
  BY <1>1, <1>2, TimestampOnly DEF MayLeave, Response
<1>4. /\ UNCHANGED <<log, states, pending, nextID, applied, fsm, role, snap>>
      /\ future' = [future EXCEPT ![w] = NoFuture]
  BY DEF Collect
<1>5. /\ released' \in {released, released \cup {r}}
      /\ worker' = [worker EXCEPT ![w] = Idle] /\ signed' = signed
      /\ faults' \in Nat
  <2>1. faults \in Nat
    BY DEF SignerInv, StoreInv, StoreTypeOK
  <2>2. QED BY <2>1 DEF Finish, Fail, Fault
<1> HIDE DEF r
<1>6. \A q \in released' : q \in released \/ MayLeave(q)
  BY <1>3, <1>5
<1>7. QED BY <1>4, <1>5, <1>6, EndInv, Zenon

\* Requests that end without a signature.
LEMMA RefusedInv ==
  ASSUME SignerInv, NEW w \in Callers,
         ReserveRefused(w) \/ CommitNotAccepted(w) \/ CommitRefused(w)
  PROVE  SignerInv'
<1>1. /\ UNCHANGED <<log, states, pending, nextID, applied, fsm, role, snap, signed>>
      /\ future' = future \/ future' = [future EXCEPT ![w] = NoFuture]
      /\ worker' = [worker EXCEPT ![w] = Idle] /\ released' = released
  BY DEF ReserveRefused, CommitNotAccepted, CommitRefused, Collect, Fail
<1>2. faults' \in Nat
  <2>1. faults \in Nat
    BY DEF SignerInv, StoreInv, StoreTypeOK
  <2>2. faults' = faults \/ faults' = faults + 1
    BY DEF ReserveRefused, CommitNotAccepted, CommitRefused, Fault
  <2>3. QED BY <2>1, <2>2
<1>3. \A r \in released' : r \in released \/ MayLeave(r)
  BY <1>1
<1>4. QED BY <1>1, <1>2, <1>3, EndInv, Zenon

\* A recorded signature is released again.
LEMMA ReserveReuseInv ==
  ASSUME SignerInv, NEW w \in Callers, ReserveReuse(w)
  PROVE  SignerInv'
<1>1. /\ worker[w].pc = "reserve" /\ Succeeded(w) /\ Collect(w)
      /\ future[w].res.reuse /\ future[w].res.signature # Nil
      /\ Finish(w, future[w].res.timestamp, future[w].res.signature)
  BY DEF ReserveReuse
<1>2. PICK m \in CommittedMarks :
        /\ m \in SignState
        /\ m.signature # Nil => m.signature.over = m.signBytes
        /\ onlyDiffersByTimestamp(m.signBytes, SignBytesOf(worker[w].msg))
        /\ future[w].res.timestamp = m.signBytes.ts
        /\ future[w].res.signature = m.signature
  BY <1>1, ReserveAnswer
<1>3. m.signature \in RecordedSignatures /\ m.signBytes \in SignBytes
  BY <1>1, <1>2, SignStateFields DEF RecordedSignatures
<1>4. worker[w].msg \in Requests /\ Acceptable(worker[w].msg)
  BY <1>1 DEF SignerInv, WorkersOK, WorkerOK
<1>5. QED BY <1>1, <1>2, <1>3, <1>4, FinishInv

\* A signature just recorded is released.
LEMMA ReleaseInv ==
  ASSUME SignerInv, NEW w \in Callers, Release(w)
  PROVE  SignerInv'
<1>1. /\ worker[w].pc = "commit" /\ Succeeded(w) /\ Collect(w)
      /\ Finish(w, worker[w].ts, worker[w].signature)
  BY DEF Release
<1>2. worker[w].signature \in RecordedSignatures
  BY <1>1, CommitAnswer
<1>3. /\ worker[w].msg \in Requests /\ Acceptable(worker[w].msg)
      /\ HoldsSignature(worker[w])
  BY <1>1 DEF SignerInv, WorkersOK, WorkerOK
<1>4. worker[w].signBytes \in SignBytes
  BY <1>3 DEF HoldsSignature, SignerInv, TypeOK, Signature
<1>5. QED BY <1>1, <1>2, <1>3, <1>4, FinishInv DEF HoldsSignature

\* A worker that hands a command to raft: the new entry is the only one with the
\* number it waits for, and no other worker waits for that number.
LEMMA CallEntries ==
  ASSUME SignerInv, NEW w \in Callers, NEW n \in Replicas, NEW cmd, apply(w, n, cmd)
  PROVE  /\ OwnEntry(w, cmd)'
         /\ \A v \in Callers \ {w} :
              /\ future'[v] = future[v]
              /\ \A e \in Entries' : e.id = future[v].id => e \in Entries
<1> DEFINE new == [id |-> nextID, cmd |-> cmd]
<1>1. /\ pending' = pending \cup {new} /\ log' = log
      /\ future' = [future EXCEPT ![w] = [st |-> "wait", node |-> n, id |-> nextID, res |-> Nil]]
  BY DEF apply
<1>2. Entries' = Entries \cup {new}
  BY <1>1 DEF Entries
<1>3. new.id = nextID /\ new.cmd = cmd
  OBVIOUS
<1> HIDE DEF new
<1>4. future'[w].id = nextID
  BY <1>1 DEF SignerInv, StoreInv, StoreTypeOK
<1>5. nextID \in Nat /\ \A e \in Entries : e.id \in Nat /\ e.id < nextID
  <2>1. Entries \subseteq Entry
    BY DEF Entries, SignerInv, StoreInv, StoreTypeOK
  <2>2. \A e \in Entries : e.id \in Nat
    BY <2>1 DEF Entry
  <2>3. QED BY <2>2 DEF Entries, SignerInv, StoreInv, StoreTypeOK, EntriesOK
<1>6. \A v \in Callers : future[v].id \in Nat /\ future[v].id < nextID
  <2>1. \A v \in Callers : future[v] \in Future
    BY DEF SignerInv, StoreInv, StoreTypeOK
  <2>2. \A v \in Callers : future[v].id \in Nat
    BY <2>1 DEF Future
  <2>3. QED BY <2>2 DEF SignerInv, StoreInv, EntriesOK
<1>7. OwnEntry(w, cmd)'
  <2>1. \A e \in Entries' : e.id = future'[w].id => e.cmd = cmd
    BY <1>2, <1>3, <1>4, <1>5
  <2>2. QED BY <2>1 DEF OwnEntry
<1>8. \A v \in Callers \ {w} : future'[v] = future[v]
  BY <1>1 DEF SignerInv, StoreInv, StoreTypeOK
<1>9. \A v \in Callers : \A e \in Entries' : e.id = future[v].id => e \in Entries
  BY <1>2, <1>3, <1>5, <1>6
<1>10. QED BY <1>7, <1>8, <1>9

\* A request is taken in and its reservation handed to raft.
LEMMA ReserveInv ==
  ASSUME SignerInv, NEW w \in Callers, NEW n \in Replicas, NEW m \in Requests,
         Reserve(w, n, m)
  PROVE  SignerInv'
<1> DEFINE wk == [Idle EXCEPT !.pc = "reserve", !.node = n, !.msg = m]
<1>1. /\ Acceptable(m) /\ apply(w, n, ReserveOf(m))
      /\ worker' = [worker EXCEPT ![w] = wk] /\ UNCHANGED <<signed, released>>
  BY DEF Reserve
<1>2. /\ WellFormed(ReserveOf(m)) /\ ReserveOf(m).op = "reserve"
  BY <1>1, RequestBytes
<1>3. StoreInv' /\ HistoryGrows
  BY <1>1, <1>2, ApplyCallInv DEF SignerInv
<1>4. wk \in Worker /\ wk.pc = "reserve" /\ wk.node = n /\ wk.msg = m
  BY Zenon DEF Idle, Worker, PC
<1> HIDE DEF wk
<1>5. worker'[w] = wk /\ \A v \in Callers \ {w} : worker'[v] = worker[v]
  BY <1>1 DEF SignerInv, TypeOK
<1>6. TypeOK'
  BY <1>1, <1>3, <1>4 DEF SignerInv, TypeOK, StoreInv
<1>7. /\ log' = log /\ states' = states
      /\ pending' = pending \cup {[id |-> nextID, cmd |-> ReserveOf(m)]}
  BY <1>1 DEF apply
<1>8. /\ ReservedBytes' = ReservedBytes /\ RecordedSignatures' = RecordedSignatures
  BY <1>7, MarksStay
<1>9. WorkersOK'
  <2>1. SUFFICES ASSUME NEW v \in Callers
                 PROVE  WorkerOK(v)'
    BY DEF WorkersOK
  <2>2. CASE v = w
    <3>1. OwnEntry(w, ReserveOf(m))'
      BY <1>1, CallEntries, Zenon
    <3>2. OwnEntry(w, ReserveOf(worker[w].msg))'
      BY <1>4, <1>5, <3>1 DEF OwnEntry
    <3>3. QED BY <1>1, <1>4, <1>5, <2>2, <3>2 DEF WorkerOK
  <2>3. CASE v # w
    <3>1. /\ worker'[v] = worker[v] /\ future'[v] = future[v]
          /\ \A e \in Entries' : e.id = future[v].id => e \in Entries
      BY <1>1, <1>5, <2>3, CallEntries
    <3>2. Undisturbed(v)
      BY <3>1 DEF Undisturbed, Expecting
    <3>3. QED BY <1>1, <1>8, <3>2, WorkerKept
  <2>4. QED BY <2>2, <2>3
<1>10. SignedOK'
  <2>1. \A e \in pending' : e \in pending \/ e.cmd = ReserveOf(m)
    BY <1>7
  <2>2. QED BY <1>1, <1>2, <1>7, <1>8, <2>1 DEF SignerInv, SignedOK
<1>11. ReleasedOK'
  BY <1>1, <1>8 DEF SignerInv, ReleasedOK
<1>12. QED BY <1>3, <1>6, <1>9, <1>10, <1>11 DEF SignerInv

\* The signature of a worker is handed to raft.
LEMMA CommitInv ==
  ASSUME SignerInv, NEW w \in Callers, Commit(w)
  PROVE  SignerInv'
<1> DEFINE old == worker[w]
           wk == [old EXCEPT !.pc = "commit"]
<1>0. PICK cmd : cmd = CommitOf(old)
  OBVIOUS
<1>1. /\ old.pc = "signed" /\ apply(w, old.node, cmd)
      /\ worker' = [worker EXCEPT ![w] = wk] /\ UNCHANGED <<signed, released>>
  BY <1>0 DEF Commit, SignerInv, TypeOK
<1>2. /\ old.msg \in Requests /\ Acceptable(old.msg) /\ old.node \in Replicas
      /\ HoldsSignature(old)
  BY <1>1 DEF SignerInv, WorkersOK, WorkerOK
<1>3. WellFormed(cmd) /\ cmd.op = "commit" /\ cmd.signature = old.signature
  BY <1>0, <1>1, CommitWellFormed DEF SignerInv
<1>4. StoreInv' /\ HistoryGrows
  BY <1>1, <1>2, <1>3, ApplyCallInv DEF SignerInv
<1>5. /\ wk \in Worker /\ wk.pc = "commit" /\ wk.node = old.node /\ wk.msg = old.msg
      /\ wk.signBytes = old.signBytes /\ wk.signature = old.signature /\ wk.ts = old.ts
  BY DEF SignerInv, TypeOK, Worker, PC
<1>6. CommitOf(wk) = cmd
  BY <1>0, <1>5 DEF CommitOf
<1>7. OwnEntry(w, cmd)'
  BY <1>1, <1>2, CallEntries
<1>8. /\ log' = log /\ states' = states
      /\ pending' = pending \cup {[id |-> nextID, cmd |-> cmd]}
  BY <1>1 DEF apply
<1> HIDE DEF wk
<1>9. worker'[w] = wk /\ \A v \in Callers \ {w} : worker'[v] = worker[v]
  BY <1>1 DEF SignerInv, TypeOK
<1>10. TypeOK'
  BY <1>1, <1>4, <1>5 DEF SignerInv, TypeOK, StoreInv
<1>11. /\ ReservedBytes' = ReservedBytes /\ RecordedSignatures' = RecordedSignatures
  BY <1>8, MarksStay
<1>12. WorkersOK'
  <2>1. SUFFICES ASSUME NEW v \in Callers
                 PROVE  WorkerOK(v)'
    BY DEF WorkersOK
  <2>2. CASE v = w
    <3>1. OwnEntry(w, CommitOf(worker[w]))'
      BY <1>6, <1>7, <1>9 DEF OwnEntry
    <3>2. HoldsSignature(worker[w])'
      <4>1. HoldsSignature(wk)
        BY <1>2, <1>5 DEF HoldsSignature
      <4>2. signed' = signed
        BY <1>1
      <4>3. QED BY <1>9, <1>11, <4>1, <4>2 DEF HoldsSignature
    <3>3. QED BY <1>2, <1>5, <1>9, <2>2, <3>1, <3>2 DEF WorkerOK
  <2>3. CASE v # w
    <3>1. /\ worker'[v] = worker[v] /\ future'[v] = future[v]
          /\ \A e \in Entries' : e.id = future[v].id => e \in Entries
      BY <1>1, <1>2, <1>9, <2>3, CallEntries
    <3>2. Undisturbed(v)
      BY <3>1 DEF Undisturbed, Expecting
    <3>3. QED BY <1>1, <1>11, <3>2, WorkerKept
  <2>4. QED BY <2>2, <2>3
<1>13. SignedOK'
  <2>1. \A e \in pending' : e \in pending \/ e.cmd = cmd
    BY <1>8
  <2>2. cmd.signature \in signed
    BY <1>2, <1>3 DEF HoldsSignature
  <2>3. QED BY <1>1, <1>8, <1>11, <2>1, <2>2 DEF SignerInv, SignedOK
<1>14. ReleasedOK'
  BY <1>1, <1>11 DEF SignerInv, ReleasedOK
<1>15. QED BY <1>4, <1>10, <1>12, <1>13, <1>14 DEF SignerInv

\* The backend signs what the cluster reserved, or fails.
LEMMA SignInv ==
  ASSUME SignerInv, NEW w \in Callers, Sign(w)
  PROVE  SignerInv'
<1> DEFINE old == worker[w]
           res == future[w].res
<1>1. /\ old.pc = "reserve" /\ Succeeded(w) /\ Collect(w)
      /\ ~(res.reuse /\ res.signature # Nil)
  BY DEF Sign
<1>2. /\ UNCHANGED <<log, states, pending, nextID, applied, fsm, role, snap>>
      /\ future' = [future EXCEPT ![w] = NoFuture]
  BY <1>1 DEF Collect
<1>3. faults \in Nat
  BY DEF SignerInv, StoreInv, StoreTypeOK
<1>4. CASE Fail(w) /\ Fault
  <2>1. /\ worker' = [worker EXCEPT ![w] = Idle] /\ signed' = signed /\ released' = released
        /\ faults' \in Nat
    BY <1>3, <1>4 DEF Fail, Fault
  <2>2. QED BY <1>2, <2>1, EndInv, Zenon
<1>5. ASSUME NEW salt \in Salts,
             signed' = signed \cup {[over |-> res.signBytes, salt |-> salt]},
             worker' = [worker EXCEPT ![w].pc = "signed", ![w].ts = res.timestamp,
                                      ![w].signBytes = res.signBytes,
                                      ![w].signature = [over |-> res.signBytes, salt |-> salt]],
             UNCHANGED <<released, faults>>
      PROVE  SignerInv'
  <2>1. PICK m \in CommittedMarks :
          /\ m \in SignState
          /\ onlyDiffersByTimestamp(m.signBytes, SignBytesOf(old.msg))
          /\ res.timestamp = m.signBytes.ts
          /\ res.signBytes = m.signBytes
    BY <1>1, ReserveAnswer
  <2> DEFINE b == m.signBytes
             sig == [over |-> b, salt |-> salt]
             wk == [old EXCEPT !.pc = "signed", !.ts = b.ts, !.signBytes = b,
                               !.signature = sig]
  <2>2. b \in SignBytes /\ b \in ReservedBytes /\ b.ts \in Times
    BY <2>1, SignStateFields DEF ReservedBytes, SignBytes
  <2>3. sig \in Signature /\ sig.over = b
    BY <2>2 DEF Signature
  <2>4. signed' = signed \cup {sig}
    BY <1>5, <2>1
  <2>5. /\ wk \in Worker /\ wk.pc = "signed" /\ wk.ts = b.ts /\ wk.signBytes = b
        /\ wk.signature = sig /\ wk.msg = old.msg /\ wk.node = old.node
    <3>1. old \in Worker
      BY DEF SignerInv, TypeOK
    <3> HIDE DEF sig, b
    <3>2. QED BY <2>2, <2>3, <3>1, Zenon DEF Worker, PC
  <2>6. worker' = [worker EXCEPT ![w] = wk]
    <3>1. worker \in [Callers -> Worker] /\ worker[w] \in Worker
      BY DEF SignerInv, TypeOK
    <3>2. /\ worker' = [worker EXCEPT ![w].pc = "signed", ![w].ts = b.ts,
                                      ![w].signBytes = b, ![w].signature = sig]
      BY <1>5, <2>1
    <3> HIDE DEF b, sig
    <3>3. QED BY <3>1, <3>2, Zenon DEF Worker
  <2> HIDE DEF wk, sig
  <2>7. worker'[w] = wk /\ \A v \in Callers \ {w} : worker'[v] = worker[v]
    BY <2>6 DEF SignerInv, TypeOK
  <2>8. StoreInv' /\ HistoryGrows
    BY <1>2, <1>3, <1>5, CallerInv, Zenon DEF SignerInv
  <2>9. TypeOK'
    <3>1. worker' \in [Callers -> Worker]
      BY <2>5, <2>6 DEF SignerInv, TypeOK
    <3>2. signed' \subseteq Signature /\ released' \subseteq Response
      <4>1. released' = released
        BY <1>5
      <4>2. QED BY <2>3, <2>4, <4>1 DEF SignerInv, TypeOK
    <3>3. QED BY <2>8, <3>1, <3>2 DEF TypeOK, StoreInv
  <2>10. /\ ReservedBytes' = ReservedBytes /\ RecordedSignatures' = RecordedSignatures
    BY <1>2, MarksStay
  <2>11. WorkersOK'
    <3>1. old.msg \in Requests /\ Acceptable(old.msg) /\ old.node \in Replicas
      BY <1>1 DEF SignerInv, WorkersOK, WorkerOK
    <3>2. HoldsSignature(worker[w])'
      BY <2>1, <2>2, <2>3, <2>4, <2>5, <2>7, <2>10 DEF HoldsSignature
    <3>3. Entries' = Entries
      BY <1>2 DEF Entries
    <3>4. \A v \in Callers \ {w} : future'[v] = future[v]
      BY <1>2, Zenon DEF SignerInv, StoreInv, StoreTypeOK
    <3>5. WorkerOK(w)'
      BY <2>5, <2>7, <3>1, <3>2 DEF WorkerOK
    <3>6. ASSUME NEW v \in Callers \ {w}
          PROVE  WorkerOK(v)'
      <4>1. Undisturbed(v)
        BY <2>7, <3>3, <3>4 DEF Undisturbed, Expecting
      <4>2. QED BY <2>4, <2>10, <4>1, WorkerKept
    <3>7. QED BY <3>5, <3>6 DEF WorkersOK
  <2>12. SignedOK'
    BY <1>2, <2>2, <2>3, <2>4, <2>10 DEF SignerInv, SignedOK
  <2>13. ReleasedOK'
    BY <1>5, <2>10 DEF SignerInv, ReleasedOK
  <2>14. QED BY <2>8, <2>9, <2>11, <2>12, <2>13 DEF SignerInv
<1>6. QED BY <1>4, <1>5 DEF Sign

\* A step of raft never brings an entry about, takes no answer back, and records
\* only signatures that commands in the log carry.
LEMMA RaftInv ==
  ASSUME SignerInv, RaftStep, UNCHANGED <<worker, signed, released>>
  PROVE  SignerInv'
<1>1. StoreInv' /\ HistoryGrows
  BY RaftStepInv DEF SignerInv
<1>2. TypeOK'
  BY <1>1 DEF SignerInv, TypeOK, StoreInv
<1>3. /\ Entries' \subseteq Entries
      /\ nextID' = nextID
  <2>1. CASE UNCHANGED <<log, pending, nextID>>
    BY <2>1 DEF Entries
  <2>2. ASSUME NEW e \in pending, AppendCommitted(e)
        PROVE  Entries' \subseteq Entries /\ nextID' = nextID
    <3>1. log \in Seq(Entry) /\ e \in Entry
      BY DEF SignerInv, StoreInv, StoreTypeOK
    <3>2. log' = Append(log, e) /\ pending' = pending \ {e} /\ nextID' = nextID
      BY <2>2 DEF AppendCommitted
    <3>3. \A i \in 1..Len(log') : log'[i] = e \/ (i \in 1..Len(log) /\ log'[i] = log[i])
      BY <3>1, <3>2
    <3>4. QED BY <3>2, <3>3 DEF Entries
  <2>3. QED BY <2>1, <2>2, Zenon DEF RaftStep, CommitEntry, ApplyEntry, BecomeLeader, StepDown,
                              TakeSnapshot, InstallSnapshot
<1>4. ASSUME NEW w \in Callers
      PROVE  /\ future'[w].id = future[w].id
             /\ Expecting(w)' => Expecting(w)
  <2>0. future[w] \in Future
    BY DEF SignerInv, StoreInv, StoreTypeOK
  <2>1. CASE future' = future
    BY <2>1 DEF Expecting
  <2>2. ASSUME NEW n \in Replicas, ApplyEntry(n)
        PROVE  future'[w].id = future[w].id /\ (Expecting(w)' => Expecting(w))
    <3>1. PICK r : future'[w] = IF w \in WaitingAt(n) /\ future[w].id = log[applied[n] + 1].id
                                THEN [future[w] EXCEPT !.st = "ok", !.res = r]
                                ELSE future[w]
      BY <2>2, Zenon DEF ApplyEntry
    <3>2. CASE future'[w] = future[w]
      BY <3>2 DEF Expecting
    <3>3. CASE /\ w \in WaitingAt(n)
               /\ future'[w] = [future[w] EXCEPT !.st = "ok", !.res = r]
      BY <2>0, <3>3 DEF Expecting, WaitingAt, Future
    <3>4. QED BY <3>1, <3>2, <3>3
  <2>3. ASSUME NEW n \in Replicas, StepDown(n)
        PROVE  future'[w].id = future[w].id /\ (Expecting(w)' => Expecting(w))
    <3>1. \/ future'[w] = future[w]
          \/ future'[w] = [future[w] EXCEPT !.st = "err"]
      BY <2>3 DEF StepDown
    <3>2. QED BY <2>0, <3>1 DEF Expecting, Future
  <2>4. QED BY <2>1, <2>2, <2>3 DEF RaftStep, CommitEntry, AppendCommitted, BecomeLeader,
                                    TakeSnapshot, InstallSnapshot
<1>5. WorkersOK'
  <2>1. \A w \in Callers : Undisturbed(w)
    BY <1>3, <1>4 DEF Undisturbed
  <2>2. ReservedBytes \subseteq ReservedBytes'
    BY <1>1, HistoryKeeps DEF SignerInv
  <2>3. QED BY <2>1, <2>2, WorkerKept DEF WorkersOK
<1>6. /\ ReservedBytes \subseteq ReservedBytes'
      /\ RecordedSignatures \subseteq RecordedSignatures'
  BY <1>1, HistoryKeeps DEF SignerInv
<1>7. \A e \in Entries : e.cmd.op = "commit" => e.cmd.signature \in signed
  BY DEF Entries, SignerInv, SignedOK
<1>8. RecordedSignatures' \subseteq signed
  <2>1. CASE log' = log /\ states' = states
    BY <2>1 DEF SignerInv, SignedOK, RecordedSignatures, CommittedMarks
  <2>2. ASSUME NEW e \in pending, AppendCommitted(e)
        PROVE  RecordedSignatures' \subseteq signed
    <3> DEFINE N == Len(log)
    <3>1. /\ N \in Nat /\ log \in Seq(Entry)
          /\ Committed \in FSM /\ MarksOK(Committed) /\ WellFormed(e.cmd)
          /\ Committed = states[N]
      BY HistoryTypes, Zenon DEF SignerInv, StoreInv, StoreTypeOK, EntriesOK, Committed
    <3>2. /\ Len(log') = N + 1
          /\ \A i \in 0..N : states'[i] = states[i]
          /\ states'[N + 1] = Apply(Committed, e.cmd).fsm
      <4>1. /\ log' = Append(log, e)
            /\ states' = [i \in 0..N + 1 |->
                            IF i <= N THEN states[i] ELSE Apply(Committed, e.cmd).fsm]
        BY <2>2 DEF AppendCommitted
      <4>2. Len(log') = N + 1
        BY <3>1, <4>1
      <4>3. \A i \in 0..N : states'[i] = states[i]
        BY <3>1, <4>1
      <4>4. states'[N + 1] = Apply(Committed, e.cmd).fsm
        BY <3>1, <4>1
      <4>5. QED BY <4>2, <4>3, <4>4
    <3>3. \A c \in Chains : MarkStep(e.cmd, c, states[N].state[c], states'[N + 1].state[c])
      BY <3>1, <3>2, ApplyEffect
    <3> HIDE DEF N
    <3>4. SUFFICES ASSUME NEW i \in 0..N + 1, NEW c \in Chains, states'[i].state[c] # Nil,
                          states'[i].state[c].signature # Nil
                   PROVE  states'[i].state[c].signature \in signed
      BY <3>2 DEF RecordedSignatures, CommittedMarks
    <3>5. \A j \in 0..N : states[j].state[c] # Nil /\ states[j].state[c].signature # Nil =>
                            states[j].state[c].signature \in signed
      BY DEF N, SignerInv, SignedOK, RecordedSignatures, CommittedMarks
    <3>6. CASE i \in 0..N
      BY <3>2, <3>4, <3>5, <3>6
    <3>7. CASE i = N + 1
      <4>1. \/ states'[i].state[c] = states[N].state[c]
            \/ \E b : states'[i].state[c] = MarkOf(b, Nil)
            \/ \E b : states'[i].state[c] = MarkOf(b, e.cmd.signature) /\ e.cmd.op = "commit"
        BY <3>3, <3>7 DEF MarkStep
      <4>2. N \in 0..N
        BY <3>1
      <4>3. \A b, x : MarkOf(b, x).signature = x
        BY DEF MarkOf
      <4>4. e.cmd.op = "commit" => e.cmd.signature \in signed
        BY <1>7 DEF Entries
      <4>5. CASE states'[i].state[c] = states[N].state[c]
        BY <3>4, <3>5, <4>2, <4>5
      <4>6. CASE \E b : states'[i].state[c] = MarkOf(b, Nil)
        BY <3>4, <4>3, <4>6
      <4>7. CASE \E b : states'[i].state[c] = MarkOf(b, e.cmd.signature) /\ e.cmd.op = "commit"
        BY <4>3, <4>4, <4>7
      <4>8. QED BY <4>1, <4>5, <4>6, <4>7, Zenon
    <3>8. QED BY <3>1, <3>6, <3>7
  <2>3. QED BY <2>1, <2>2, Zenon DEF RaftStep, CommitEntry, ApplyEntry, BecomeLeader, StepDown,
                              TakeSnapshot, InstallSnapshot
<1>9. SignedOK'
  <2>1. \A e \in Entries' : e.cmd.op = "commit" => e.cmd.signature \in signed
    BY <1>3, <1>7
  <2>2. QED BY <1>6, <1>8, <2>1 DEF SignerInv, SignedOK, Entries
<1>10. ReleasedOK'
  BY <1>6 DEF SignerInv, ReleasedOK
<1>11. QED BY <1>1, <1>2, <1>5, <1>9, <1>10 DEF SignerInv

\* A crash ends the requests of its replica and leaves those of the others.
LEMMA CrashInv ==
  ASSUME SignerInv, NEW n \in Replicas, Crash(n)
  PROVE  SignerInv'
<1>1. /\ Restart(n) /\ UNCHANGED <<signed, released>>
      /\ worker' = [w \in Callers |-> IF worker[w].node = n THEN Idle ELSE worker[w]]
  BY DEF Crash
<1>2. StoreInv' /\ HistoryGrows
  BY <1>1, RestartInv DEF SignerInv
<1>3. /\ UNCHANGED <<log, states, pending>>
      /\ future' = [c \in Callers |-> IF future[c].node = n THEN NoFuture ELSE future[c]]
  BY <1>1 DEF Restart
<1>4. TypeOK'
  BY <1>1, <1>2, IdleType DEF SignerInv, TypeOK, StoreInv
<1>5. Entries' = Entries
  BY <1>3 DEF Entries
<1>6. NoFuture.st = "none"
  BY DEF NoFuture
<1>7. \A w \in Callers : Undisturbed(w)
  BY <1>1, <1>3, <1>5, <1>6, IdleType DEF Expecting, Undisturbed
<1>8. WorkersOK'
  <2>1. ReservedBytes \subseteq ReservedBytes'
    BY <1>2, HistoryKeeps DEF SignerInv
  <2>2. QED BY <1>1, <1>7, <2>1, WorkerKept DEF WorkersOK
<1>9. /\ ReservedBytes' = ReservedBytes /\ RecordedSignatures' = RecordedSignatures
  BY <1>3, MarksStay
<1>10. SignedOK' /\ ReleasedOK'
  BY <1>1, <1>3, <1>9, Zenon DEF SignerInv, SignedOK, ReleasedOK
<1>11. QED BY <1>2, <1>4, <1>8, <1>10 DEF SignerInv

\* The signatures of the marks a cluster starts with count as signed.
LEMMA InitInv ==
  ASSUME Init
  PROVE  SignerInv
<1>1. StoreInv
  BY StoreInitInv DEF Init
<1>2. /\ log = <<>> /\ Len(log) = 0 /\ pending = {} /\ released = {}
      /\ worker = [w \in Callers |-> Idle]
      /\ signed = {m.signature : m \in {Committed.state[c] : c \in Marked(Committed)}} \ {Nil}
  BY DEF Init, StoreInit
<1>3. 0..Len(log) = {0} /\ 1..Len(log) = {} /\ Committed = states[0]
  BY <1>2 DEF Committed
<1>4. CommittedMarks = {Committed.state[c] : c \in Marked(Committed)}
  BY <1>3 DEF CommittedMarks, Marked
<1>5. signed = RecordedSignatures
  BY <1>2, <1>4 DEF RecordedSignatures
<1>6. \A s \in signed : s \in Signature /\ s.over \in ReservedBytes
  <2>1. SUFFICES ASSUME NEW m \in CommittedMarks, m.signature # Nil
                 PROVE  m.signature \in Signature /\ m.signature.over \in ReservedBytes
    BY <1>5 DEF RecordedSignatures
  <2>2. PICK c \in Chains : IsMark(c, m)
    BY <1>1, CommittedMarkTypes
  <2>3. QED BY <2>1, <2>2, SignStateFields DEF IsMark, ReservedBytes
<1>7. TypeOK
  BY <1>1, <1>2, <1>6, IdleType DEF TypeOK, StoreInv
<1>8. WorkersOK
  BY <1>2, IdleType DEF WorkersOK, WorkerOK
<1>9. SignedOK /\ ReleasedOK
  BY <1>2, <1>3, <1>5, <1>6 DEF SignedOK, ReleasedOK
<1>10. QED BY <1>1, <1>7, <1>8, <1>9 DEF SignerInv

\* The inductive invariant holds in every reachable state: the store follows its
\* log, every worker past its reservation holds reserved bytes, and nothing is
\* released that is not recorded (GatedPrivValidator over raftStore).
THEOREM SignerInvariant == Spec => []SignerInv
<1>1. Init => SignerInv
  BY InitInv
<1>2. SignerInv /\ [Next]_vars => SignerInv'
  <2>1. SUFFICES ASSUME SignerInv, [Next]_vars
                 PROVE  SignerInv'
    OBVIOUS
  <2>2. ASSUME NEW w \in Callers, NEW n \in Replicas, NEW m \in Requests, Reserve(w, n, m)
        PROVE  SignerInv'
    BY <2>1, <2>2, ReserveInv
  <2>3. ASSUME NEW w \in Callers, WorkerStep(w)
        PROVE  SignerInv'
    BY <2>1, <2>3, RefusedInv, ReserveReuseInv, SignInv, CommitInv, ReleaseInv DEF WorkerStep
  <2>4. CASE RaftStep /\ UNCHANGED <<worker, signed, released>>
    BY <2>1, <2>4, RaftInv
  <2>5. ASSUME NEW n \in Replicas, Crash(n)
        PROVE  SignerInv'
    BY <2>1, <2>5, CrashInv
  <2>6. CASE UNCHANGED vars
    <3>1. UNCHANGED storeVars /\ UNCHANGED <<worker, signed, released>>
      BY <2>6 DEF vars
    <3>2. StoreInv'
      BY <2>1, <3>1, StoreStutters DEF SignerInv
    <3>3. TypeOK'
      BY <2>1, <3>1, <3>2 DEF SignerInv, StoreInv, TypeOK
    <3>4. ReservedBytes' = ReservedBytes /\ RecordedSignatures' = RecordedSignatures
      BY <3>1 DEF storeVars, ReservedBytes, RecordedSignatures, CommittedMarks
    <3>5. SignedOK' /\ ReleasedOK'
      BY <2>1, <3>1, <3>4 DEF storeVars, SignerInv, SignedOK, ReleasedOK
    <3>6. WorkersOK'
      <4>1. Entries' = Entries
        BY <3>1 DEF storeVars, Entries
      <4>2. \A w \in Callers : Undisturbed(w)
        BY <3>1, <4>1 DEF storeVars, Undisturbed, Expecting
      <4>3. QED BY <2>1, <3>1, <3>4, <4>2, WorkerKept DEF WorkersOK
    <3>7. QED BY <3>2, <3>3, <3>5, <3>6 DEF SignerInv
  <2>7. QED BY <2>1, <2>2, <2>3, <2>4, <2>5, <2>6 DEF Next
<1>3. QED BY <1>1, <1>2, PTL DEF Spec
-----------------------------------------------------------------------------
\* Every variable keeps its type.
THEOREM TypeCorrect == Spec => []TypeOK
<1>1. SignerInv => TypeOK
  BY DEF SignerInv
<1>2. QED BY <1>1, SignerInvariant, PTL

\* The key never signs two different byte strings for one chain, height, round
\* and step (gatedSign, applyReserve): two signed byte strings at the same
\* coordinates were both reserved, and the history holds one mark for them.
THEOREM NeverDoubleSigns == Spec => []NoDoubleSign
<1>1. ASSUME SignerInv PROVE NoDoubleSign
  <2>1. SUFFICES ASSUME NEW a \in signed, NEW b \in signed, SameHRS(a.over, b.over)
                 PROVE  a.over = b.over
    BY DEF NoDoubleSign
  <2>2. PICK p \in CommittedMarks : a.over = p.signBytes
    BY <1>1 DEF SignerInv, SignedOK, ReservedBytes
  <2>3. PICK q \in CommittedMarks : b.over = q.signBytes
    BY <1>1 DEF SignerInv, SignedOK, ReservedBytes
  <2>4. QED BY <1>1, <2>1, <2>2, <2>3, OneMarkPerHRS DEF SignerInv
<1>2. QED BY <1>1, SignerInvariant, PTL

\* The committed mark covers everything signed (applyReserve before Sign).
THEOREM MarkAlwaysCovers == Spec => []MarkCoversSigned
<1>1. ASSUME SignerInv PROVE MarkCoversSigned
  <2>1. SUFFICES ASSUME NEW s \in signed
                 PROVE  MarkFollows(MarkOf(s.over, Nil), Committed.state[s.over.chain])
    BY Zenon DEF MarkCoversSigned
  <2>2. PICK p \in CommittedMarks : s.over = p.signBytes
    BY <1>1 DEF SignerInv, SignedOK, ReservedBytes
  <2>3. PICK i \in 0..Len(log), c \in Chains : p = states[i].state[c] /\ IsMark(c, p)
    BY <1>1, CommittedMarkTypes DEF SignerInv
  <2>4. MarkFollows(p, Committed.state[c])
    <3>1. Len(log) \in Nat
      BY <1>1, HistoryTypes DEF SignerInv
    <3>2. Len(log) \in 0..Len(log) /\ i <= Len(log)
      BY <3>1
    <3>3. QED BY <1>1, <2>3, <3>2 DEF SignerInv, StoreInv, MarksOnlyAdvance, Committed
  <2>5. /\ c = s.over.chain /\ p \in SignState /\ p # Nil
        /\ p = MarkOf(s.over, p.signature)
    BY <2>2, <2>3, NilIsNoValue DEF IsMark
  <2> DEFINE q == MarkOf(s.over, Nil)
             cur == Committed.state[c]
  <2>6. /\ q.height = p.height /\ q.round = p.round /\ q.step = p.step
        /\ q.signBytes = p.signBytes /\ q.signature = Nil
    <3>1. /\ p.height = s.over.height /\ p.round = s.over.round /\ p.step = s.over.step
      BY <2>2, <2>3, IsMarkFields
    <3>2. /\ q.height = s.over.height /\ q.round = s.over.round /\ q.step = s.over.step
          /\ q.signBytes = s.over /\ q.signature = Nil
      BY DEF MarkOf
    <3>3. QED BY <2>2, <3>1, <3>2, Zenon
  <2>7. q # Nil
    <3>1. q \in SignState
      BY <2>2, <2>5, SignStateFields, MarkOfIsMark DEF IsMark
    <3>2. QED BY <3>1, NilIsNoValue
  <2>8. Below(q, cur) <=> Below(p, cur)
    BY <2>6 DEF Below
  <2>9. MarkFollows(q, cur)
    BY <2>4, <2>5, <2>6, <2>7, <2>8, Zenon DEF MarkFollows
  <2>10. QED BY <2>5, <2>9
<1>2. QED BY <1>1, SignerInvariant, PTL

\* A released signature is recorded, and the committed mark still holds it or
\* lies above (Commit before set in gatedSign).
THEOREM ReleasesAreRecorded == Spec => []ReleasedIsRecorded
<1>1. ASSUME SignerInv PROVE ReleasedIsRecorded
  <2>1. SUFFICES ASSUME NEW r \in released
                 PROVE  MarkFollows(MarkOf(r.signature.over, r.signature),
                                    Committed.state[r.msg.chain])
    BY Zenon DEF ReleasedIsRecorded
  <2>2. PICK p \in CommittedMarks : r.signature = p.signature /\ p.signature # Nil
    BY <1>1 DEF SignerInv, ReleasedOK, RecordedSignatures
  <2>3. PICK i \in 0..Len(log), c \in Chains : p = states[i].state[c] /\ IsMark(c, p)
    BY <1>1, CommittedMarkTypes DEF SignerInv
  <2>4. MarkFollows(p, Committed.state[c])
    <3>1. Len(log) \in Nat
      BY <1>1, HistoryTypes DEF SignerInv
    <3>2. Len(log) \in 0..Len(log) /\ i <= Len(log)
      BY <3>1
    <3>3. QED BY <1>1, <2>3, <3>2 DEF SignerInv, StoreInv, MarksOnlyAdvance, Committed
  <2>5. p = MarkOf(r.signature.over, r.signature) /\ c = r.signature.over.chain
    BY <2>2, <2>3 DEF IsMark
  <2>6. r.signature.over.chain = r.msg.chain
    <3>1. r.signature.over = SignBytesOf(r.msg)
      BY <1>1 DEF SignerInv, ReleasedOK
    <3>2. SignBytesOf(r.msg).chain = r.msg.chain
      BY DEF SignBytesOf
    <3>3. QED BY <3>1, <3>2
  <2>7. QED BY <2>4, <2>5, <2>6, Zenon
<1>2. QED BY <1>1, SignerInvariant, PTL

\* No two different signatures leave for one chain, height, round and step, with
\* a deterministic backend or not (applyCommit, applyReserve).
THEOREM OneSignatureReleased == Spec => []OneSignaturePerHRS
<1>1. ASSUME SignerInv PROVE OneSignaturePerHRS
  <2>1. SUFFICES ASSUME NEW r \in released, NEW q \in released,
                        SameHRS(r.signature.over, q.signature.over)
                 PROVE  r.signature = q.signature
    BY DEF OneSignaturePerHRS
  <2>2. PICK a \in CommittedMarks : r.signature = a.signature /\ a.signature # Nil
    BY <1>1 DEF SignerInv, ReleasedOK, RecordedSignatures
  <2>3. PICK b \in CommittedMarks : q.signature = b.signature /\ b.signature # Nil
    BY <1>1 DEF SignerInv, ReleasedOK, RecordedSignatures
  <2>4. a.signature.over = a.signBytes /\ b.signature.over = b.signBytes
    <3>1. StoreInv
      BY <1>1 DEF SignerInv
    <3>2. (\E c \in Chains : IsMark(c, a)) /\ (\E c \in Chains : IsMark(c, b))
      BY <3>1, CommittedMarkTypes
    <3>3. QED BY <2>2, <2>3, <3>2 DEF IsMark
  <2>5. QED BY <1>1, <2>1, <2>2, <2>3, <2>4, OneMarkPerHRS DEF SignerInv
<1>2. QED BY <1>1, SignerInvariant, PTL

\* A released message verifies: its timestamp is the signed one.
THEOREM ReleasesVerify == Spec => []ReleasedVerifies
<1>1. SignerInv => ReleasedVerifies
  BY DEF SignerInv, ReleasedOK, SignedOK, ReleasedVerifies
<1>2. QED BY <1>1, SignerInvariant, PTL

\* Machines follow the log and committed marks only advance, over any number of
\* leaders, restarts and snapshots (fsm.Apply, Snapshot, Restore).
THEOREM StoreIsConsistent == Spec => []StoreConsistent
<1>1. SignerInv => StoreConsistent
  BY DEF SignerInv, StoreInv, StoreConsistent
<1>2. QED BY <1>1, SignerInvariant, PTL
-----------------------------------------------------------------------------
(* The refinement of the gate (SigningGate).                               *)

\* The gate speaks of the same bytes and signatures.
LEMMA GateTypes == Gate!SignBytes = SignBytes /\ Gate!Signature = Signature
BY DEF Gate!SignBytes, SignBytes, Gate!Signature, Signature, Gate!Steps, Steps,
       Gate!StepPropose, Gate!StepPrevote, Gate!StepPrecommit,
       StepPropose, StepPrevote, StepPrecommit

\* The gate sees only what is committed, signed and released.
LEMMA GateSeesNothing ==
  ASSUME UNCHANGED <<log, states, signed, released>>
  PROVE  UNCHANGED Gate!gateVars
<1>1. /\ (Committed.state)' = Committed.state
      /\ {r.signature : r \in released'} = {r.signature : r \in released}
  BY DEF Committed
<1>2. QED BY <1>1, MarksStay DEF Gate!gateVars

\* A committed entry adds the marks it leaves to the history.
LEMMA AppendedMarks ==
  ASSUME SignerInv, NEW e \in pending, AppendCommitted(e)
  PROVE  /\ CommittedMarks' = CommittedMarks \cup
                              ({Committed'.state[c] : c \in Chains} \ {Nil})
         /\ {Committed.state[c] : c \in Chains} \ {Nil} \subseteq CommittedMarks
         /\ Committed \in FSM /\ MarksOK(Committed) /\ WellFormed(e.cmd)
         /\ Committed' = Apply(Committed, e.cmd).fsm
<1> DEFINE N == Len(log)
<1>1. /\ log \in Seq(Entry) /\ N \in Nat /\ Committed = states[N]
      /\ Committed \in FSM /\ MarksOK(Committed) /\ WellFormed(e.cmd)
  BY HistoryTypes, Zenon DEF SignerInv, StoreInv, StoreTypeOK, EntriesOK, Committed
<1>2. Len(log') = N + 1
  BY <1>1 DEF AppendCommitted
<1>3. /\ \A i \in 0..N : states'[i] = states[i]
      /\ states'[N + 1] = Apply(Committed, e.cmd).fsm
  BY <1>1 DEF AppendCommitted
<1>4. 0..Len(log') = 0..N \cup {N + 1} /\ N \in 0..N
  BY <1>1, <1>2
<1>5. Committed' = states'[N + 1]
  BY <1>2 DEF Committed
<1> HIDE DEF N
<1>6. CommittedMarks = {states[i].state[c] : i \in 0..N, c \in Chains} \ {Nil}
  BY DEF CommittedMarks, N
<1>7. CommittedMarks' = {states'[i].state[c] : i \in 0..N \cup {N + 1}, c \in Chains} \ {Nil}
  BY <1>4 DEF CommittedMarks
<1>8. CommittedMarks' = CommittedMarks \cup ({Committed'.state[c] : c \in Chains} \ {Nil})
  <2>1. ASSUME NEW m
        PROVE  m \in CommittedMarks' <=>
                 m \in CommittedMarks \cup ({Committed'.state[c] : c \in Chains} \ {Nil})
    <3>1. (\E i \in 0..N \cup {N + 1}, c \in Chains : m = states'[i].state[c]) <=>
             \/ \E i \in 0..N, c \in Chains : m = states[i].state[c]
             \/ \E c \in Chains : m = Committed'.state[c]
      BY <1>3, <1>5, Zenon
    <3>2. m \in CommittedMarks' <=>
            /\ \E i \in 0..N \cup {N + 1}, c \in Chains : m = states'[i].state[c]
            /\ m # Nil
      BY <1>7
    <3>3. m \in CommittedMarks <=>
            (\E i \in 0..N, c \in Chains : m = states[i].state[c]) /\ m # Nil
      BY <1>6
    <3>4. QED BY <3>1, <3>2, <3>3, Zenon
  <2>2. QED BY <2>1, Zenon
<1>9. ASSUME NEW c \in Chains, Committed.state[c] # Nil
      PROVE  Committed.state[c] \in CommittedMarks
  <2>1. \E i \in 0..N, d \in Chains : Committed.state[c] = states[i].state[d]
    BY <1>1, <1>4, Zenon
  <2>2. QED BY <1>6, <1>9, <2>1
<1>10. Committed' = Apply(Committed, e.cmd).fsm
  BY <1>3, <1>5, Zenon
<1>11. {Committed.state[c] : c \in Chains} \ {Nil} \subseteq CommittedMarks
  BY <1>9, Zenon
<1>12. QED BY <1>1, <1>8, <1>10, <1>11, Zenon

\* A committed entry is a reservation of the gate, or a recording, or nothing.
LEMMA AppendIsGateStep ==
  ASSUME SignerInv, NEW e \in pending, AppendCommitted(e), UNCHANGED <<signed, released>>
  PROVE  Gate!GateNext \/ UNCHANGED Gate!gateVars
<1> DEFINE cmd == e.cmd
           b == cmd.signBytes
           old == Committed.state
           new == Committed'.state
<1>1. /\ Committed \in FSM /\ MarksOK(Committed) /\ WellFormed(cmd)
      /\ Committed' = Apply(Committed, cmd).fsm
  BY AppendedMarks, Zenon
<1>2. /\ CommittedMarks' = CommittedMarks \cup ({new[c] : c \in Chains} \ {Nil})
      /\ {old[c] : c \in Chains} \ {Nil} \subseteq CommittedMarks
  BY AppendedMarks
<1>3. /\ Committed' \in FSM
      /\ \A c \in Chains : MarkStep(cmd, c, old[c], new[c])
  BY <1>1, ApplyEffect
<1>4. {r.signature : r \in released'} = {r.signature : r \in released}
  OBVIOUS
<1> HIDE DEF cmd
<1>5. CASE \A c \in Chains : new[c] = old[c]
  <2>1. new = old
    BY <1>1, <1>3, <1>5 DEF FSM
  <2>2. CommittedMarks' = CommittedMarks
    BY <1>2, <1>5
  <2>3. QED BY <1>4, <2>1, <2>2 DEF Gate!gateVars, ReservedBytes, RecordedSignatures
<1>6. CASE /\ cmd.op = "reserve" /\ b.chain \in Chains
           /\ compareHRS(old[b.chain], cmd.height, cmd.round, cmd.step) = 1
           /\ new[b.chain] = MarkOf(b, Nil)
  <2>1. b \in SignBytes /\ IsMark(b.chain, MarkOf(b, Nil)) /\ MarkOf(b, Nil) # Nil
    BY <1>1, <1>6, ReserveFields, MarkOfIsMark, IsMarkFields, ZenonT(30)
  <2>2. \A d \in Chains \ {b.chain} : new[d] = old[d]
    BY <1>3, <1>6, Zenon DEF MarkStep
  <2>3. /\ CommittedMarks' = CommittedMarks \cup {MarkOf(b, Nil)}
        /\ new = [old EXCEPT ![b.chain] = MarkOf(b, Nil)]
    <3>1. new = [old EXCEPT ![b.chain] = MarkOf(b, Nil)]
      BY <1>1, <1>3, <1>6, <2>2, Zenon DEF FSM
    <3>2. ASSUME NEW m \in CommittedMarks' PROVE m \in CommittedMarks \cup {MarkOf(b, Nil)}
      <4>1. SUFFICES ASSUME m \notin CommittedMarks PROVE m = new[b.chain]
        BY <1>6, Zenon
      <4>2. PICK c \in Chains : m = new[c] /\ m # Nil
        BY <1>2, <3>2, <4>1, Zenon
      <4>3. old[c] # Nil => old[c] \in CommittedMarks
        BY <1>2, Zenon
      <4>4. QED BY <2>2, <4>1, <4>2, <4>3, Zenon
    <3>3. MarkOf(b, Nil) \in CommittedMarks' /\ CommittedMarks \subseteq CommittedMarks'
      BY <1>2, <1>6, <2>1, Zenon
    <3>4. QED BY <3>1, <3>2, <3>3, Zenon
  <2>4. MarkOf(b, Nil).signBytes = b /\ MarkOf(b, Nil).signature = Nil
    BY DEF MarkOf
  <2>5. ReservedBytes' = ReservedBytes \cup {b} /\ RecordedSignatures' = RecordedSignatures
    <3>1. {m.signBytes : m \in CommittedMarks'}
            = {m.signBytes : m \in CommittedMarks} \cup {b}
      BY <2>3, <2>4, Zenon
    <3>2. {m.signature : m \in CommittedMarks'}
            = {m.signature : m \in CommittedMarks} \cup {Nil}
      BY <2>3, <2>4, Zenon
    <3>3. QED BY <3>1, <3>2, Zenon DEF ReservedBytes, RecordedSignatures
  <2>6. old[b.chain] = Nil \/ Below(old[b.chain], b)
    <3>1. old[b.chain] \in SignState \cup {Nil}
      BY <1>1, <1>6 DEF FSM
    <3>2. /\ cmd.height = b.height /\ cmd.round = b.round /\ cmd.step = b.step
          /\ b.height \in Heights /\ b.round \in Rounds /\ b.step \in Steps
      BY <1>1, <1>6, <2>1, ReserveFields, Zenon DEF SignBytes
    <3>3. compareHRS(old[b.chain], b.height, b.round, b.step) = 1
      BY <1>6, <3>2, Zenon
    <3>4. QED BY <3>1, <3>2, <3>3, CompareIsLexicographic, Zenon
  <2>7. Gate!GateReserve(b)
    BY <1>4, <2>3, <2>5, <2>6, Zenon DEF Gate!GateReserve, Gate!MarkOf, MarkOf, Gate!Below, Below
  <2>8. QED BY <2>1, <2>7, GateTypes DEF Gate!GateNext
<1>7. CASE /\ cmd.op = "commit" /\ b.chain \in Chains
           /\ old[b.chain] = MarkOf(b, Nil)
           /\ new[b.chain] = MarkOf(b, cmd.signature)
  <2> DEFINE s == cmd.signature
  <2>1. /\ b \in SignBytes /\ s \in Signature /\ s.over = b
        /\ IsMark(b.chain, MarkOf(b, s)) /\ MarkOf(b, s) # Nil
    BY <1>1, <1>7, CommitFields, MarkOfIsMark, IsMarkFields, ZenonT(30)
  <2>2. \A d \in Chains \ {b.chain} : new[d] = old[d]
    BY <1>3, <1>7, Zenon DEF MarkStep
  <2>3. /\ CommittedMarks' = CommittedMarks \cup {MarkOf(b, s)}
        /\ new = [old EXCEPT ![b.chain] = MarkOf(b, s)]
    <3>1. new = [old EXCEPT ![b.chain] = MarkOf(b, s)]
      BY <1>1, <1>3, <1>7, <2>2, Zenon DEF FSM
    <3>2. ASSUME NEW m \in CommittedMarks' PROVE m \in CommittedMarks \cup {MarkOf(b, s)}
      <4>1. SUFFICES ASSUME m \notin CommittedMarks PROVE m = new[b.chain]
        BY <1>7, Zenon
      <4>2. PICK c \in Chains : m = new[c] /\ m # Nil
        BY <1>2, <3>2, <4>1, Zenon
      <4>3. old[c] # Nil => old[c] \in CommittedMarks
        BY <1>2, Zenon
      <4>4. QED BY <2>2, <4>1, <4>2, <4>3, Zenon
    <3>3. MarkOf(b, s) \in CommittedMarks' /\ CommittedMarks \subseteq CommittedMarks'
      BY <1>2, <1>7, <2>1, Zenon
    <3>4. QED BY <3>1, <3>2, <3>3, Zenon
  <2>4. /\ MarkOf(b, s).signBytes = b /\ MarkOf(b, s).signature = s
        /\ MarkOf(b, Nil).signBytes = b
    BY DEF MarkOf
  <2>5. b \in ReservedBytes
    <3>1. MarkOf(b, Nil) \in CommittedMarks
      <4>1. MarkOf(b, Nil) # Nil
        BY <2>1, MarkOfIsMark, IsMarkFields
      <4>2. QED BY <1>2, <1>7, <4>1
    <3>2. QED BY <2>4, <3>1 DEF ReservedBytes
  <2>6. ReservedBytes' = ReservedBytes /\ RecordedSignatures' = RecordedSignatures \cup {s}
    <3>1. s # Nil
      BY <2>1, NilIsNoValue
    <3>2. {m.signBytes : m \in CommittedMarks'}
            = {m.signBytes : m \in CommittedMarks} \cup {b}
      BY <2>3, <2>4, Zenon
    <3>3. {m.signature : m \in CommittedMarks'}
            = {m.signature : m \in CommittedMarks} \cup {s}
      BY <2>3, <2>4, Zenon
    <3>4. ReservedBytes' = ReservedBytes
      BY <2>5, <3>2, Zenon DEF ReservedBytes
    <3>5. RecordedSignatures' = RecordedSignatures \cup {s}
      BY <3>1, <3>3, Zenon DEF RecordedSignatures
    <3>6. QED BY <3>4, <3>5
  <2>7. s \in signed
    BY <1>7, Zenon DEF cmd, SignerInv, SignedOK
  <2>8. Gate!GateRecord(s)
    BY <1>4, <1>7, <2>1, <2>3, <2>6, <2>7, Zenon DEF Gate!GateRecord, Gate!MarkOf, MarkOf
  <2>9. QED BY <2>1, <2>8, GateTypes, Zenon DEF Gate!GateNext
<1>8. QED BY <1>3, <1>5, <1>6, <1>7, Zenon DEF MarkStep

\* Finish releases a signature that the gate has recorded, or nothing.
LEMMA FinishIsGateStep ==
  ASSUME SignerInv', NEW w \in Callers, NEW ts, NEW sig, Collect(w), Finish(w, ts, sig)
  PROVE  Gate!GateNext \/ UNCHANGED Gate!gateVars
<1> DEFINE m == worker[w].msg
           r == [msg |-> [m EXCEPT !.ts = ts], signature |-> sig,
                 extSigned |-> nonNilPrecommit(m)]
<1>1. log' = log /\ states' = states /\ signed' = signed
  BY DEF Collect, Finish, Fail
<1>2. CASE released' = released
  BY <1>1, <1>2, GateSeesNothing
<1>3. CASE released' = released \cup {r}
  <2>1. r.signature = sig
    OBVIOUS
  <2> HIDE DEF r
  <2>2. sig \in RecordedSignatures' /\ sig \in Signature
    <3>1. r \in released' /\ r \in Response
      BY <1>3 DEF SignerInv, TypeOK
    <3>2. QED BY <2>1, <3>1 DEF SignerInv, ReleasedOK, Response
  <2>3. /\ ReservedBytes' = ReservedBytes /\ RecordedSignatures' = RecordedSignatures
        /\ (Committed.state)' = Committed.state
    BY <1>1, MarksStay DEF Committed
  <2>4. {q.signature : q \in released'} = {q.signature : q \in released} \cup {sig}
    BY <1>3, <2>1
  <2>5. Gate!GateRelease(sig)
    BY <1>1, <2>2, <2>3, <2>4 DEF Gate!GateRelease
  <2>6. QED BY <2>2, <2>5, GateTypes DEF Gate!GateNext
<1>4. QED BY <1>2, <1>3 DEF Finish, Fail

\* The backend signs bytes that the gate has reserved, or nothing.
LEMMA SignIsGateStep ==
  ASSUME SignerInv', NEW w \in Callers, Sign(w)
  PROVE  Gate!GateNext \/ UNCHANGED Gate!gateVars
<1>1. log' = log /\ states' = states /\ released' = released
  BY DEF Sign, Collect, Fail
<1>2. CASE signed' = signed
  BY <1>1, <1>2, GateSeesNothing
<1>3. ASSUME NEW s, signed' = signed \cup {s}
      PROVE  Gate!GateNext
  <2>1. s \in Signature /\ s.over \in ReservedBytes'
    BY <1>3 DEF SignerInv, TypeOK, SignedOK
  <2>2. /\ ReservedBytes' = ReservedBytes /\ RecordedSignatures' = RecordedSignatures
        /\ (Committed.state)' = Committed.state
    BY <1>1, MarksStay DEF Committed
  <2>3. {q.signature : q \in released'} = {q.signature : q \in released}
    BY <1>1
  <2>4. Gate!GateSign(s)
    BY <1>3, <2>1, <2>2, <2>3 DEF Gate!GateSign
  <2>5. QED BY <2>1, <2>4, GateTypes DEF Gate!GateNext
<1>4. QED BY <1>2, <1>3, Zenon DEF Sign, Fail

\* The marks a cluster starts with are the marks the gate starts with.
LEMMA InitIsGateInit ==
  ASSUME Init
  PROVE  Gate!GateInit
<1> DEFINE mark == Committed.state
<1>1. PICK marks \in [Chains -> LegacyMarks \cup {Nil}] :
        /\ \A c \in Chains : marks[c] # Nil => IsMark(c, marks[c])
        /\ states = [i \in {0} |-> [newFSM EXCEPT !.state = marks]]
  BY Zenon DEF Init, StoreInit
<1>2. /\ Len(log) = 0 /\ released = {}
      /\ signed = {m.signature : m \in {mark[c] : c \in Marked(Committed)}} \ {Nil}
  BY DEF Init, StoreInit
<1>3. Committed = states[0] /\ 0..Len(log) = {0} /\ mark = marks
  BY <1>1, <1>2 DEF Committed, newFSM
<1>4. CommittedMarks = {marks[c] : c \in {d \in Chains : marks[d] # Nil}}
  BY <1>3 DEF CommittedMarks
<1>5. /\ ReservedBytes = {marks[c].signBytes : c \in {d \in Chains : marks[d] # Nil}}
      /\ RecordedSignatures =
           {marks[c].signature : c \in {d \in Chains : marks[d] # Nil}} \ {Nil}
  BY <1>4 DEF ReservedBytes, RecordedSignatures
<1>6. signed = RecordedSignatures
  BY <1>2, <1>3, <1>4 DEF Marked, RecordedSignatures
<1>7. \A c \in Chains : marks[c] # Nil => Gate!IsMark(c, marks[c])
  BY <1>1, GateTypes DEF IsMark, Gate!IsMark, SignState, Gate!SignState, MarkOf, Gate!MarkOf,
       Steps, Gate!Steps, StepPropose, StepPrevote, StepPrecommit,
       Gate!StepPropose, Gate!StepPrevote, Gate!StepPrecommit
<1>8. {r.signature : r \in released} = {}
  BY <1>2
<1>9. QED BY <1>3, <1>5, <1>6, <1>7, <1>8 DEF Gate!GateInit

\* The cluster implements the gate: a committed Reserve or Commit is a step of the
\* one durable mark, the backend signs what is reserved, a node gets what is
\* recorded, and everything else (raft, retries, lost answers, restarts) is
\* invisible (gatedSign over raftStore).
THEOREM ClusterImplementsGate == Spec => ImplementsGate
<1>1. Init => Gate!GateInit
  BY InitIsGateInit
<1>2. SignerInv /\ SignerInv' /\ [Next]_vars => [Gate!GateNext]_(Gate!gateVars)
  <2>1. SUFFICES ASSUME SignerInv, SignerInv', [Next]_vars
                 PROVE  Gate!GateNext \/ UNCHANGED Gate!gateVars
    OBVIOUS
  <2>2. CASE UNCHANGED <<log, states, signed, released>>
    BY <2>2, GateSeesNothing
  <2>3. ASSUME NEW w \in Callers, WorkerStep(w)
        PROVE  Gate!GateNext \/ UNCHANGED Gate!gateVars
    <3>1. CASE ReserveReuse(w) \/ Release(w)
      BY <2>1, <3>1, FinishIsGateStep DEF ReserveReuse, Release
    <3>2. CASE Sign(w)
      BY <2>1, <3>2, SignIsGateStep
    <3>3. CASE ReserveRefused(w) \/ Commit(w) \/ CommitNotAccepted(w) \/ CommitRefused(w)
      BY <2>2, <3>3 DEF ReserveRefused, Commit, CommitNotAccepted, CommitRefused, Collect,
                        Fail, apply
    <3>4. QED BY <2>3, <3>1, <3>2, <3>3 DEF WorkerStep
  <2>4. CASE RaftStep /\ UNCHANGED <<worker, signed, released>>
    <3>1. CASE CommitEntry
      BY <2>1, <2>4, <3>1, AppendIsGateStep DEF CommitEntry
    <3>2. CASE ~CommitEntry
      BY <2>2, <2>4, <3>2, Zenon DEF RaftStep, ApplyEntry, BecomeLeader, StepDown, TakeSnapshot,
                              InstallSnapshot
    <3>3. QED BY <3>1, <3>2
  <2>5. CASE \/ \E w \in Callers, n \in Replicas, m \in Requests : Reserve(w, n, m)
             \/ \E n \in Replicas : Crash(n)
             \/ UNCHANGED vars
    BY <2>2, <2>5, Zenon DEF Reserve, apply, Crash, Restart, vars, storeVars
  <2>6. QED BY <2>1, <2>3, <2>4, <2>5 DEF Next
<1>3. QED BY <1>1, <1>2, SignerInvariant, PTL DEF Spec, ImplementsGate, Gate!GateSpec
=============================================================================
