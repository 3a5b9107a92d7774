---------------------------- MODULE GatedSigner ----------------------------
(***************************************************************************)
(* The gated private validator (internal/signer/privval.go) on top of the  *)
(* raft store: reserve the bytes, sign them, commit the signature, release *)
(* it.  A worker is the goroutine that serves one node connection; several *)
(* of them, on one or on several replicas, run the sequence at once, each  *)
(* step of it interleaved with the others, with elections and restarts.    *)
(***************************************************************************)
EXTENDS RaftStore

CONSTANTS Requests,   \* the votes and proposals the nodes may send
          NilBlock    \* the block of a nil vote

VARIABLES worker,    \* caller -> where it is in SignVote or SignProposal
          signed,    \* history: every signature the key backend has produced
          released   \* history: every signed vote or proposal handed to a node

vars == <<storeVars, worker, signed, released>>

\* A request as the node sends it.  "ext" tells whether it carries a vote
\* extension.
Request == [chain : Chains, type : {"proposal", "prevote", "precommit", "unknown"},
            height : Heights, round : Rounds, block : Blocks, ts : Times, ext : BOOLEAN]

ASSUME SignerAssumption == Requests \subseteq Request

voteToStep(type) == CASE type = "proposal"  -> StepPropose
                      [] type = "prevote"   -> StepPrevote
                      [] type = "precommit" -> StepPrecommit

nonNilPrecommit(m) == m.type = "precommit" /\ m.block # NilBlock

\* The checks SignVote makes before it reserves anything.
Acceptable(m) == m.type # "unknown" /\ (m.ext => nonNilPrecommit(m))

\* VoteSignBytes, ProposalSignBytes: the canonical form leaves the extension out.
SignBytesOf(m) == [chain |-> m.chain, height |-> m.height, round |-> m.round,
                   step |-> voteToStep(m.type), block |-> m.block, ts |-> m.ts]

PC == {"idle", "reserve", "signed", "commit"}
Worker == [pc : PC, node : Replicas \cup {Nil}, msg : Requests \cup {Nil},
           signBytes : SignBytes \cup {Nil}, ts : Times \cup {Nil},
           signature : Signature \cup {Nil}]
Idle == [pc |-> "idle", node |-> Nil, msg |-> Nil, signBytes |-> Nil, ts |-> Nil,
         signature |-> Nil]

\* The commands of Reserve and Commit.
ReserveOf(m) == [op |-> "reserve", chain |-> m.chain, height |-> m.height,
                 round |-> m.round, step |-> voteToStep(m.type),
                 signBytes |-> SignBytesOf(m), timestamp |-> m.ts]
CommitOf(wk) == [op |-> "commit", chain |-> wk.msg.chain, height |-> wk.msg.height,
                 round |-> wk.msg.round, step |-> voteToStep(wk.msg.type),
                 signBytes |-> wk.signBytes, signature |-> wk.signature]

\* What the node gets back: its message with the timestamp and the signatures
\* that SignVote or SignProposal stamped onto it.
Response == [msg : Request, signature : Signature, extSigned : BOOLEAN]

Init ==
  /\ StoreInit
  /\ worker = [w \in Callers |-> Idle]
  /\ signed = {m.signature : m \in {Committed.state[c] : c \in Marked(Committed)}} \ {Nil}
  /\ released = {}
-----------------------------------------------------------------------------
\* The error is returned to the node; its message is left untouched.
Fail(w) ==
  /\ worker' = [worker EXCEPT ![w] = Idle]
  /\ UNCHANGED <<signed, released>>

\* SignVote or SignProposal up to the Apply of its Reserve.
Reserve(w, n, m) ==
  /\ worker[w].pc = "idle"
  /\ Acceptable(m)
  /\ apply(w, n, ReserveOf(m))
  /\ worker' = [worker EXCEPT ![w] = [Idle EXCEPT !.pc = "reserve", !.node = n, !.msg = m]]
  /\ UNCHANGED <<signed, released>>

ReserveRefused(w) ==
  /\ worker[w].pc = "reserve" /\ Refused(w)
  /\ Collect(w)
  /\ Fail(w)
  /\ UNCHANGED faults

\* The rest of SignVote or SignProposal once sig and ts are known.  The vote
\* extension is signed anew for every accepted non-nil precommit, outside the
\* gate; when that fails the vote is not signed either.
Finish(w, ts, sig) ==
  LET m == worker[w].msg
  IN  \/ /\ released' = released \cup {[msg |-> [m EXCEPT !.ts = ts], signature |-> sig,
                                        extSigned |-> nonNilPrecommit(m)]}
         /\ worker' = [worker EXCEPT ![w] = Idle]
         /\ UNCHANGED <<signed, faults>>
      \/ nonNilPrecommit(m) /\ Fail(w) /\ Fault

\* Mutant of ReserveReuse: the request's own timestamp is stamped.
ReserveReuseOwnTime(w) ==
  LET res == future[w].res
  IN  /\ worker[w].pc = "reserve" /\ Succeeded(w)
      /\ res.reuse /\ res.signature # Nil
      /\ Collect(w)
      /\ Finish(w, worker[w].msg.ts, res.signature)

\* A signature was recorded before: it is stamped, nothing is signed.
ReserveReuse(w) ==
  LET res == future[w].res
  IN  /\ worker[w].pc = "reserve" /\ Succeeded(w)
      /\ res.reuse /\ res.signature # Nil
      /\ Collect(w)
      /\ Finish(w, res.timestamp, res.signature)

\* The backend signs exactly the bytes the cluster reserved, at any time after
\* the reservation: the worker touches nothing shared in between.
Sign(w) ==
  LET res == future[w].res
  IN  /\ worker[w].pc = "reserve" /\ Succeeded(w)
      /\ ~(res.reuse /\ res.signature # Nil)
      /\ Collect(w)
      /\ \/ \E salt \in Salts :
              LET sig == [over |-> res.signBytes, salt |-> salt]
              IN  /\ signed' = signed \cup {sig}
                  /\ worker' = [worker EXCEPT ![w].pc = "signed", ![w].ts = res.timestamp,
                                              ![w].signBytes = res.signBytes,
                                              ![w].signature = sig]
                  /\ UNCHANGED <<released, faults>>
         \/ Fail(w) /\ Fault

Commit(w) ==
  /\ worker[w].pc = "signed"
  /\ apply(w, worker[w].node, CommitOf(worker[w]))
  /\ worker' = [worker EXCEPT ![w].pc = "commit"]
  /\ UNCHANGED <<signed, released>>

\* Mutant of CommitNotAccepted: the error is dropped and the signature released.
CommitNotAcceptedIgnored(w) ==
  /\ worker[w].pc = "signed"
  /\ role[worker[w].node] # "leader"
  /\ Finish(w, worker[w].ts, worker[w].signature)
  /\ UNCHANGED <<log, states, pending, nextID, applied, fsm, role, snap, future>>

\* ErrNotLeader, or raft did not take the command (ErrEnqueueTimeout).
CommitNotAccepted(w) ==
  /\ worker[w].pc = "signed"
  /\ IF role[worker[w].node] = "leader" THEN Fault ELSE UNCHANGED faults
  /\ Fail(w)
  /\ UNCHANGED <<log, states, pending, nextID, applied, fsm, role, snap, future>>

CommitRefused(w) ==
  /\ worker[w].pc = "commit" /\ Refused(w)
  /\ Collect(w)
  /\ Fail(w)
  /\ UNCHANGED faults

\* The signature is recorded.  Only now may it leave.
Release(w) ==
  /\ worker[w].pc = "commit" /\ Succeeded(w)
  /\ Collect(w)
  /\ Finish(w, worker[w].ts, worker[w].signature)

\* A crash takes the requests in progress with it.
Crash(n) ==
  /\ Restart(n)
  /\ worker' = [w \in Callers |-> IF worker[w].node = n THEN Idle ELSE worker[w]]
  /\ UNCHANGED <<signed, released>>

WorkerStep(w) ==
  \/ ReserveRefused(w) \/ ReserveReuse(w) \/ Sign(w)
  \/ Commit(w) \/ CommitNotAccepted(w) \/ CommitRefused(w) \/ Release(w)

Next ==
  \/ \E w \in Callers, n \in Replicas, m \in Requests : Reserve(w, n, m)
  \/ \E w \in Callers : WorkerStep(w)
  \/ RaftStep /\ UNCHANGED <<worker, signed, released>>
  \/ \E n \in Replicas : Crash(n)

Spec == Init /\ [][Next]_vars

\* What the runtime, raft and the nodes provide: goroutines run, raft makes
\* progress, and a node whose request was not answered asks again.  Faults are
\* finite in number (MaxFaults).
Fairness ==
  /\ \A w \in Callers : WF_vars(WorkerStep(w))
  /\ \A n \in Replicas : WF_vars(ApplyEntry(n) /\ UNCHANGED <<worker, signed, released>>)
  /\ WF_vars(RaftProgress /\ UNCHANGED <<worker, signed, released>>)
  /\ WF_vars(\E w \in Callers, n \in Replicas, m \in Requests : Reserve(w, n, m))

FairSpec == Spec /\ Fairness
-----------------------------------------------------------------------------
\* The marks, the bytes and the signatures that the committed log ever held.
CommittedMarks == {states[i].state[c] : i \in 0..Len(log), c \in Chains} \ {Nil}
ReservedBytes == {m.signBytes : m \in CommittedMarks}
RecordedSignatures == {m.signature : m \in CommittedMarks} \ {Nil}

TypeOK ==
  /\ StoreTypeOK
  /\ worker \in [Callers -> Worker]
  /\ signed \subseteq Signature
  /\ released \subseteq Response

\* The key never signs two different byte strings for one chain, height, round
\* and step, whatever the requests, the leaders, the retries and the crashes
\* (gatedSign, applyReserve).
NoDoubleSign ==
  \A a, b \in signed : SameHRS(a.over, b.over) => a.over = b.over

\* Bytes are signed only when the committed mark of their chain has reached
\* them: the mark holds these very bytes or lies above.  What a crash or an
\* unknown outcome leaves behind can only block a signature, never allow a
\* second one.
MarkCoversSigned ==
  \A s \in signed :
    MarkFollows(MarkOf(s.over, Nil), Committed.state[s.over.chain])

\* A signature reaches a node only after the cluster has recorded it (Commit
\* before set in gatedSign): the committed mark still holds it or lies above.
ReleasedIsRecorded ==
  \A r \in released :
    MarkFollows(MarkOf(r.signature.over, r.signature), Committed.state[r.msg.chain])

\* Nodes never see two different signatures for one chain, height, round and
\* step, even from a backend that is not deterministic: a Commit of a second
\* signature is refused (fsm.go:136) and a request at the mark gets the first.
OneSignaturePerHRS ==
  \A r, q \in released :
    SameHRS(r.signature.over, q.signature.over) => r.signature = q.signature

\* The signature a node gets verifies over the message it gets back: the
\* timestamp stamped onto the vote is the one in the signed bytes, also when
\* the request carried another one.
ReleasedVerifies ==
  \A r \in released :
    /\ r.signature.over = SignBytesOf(r.msg)
    /\ r.signature \in signed
    /\ r.extSigned <=> nonNilPrecommit(r.msg)

\* The cluster implements the one durable gate.
Gate == INSTANCE SigningGate WITH
  InitialMarks <- LegacyMarks,
  mark     <- Committed.state,
  reserved <- ReservedBytes,
  recorded <- RecordedSignatures,
  released <- {r.signature : r \in released}

\* The cluster, with its replicas, leaders that overlap, unknown outcomes and
\* crashes, behaves like one durable gate in front of the key (StateStore and
\* GatedPrivValidator).
ImplementsGate == Gate!GateSpec

\* A request in progress always ends, with a signed message or an error: no
\* worker waits for ever on raft (gatedSign, raftStore.apply).
RequestsEnd ==
  \A w \in Callers : worker[w].pc # "idle" ~> worker[w].pc = "idle"

\* A reservation without a signature, left behind by a crash, a lost leadership
\* or a failed call, does not block its height, round and step: nodes that ask
\* again, with the old timestamp or a new one, get a signature in the end.
ReservationsComplete ==
  \A m \in Requests :
    /\ Committed.state[m.chain] # Nil
    /\ Committed.state[m.chain].signature = Nil
    /\ SameHRS(Committed.state[m.chain].signBytes, SignBytesOf(m))
    ~> \E r \in released : SameHRS(r.signature.over, SignBytesOf(m))
=============================================================================
