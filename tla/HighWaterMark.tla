--------------------------- MODULE HighWaterMark ---------------------------
(***************************************************************************)
(* The replicated state machine of internal/state (fsm.go, snapshot.go):   *)
(* one high-water mark per chain and the identity of the cluster.  Its     *)
(* methods are pure operators here: each takes the value of the machine    *)
(* and returns the new value together with the applyResult.                *)
(*                                                                         *)
(* Sign bytes are kept as the record of what CometBFT's canonical encoding *)
(* puts into them.  "block" stands for everything but the coordinates and  *)
(* the timestamp (block ID, proof-of-lock round).                          *)
(***************************************************************************)
EXTENDS Integers

CONSTANTS Chains,       \* chain IDs
          Heights,      \* heights (int64) a request may carry
          Rounds,       \* rounds (int32) a request may carry
          Blocks,       \* what a vote or proposal is for
          Times,        \* timestamps
          Salts,        \* signatures a backend may give for the same bytes
          ClusterIDs,   \* valid cluster IDs
          Nil           \* the nil pointer, the empty slice, the empty string

StepPropose   == 1
StepPrevote   == 2
StepPrecommit == 3
Steps == {StepPropose, StepPrevote, StepPrecommit}

SignBytes == [chain : Chains, height : Heights, round : Rounds, step : Steps,
              block : Blocks, ts : Times]

\* A signature is known by the bytes it is over.  Ed25519 is deterministic
\* (one salt); more salts stand for a backend that is not.
Signature == [over : SignBytes, salt : Salts]

SignState == [height : Heights, round : Rounds, step : Steps,
              signBytes : SignBytes, signature : Signature \cup {Nil},
              timestamp : Times]

FSM == [clusterID : ClusterIDs \cup {Nil}, state : [Chains -> SignState \cup {Nil}]]

Errors == {"ErrRegression", "ErrConflict", "stale commit", "sign-bytes mismatch",
           "signature mismatch"}

ASSUME CoordinatesAreIntegers == Heights \subseteq Int /\ Rounds \subseteq Int

ASSUME NilIsNoValue == /\ Nil \notin SignBytes /\ Nil \notin Signature
                       /\ Nil \notin SignState /\ Nil \notin ClusterIDs
                       /\ Nil \notin Errors

newFSM == [clusterID |-> Nil, state |-> [c \in Chains |-> Nil]]
-----------------------------------------------------------------------------
(* Commands, and the applyResult that travels back through the future.     *)

ReserveCommand == [op : {"reserve"}, chain : Chains, height : Heights, round : Rounds,
                   step : Steps, signBytes : SignBytes, timestamp : Times]
CommitCommand  == [op : {"commit"}, chain : Chains, height : Heights, round : Rounds,
                   step : Steps, signBytes : SignBytes, signature : Signature]
InitCommand    == [op : {"init_cluster"}, clusterID : ClusterIDs]
Command        == ReserveCommand \cup CommitCommand \cup InitCommand

applyResult == [reuse : BOOLEAN, signBytes : SignBytes \cup {Nil},
                signature : Signature \cup {Nil}, timestamp : Times \cup {Nil},
                clusterID : ClusterIDs \cup {Nil}, err : Errors \cup {Nil}]

NoResult == [reuse |-> FALSE, signBytes |-> Nil, signature |-> Nil,
             timestamp |-> Nil, clusterID |-> Nil, err |-> Nil]
Failed(e) == [NoResult EXCEPT !.err = e]
-----------------------------------------------------------------------------
\* Mutants of compareHRS: the coordinates themselves count as above the mark; the
\* round is not compared.
compareHRSOpen(cur, h, r, s) ==
  IF cur = Nil \/ <<h, r, s>> = <<cur.height, cur.round, cur.step>> THEN 1
  ELSE IF h # cur.height THEN (IF h < cur.height THEN -1 ELSE 1)
  ELSE IF r # cur.round  THEN (IF r < cur.round  THEN -1 ELSE 1)
  ELSE IF s < cur.step THEN -1 ELSE 1
compareHS(cur, h, r, s) ==
  IF cur = Nil THEN 1
  ELSE IF h # cur.height THEN (IF h < cur.height THEN -1 ELSE 1)
  ELSE IF s # cur.step   THEN (IF s < cur.step   THEN -1 ELSE 1)
  ELSE 0

\* -1 when (h, r, s) lies below cur, 0 when it is cur's, 1 when it is above.
compareHRS(cur, h, r, s) ==
  IF cur = Nil THEN 1
  ELSE IF h # cur.height THEN (IF h < cur.height THEN -1 ELSE 1)
  ELSE IF r # cur.round  THEN (IF r < cur.round  THEN -1 ELSE 1)
  ELSE IF s # cur.step   THEN (IF s < cur.step   THEN -1 ELSE 1)
  ELSE 0

\* Both payloads decode (every request's bytes come from the encoder), so what
\* decides is whether they agree once their timestamps are made equal.
onlyDiffersByTimestamp(last, new) == [last EXCEPT !.ts = new.ts] = new

applyInitCluster(f, c) ==
  LET id == IF f.clusterID = Nil THEN c.clusterID ELSE f.clusterID
  IN  [fsm |-> [f EXCEPT !.clusterID = id],
       res |-> [NoResult EXCEPT !.clusterID = id]]

\* What a request at the mark itself is told: the stored signature, or the
\* reserved bytes to sign.  The timestamp is the mark's in both cases.
AtMark(cur, ts) ==
  IF cur.signature # Nil
  THEN [NoResult EXCEPT !.reuse = TRUE, !.signature = cur.signature, !.timestamp = ts]
  ELSE [NoResult EXCEPT !.signBytes = cur.signBytes, !.timestamp = ts]

\* Mutants of applyReserve: a retry with another timestamp takes the mark over; a
\* reservation in flight is a conflict for all but the very same bytes.
applyReserveRefresh(f, c) ==
  LET cur   == f.state[c.chain]
      fresh == [height |-> c.height, round |-> c.round, step |-> c.step,
                signBytes |-> c.signBytes, signature |-> Nil, timestamp |-> c.timestamp]
  IN  IF compareHRS(cur, c.height, c.round, c.step) = -1
      THEN [fsm |-> f, res |-> Failed("ErrRegression")]
      ELSE IF cur # Nil /\ cur.signBytes = c.signBytes
      THEN [fsm |-> f, res |-> AtMark(cur, cur.timestamp)]
      ELSE [fsm |-> [f EXCEPT !.state[c.chain] = fresh],
            res |-> [NoResult EXCEPT !.signBytes = c.signBytes, !.timestamp = c.timestamp]]
applyReserveOnce(f, c) ==
  LET cur   == f.state[c.chain]
      fresh == [height |-> c.height, round |-> c.round, step |-> c.step,
                signBytes |-> c.signBytes, signature |-> Nil, timestamp |-> c.timestamp]
  IN  IF compareHRS(cur, c.height, c.round, c.step) = 1
      THEN [fsm |-> [f EXCEPT !.state[c.chain] = fresh],
            res |-> [NoResult EXCEPT !.signBytes = c.signBytes, !.timestamp = c.timestamp]]
      ELSE IF cur.signBytes = c.signBytes /\ cur.signature # Nil
      THEN [fsm |-> f, res |-> AtMark(cur, cur.timestamp)]
      ELSE [fsm |-> f, res |-> Failed("ErrConflict")]

applyReserve(f, c) ==
  LET cur   == f.state[c.chain]
      order == compareHRS(cur, c.height, c.round, c.step)
      fresh == [height |-> c.height, round |-> c.round, step |-> c.step,
                signBytes |-> c.signBytes, signature |-> Nil, timestamp |-> c.timestamp]
  IN  CASE order = -1 -> [fsm |-> f, res |-> Failed("ErrRegression")]
        [] order = 0  ->
             [fsm |-> f,
              res |-> IF cur.signBytes = c.signBytes THEN AtMark(cur, cur.timestamp)
                      ELSE IF onlyDiffersByTimestamp(cur.signBytes, c.signBytes)
                      THEN AtMark(cur, cur.signBytes.ts)
                      ELSE Failed("ErrConflict")]
        [] order = 1  ->
             [fsm |-> [f EXCEPT !.state[c.chain] = fresh],
              res |-> [NoResult EXCEPT !.signBytes = c.signBytes, !.timestamp = c.timestamp]]

\* Mutants of applyCommit: a later signature replaces the recorded one; a commit is
\* taken whatever the mark has become.
applyCommitReplace(f, c) ==
  LET cur == f.state[c.chain]
  IN  IF cur = Nil \/ cur.signBytes # c.signBytes
      THEN [fsm |-> f, res |-> Failed("stale commit")]
      ELSE [fsm |-> [f EXCEPT !.state[c.chain].signature = c.signature], res |-> NoResult]
applyCommitStale(f, c) ==
  [fsm |-> [f EXCEPT !.state[c.chain] =
              [height |-> c.height, round |-> c.round, step |-> c.step,
               signBytes |-> c.signBytes, signature |-> c.signature,
               timestamp |-> c.signBytes.ts]],
   res |-> NoResult]

applyCommit(f, c) ==
  LET cur == f.state[c.chain]
  IN  IF \/ cur = Nil
         \/ cur.height # c.height \/ cur.round # c.round \/ cur.step # c.step
      THEN [fsm |-> f, res |-> Failed("stale commit")]
      ELSE IF cur.signBytes # c.signBytes
      THEN [fsm |-> f, res |-> Failed("sign-bytes mismatch")]
      ELSE IF cur.signature # Nil
      THEN [fsm |-> f, res |-> IF cur.signature = c.signature THEN NoResult
                               ELSE Failed("signature mismatch")]
      ELSE [fsm |-> [f EXCEPT !.state[c.chain].signature = c.signature], res |-> NoResult]

Apply(f, c) ==
  CASE c.op = "reserve"      -> applyReserve(f, c)
    [] c.op = "commit"       -> applyCommit(f, c)
    [] c.op = "init_cluster" -> applyInitCluster(f, c)
-----------------------------------------------------------------------------
(* Snapshots.  The versioned format is an envelope of the identity and the *)
(* chains that have a mark.  The legacy format, from before clusters had   *)
(* an identity, is the map of marks alone.                                 *)

Marked(f) == {c \in Chains : f.state[c] # Nil}

\* Mutant of Snapshot: the envelope leaves the identity out.
SnapshotAnonymous(f) == [format |-> "v1", clusterID |-> Nil,
                         state |-> [c \in Marked(f) |-> f.state[c]]]

Snapshot(f) == [format |-> "v1", clusterID |-> f.clusterID,
                state |-> [c \in Marked(f) |-> f.state[c]]]

LegacySnapshot(f) == [format |-> "legacy", state |-> [c \in Marked(f) |-> f.state[c]]]

Decode(s) == [clusterID |-> IF s.format = "v1" THEN s.clusterID ELSE Nil,
              state |-> [c \in Chains |-> IF c \in DOMAIN s.state THEN s.state[c] ELSE Nil]]

\* An initialized machine takes only a snapshot of its own cluster.
RestoreAccepts(f, s) == f.clusterID = Nil \/ Decode(s).clusterID = f.clusterID

Restore(f, s) == IF RestoreAccepts(f, s) THEN Decode(s) ELSE f
-----------------------------------------------------------------------------
(* Vocabulary of the properties.                                           *)

\* The mark that reserving b, and recording sig for it, leaves: the reservation
\* puts the vote's own height, round, step and timestamp next to its bytes.
MarkOf(b, sig) == [height |-> b.height, round |-> b.round, step |-> b.step,
                   signBytes |-> b, signature |-> sig, timestamp |-> b.ts]

\* m is a mark of chain c that requests can have left.
IsMark(c, m) == /\ m \in SignState
                /\ m.signBytes.chain = c
                /\ m = MarkOf(m.signBytes, m.signature)
                /\ m.signature # Nil => m.signature.over = m.signBytes

SameHRS(a, b) == /\ a.chain = b.chain /\ a.height = b.height
                 /\ a.round = b.round /\ a.step = b.step

\* a comes before b: by height, then round, then step.
Below(a, b) == \/ a.height < b.height
               \/ a.height = b.height /\ a.round < b.round
               \/ a.height = b.height /\ a.round = b.round /\ a.step < b.step

\* cur is the same mark as prev, or a later one; a signature once recorded for
\* a mark stays.
MarkFollows(prev, cur) ==
  \/ prev = Nil
  \/ /\ cur # Nil
     /\ \/ Below(prev, cur)
        \/ /\ cur.height = prev.height /\ cur.round = prev.round /\ cur.step = prev.step
           /\ cur.signBytes = prev.signBytes
           /\ prev.signature # Nil => cur.signature = prev.signature
=============================================================================
