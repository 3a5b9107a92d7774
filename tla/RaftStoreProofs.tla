-------------------------- MODULE RaftStoreProofs --------------------------
(* What the methods of the state machine do to a mark, for every value; and *)
(* the inductive invariant of the store, for any callers that hand it       *)
(* well-formed commands.                                                    *)
EXTENDS RaftStore, TLAPS

\* A command as the gated validator and EnsureClusterID build it: the coordinates
\* next to the sign bytes are those in the sign bytes, and a signature to commit
\* is over the bytes it is committed for.
WellFormed(cmd) ==
  /\ cmd \in Command
  /\ cmd.op # "init_cluster" =>
       /\ cmd.chain = cmd.signBytes.chain
       /\ cmd.height = cmd.signBytes.height
       /\ cmd.round = cmd.signBytes.round
       /\ cmd.step = cmd.signBytes.step
  /\ cmd.op = "reserve" => cmd.timestamp = cmd.signBytes.ts
  /\ cmd.op = "commit" => cmd.signature.over = cmd.signBytes

\* Every chain of f has no mark, or one that requests can have left.
MarksOK(f) == \A c \in Chains : f.state[c] # Nil => IsMark(c, f.state[c])

\* The types of the fields of a mark.
LEMMA SignStateFields ==
  ASSUME NEW m \in SignState
  PROVE  /\ m # Nil
         /\ m.height \in Heights /\ m.round \in Rounds /\ m.step \in Steps
         /\ m.height \in Int /\ m.round \in Int /\ m.step \in Int
         /\ m.signBytes \in SignBytes /\ m.timestamp \in Times
         /\ m.signature \in Signature \cup {Nil}
BY CoordinatesAreIntegers, NilIsNoValue
   DEF SignState, Steps, StepPropose, StepPrevote, StepPrecommit

\* The coordinates and the timestamp of a mark are those in its bytes.
LEMMA IsMarkFields ==
  ASSUME NEW c, NEW m, IsMark(c, m)
  PROVE  /\ m \in SignState /\ m # Nil /\ m.signBytes.chain = c
         /\ m.height = m.signBytes.height /\ m.round = m.signBytes.round
         /\ m.step = m.signBytes.step /\ m.timestamp = m.signBytes.ts
<1>1. m \in SignState /\ m.signBytes.chain = c /\ m = MarkOf(m.signBytes, m.signature)
  BY DEF IsMark
<1>2. \A b, sig : LET k == MarkOf(b, sig)
                  IN  /\ k.height = b.height /\ k.round = b.round
                      /\ k.step = b.step /\ k.timestamp = b.ts
  BY DEF MarkOf
<1>3. QED BY <1>1, <1>2, NilIsNoValue

\* compareHRS decides the lexicographic order of height, round and step.
LEMMA CompareIsLexicographic ==
  ASSUME NEW m \in SignState,
         NEW b, b.height \in Heights, b.round \in Rounds, b.step \in Steps
  PROVE  /\ compareHRS(m, b.height, b.round, b.step) = -1 <=> Below(b, m)
         /\ compareHRS(m, b.height, b.round, b.step) = 1 <=> Below(m, b)
         /\ compareHRS(m, b.height, b.round, b.step) = 0
              <=> b.height = m.height /\ b.round = m.round /\ b.step = m.step
         /\ compareHRS(m, b.height, b.round, b.step) \in {-1, 0, 1}
<1>1. /\ m # Nil
      /\ m.height \in Int /\ m.round \in Int /\ m.step \in Int
      /\ b.height \in Int /\ b.round \in Int /\ b.step \in Int
  BY SignStateFields, CoordinatesAreIntegers
     DEF Steps, StepPropose, StepPrevote, StepPrecommit
<1>2. QED BY <1>1 DEF compareHRS, Below

\* A mark follows itself.
LEMMA MarkFollowsReflexive ==
  ASSUME NEW m \in SignState \cup {Nil}
  PROVE  MarkFollows(m, m)
BY DEF MarkFollows

\* Marks of one chain are ordered transitively.
LEMMA MarkFollowsTransitive ==
  ASSUME NEW a \in SignState \cup {Nil}, NEW b \in SignState \cup {Nil},
         NEW d \in SignState \cup {Nil},
         MarkFollows(a, b), MarkFollows(b, d)
  PROVE  MarkFollows(a, d)
<1>1. CASE a = Nil
  BY <1>1 DEF MarkFollows
<1>2. CASE a # Nil
  <2>1. b # Nil /\ d # Nil
    BY <1>2 DEF MarkFollows
  <2>2. /\ a.height \in Int /\ a.round \in Int /\ a.step \in Int
        /\ b.height \in Int /\ b.round \in Int /\ b.step \in Int
        /\ d.height \in Int /\ d.round \in Int /\ d.step \in Int
    BY <1>2, <2>1, SignStateFields
  <2>3. QED BY <1>2, <2>1, <2>2 DEF MarkFollows, Below
<1>3. QED BY <1>1, <1>2

\* What a command does to the mark of one chain: nothing, or it puts a fresh
\* reservation above it, or it records the first signature of the mark.
MarkStep(cmd, c, old, new) ==
  \/ new = old
  \/ /\ cmd.op = "reserve" /\ c = cmd.signBytes.chain
     /\ compareHRS(old, cmd.height, cmd.round, cmd.step) = 1
     /\ new = MarkOf(cmd.signBytes, Nil)
  \/ /\ cmd.op = "commit" /\ c = cmd.signBytes.chain
     /\ old = MarkOf(cmd.signBytes, Nil)
     /\ new = MarkOf(cmd.signBytes, cmd.signature)

\* Facts about the fields of a well-formed reserve command.
LEMMA ReserveFields ==
  ASSUME NEW cmd, WellFormed(cmd), cmd.op = "reserve"
  PROVE  /\ cmd.signBytes \in SignBytes
         /\ cmd.chain = cmd.signBytes.chain /\ cmd.height = cmd.signBytes.height
         /\ cmd.round = cmd.signBytes.round /\ cmd.step = cmd.signBytes.step
         /\ cmd.timestamp = cmd.signBytes.ts
BY DEF WellFormed, Command, ReserveCommand, CommitCommand, InitCommand

\* Facts about the fields of a well-formed commit command.
LEMMA CommitFields ==
  ASSUME NEW cmd, WellFormed(cmd), cmd.op = "commit"
  PROVE  /\ cmd.signBytes \in SignBytes /\ cmd.signature \in Signature
         /\ cmd.chain = cmd.signBytes.chain /\ cmd.height = cmd.signBytes.height
         /\ cmd.round = cmd.signBytes.round /\ cmd.step = cmd.signBytes.step
         /\ cmd.signature.over = cmd.signBytes
BY DEF WellFormed, Command, ReserveCommand, CommitCommand, InitCommand

\* An error is a result of its own.
LEMMA FailedIsResult ==
  ASSUME NEW e \in Errors
  PROVE  Failed(e) \in applyResult /\ Failed(e).err = e /\ e # Nil
BY NilIsNoValue, Zenon DEF Failed, NoResult, applyResult

\* A mark made from sign bytes and a signature over them is a mark of their chain.
LEMMA MarkOfIsMark ==
  ASSUME NEW b \in SignBytes, NEW s \in Signature \cup {Nil}, s # Nil => s.over = b
  PROVE  IsMark(b.chain, MarkOf(b, s))
BY DEF IsMark, MarkOf, SignState, SignBytes

\* applyReserve only ever moves the mark of its chain up, and an accepted request
\* is answered with the mark it finds or makes.
LEMMA ReserveEffect ==
  ASSUME NEW f \in FSM, MarksOK(f), NEW cmd, WellFormed(cmd), cmd.op = "reserve"
  PROVE  LET out == applyReserve(f, cmd)
             new == out.fsm.state[cmd.signBytes.chain]
         IN  /\ out.fsm \in FSM
             /\ out.res \in applyResult
             /\ out.fsm.clusterID = f.clusterID
             /\ \A c \in Chains : MarkStep(cmd, c, f.state[c], out.fsm.state[c])
             /\ out.res.err = Nil =>
                  /\ new # Nil
                  /\ onlyDiffersByTimestamp(new.signBytes, cmd.signBytes)
                  /\ out.res.timestamp = new.signBytes.ts
                  /\ \/ out.res.reuse /\ out.res.signature # Nil
                        /\ out.res.signature = new.signature
                     \/ ~out.res.reuse /\ out.res.signBytes = new.signBytes
<1> DEFINE b == cmd.signBytes
           cur == f.state[b.chain]
           order == compareHRS(cur, b.height, b.round, b.step)
<1>1. /\ b \in SignBytes /\ b.chain \in Chains
      /\ b.height \in Heights /\ b.round \in Rounds /\ b.step \in Steps
      /\ b.block \in Blocks /\ b.ts \in Times
  BY ReserveFields DEF SignBytes
<1>2. cur \in SignState \cup {Nil} /\ (cur # Nil => IsMark(b.chain, cur))
  BY <1>1 DEF FSM, MarksOK
<1>3. order \in {-1, 0, 1}
  BY <1>1, <1>2, CompareIsLexicographic DEF compareHRS
<1>4. CASE order = -1
  <2>1. applyReserve(f, cmd) = [fsm |-> f, res |-> Failed("ErrRegression")]
    BY <1>4, ReserveFields DEF applyReserve
  <2>2. /\ Failed("ErrRegression") \in applyResult
        /\ Failed("ErrRegression").err # Nil
    BY FailedIsResult, Zenon DEF Errors
  <2>3. QED BY <2>1, <2>2 DEF MarkStep
<1>5. CASE order = 0
  <2>1. cur # Nil /\ IsMark(b.chain, cur)
    BY <1>2, <1>5 DEF compareHRS
  <2>2. /\ cur \in SignState /\ cur.signBytes \in SignBytes
        /\ cur.signature \in Signature \cup {Nil}
        /\ cur.timestamp = cur.signBytes.ts /\ cur.timestamp \in Times
    BY <2>1, SignStateFields, IsMarkFields
  <2> DEFINE res == IF cur.signBytes = b THEN AtMark(cur, cur.timestamp)
                    ELSE IF onlyDiffersByTimestamp(cur.signBytes, b)
                    THEN AtMark(cur, cur.signBytes.ts)
                    ELSE Failed("ErrConflict")
  <2>3. applyReserve(f, cmd) = [fsm |-> f, res |-> res]
    BY <1>5, ReserveFields DEF applyReserve
  <2>4. CASE cur.signBytes = b \/ onlyDiffersByTimestamp(cur.signBytes, b)
    <3>1. res = AtMark(cur, cur.signBytes.ts)
      BY <2>2, <2>4
    <3>2. onlyDiffersByTimestamp(cur.signBytes, b)
      BY <2>2, <2>4, <1>1 DEF onlyDiffersByTimestamp, SignBytes
    <3>3. res \in applyResult /\ res.timestamp = cur.signBytes.ts
      BY <2>2, <3>1, Zenon DEF AtMark, NoResult, applyResult
    <3>4. \/ res.reuse /\ res.signature # Nil /\ res.signature = cur.signature
          \/ ~res.reuse /\ res.signBytes = cur.signBytes
      BY <2>2, <3>1, Zenon DEF AtMark, NoResult
    <3> HIDE DEF res
    <3>5. QED BY <2>1, <2>3, <3>2, <3>3, <3>4 DEF MarkStep
  <2>5. CASE ~(cur.signBytes = b \/ onlyDiffersByTimestamp(cur.signBytes, b))
    <3>1. res = Failed("ErrConflict")
      BY <2>5
    <3>2. res \in applyResult /\ res.err # Nil
      BY <3>1, FailedIsResult, Zenon DEF Errors
    <3> HIDE DEF res
    <3>3. QED BY <2>3, <3>2 DEF MarkStep
  <2>6. QED BY <2>4, <2>5, Zenon
<1>6. CASE order = 1
  <2> DEFINE new == MarkOf(b, Nil)
             g == [f EXCEPT !.state[b.chain] = new]
             res == [NoResult EXCEPT !.signBytes = b, !.timestamp = b.ts]
  <2>1. applyReserve(f, cmd) = [fsm |-> g, res |-> res]
    <3>1. new = [height |-> cmd.height, round |-> cmd.round, step |-> cmd.step,
                 signBytes |-> cmd.signBytes, signature |-> Nil, timestamp |-> cmd.timestamp]
      BY ReserveFields DEF MarkOf
    <3>2. compareHRS(f.state[cmd.chain], cmd.height, cmd.round, cmd.step) = 1
      BY <1>6, ReserveFields
    <3>3. /\ g = [f EXCEPT !.state[cmd.chain] = new]
          /\ res = [NoResult EXCEPT !.signBytes = cmd.signBytes, !.timestamp = cmd.timestamp]
      BY ReserveFields, Zenon
    <3> HIDE DEF new, g, res
    <3>4. QED BY <3>1, <3>2, <3>3 DEF applyReserve
  <2>2. new \in SignState /\ new # Nil /\ new.signBytes = b
    BY <1>1, MarkOfIsMark, NilIsNoValue DEF IsMark, MarkOf
  <2>3. /\ g \in FSM /\ g.clusterID = f.clusterID
        /\ g.state[b.chain] = new
        /\ \A c \in Chains : c # b.chain => g.state[c] = f.state[c]
    BY <1>1, <2>2 DEF FSM
  <2>4. /\ res \in applyResult /\ res.timestamp = b.ts
        /\ ~res.reuse /\ res.signBytes = b
    BY <1>1, Zenon DEF NoResult, applyResult
  <2>5. \A c \in Chains : MarkStep(cmd, c, f.state[c], g.state[c])
    BY <1>6, <2>3, ReserveFields, Zenon DEF MarkStep
  <2>6. onlyDiffersByTimestamp(b, b)
    BY <1>1 DEF onlyDiffersByTimestamp, SignBytes
  <2> HIDE DEF new, g, res
  <2>7. QED BY <2>1, <2>2, <2>3, <2>4, <2>5, <2>6
<1>7. QED BY <1>3, <1>4, <1>5, <1>6, Zenon

\* applyCommit at most records the first signature of the mark it is for, and an
\* accepted one leaves the mark with the caller's signature.
LEMMA CommitEffect ==
  ASSUME NEW f \in FSM, MarksOK(f), NEW cmd, WellFormed(cmd), cmd.op = "commit"
  PROVE  LET out == applyCommit(f, cmd)
             new == out.fsm.state[cmd.signBytes.chain]
         IN  /\ out.fsm \in FSM
             /\ out.res \in applyResult
             /\ out.fsm.clusterID = f.clusterID
             /\ \A c \in Chains : MarkStep(cmd, c, f.state[c], out.fsm.state[c])
             /\ out.res.err = Nil => new = MarkOf(cmd.signBytes, cmd.signature)
<1> DEFINE b == cmd.signBytes
           sig == cmd.signature
           cur == f.state[b.chain]
           sameHRS == cur.height = b.height /\ cur.round = b.round /\ cur.step = b.step
<1>1. /\ b \in SignBytes /\ b.chain \in Chains
      /\ sig \in Signature /\ sig # Nil /\ sig.over = b
      /\ cmd.chain = b.chain /\ cmd.height = b.height
      /\ cmd.round = b.round /\ cmd.step = b.step
  BY CommitFields, NilIsNoValue DEF SignBytes
<1>2. cur \in SignState \cup {Nil} /\ (cur # Nil => IsMark(b.chain, cur))
  BY <1>1 DEF FSM, MarksOK
<1>3. ASSUME NEW e \in Errors, applyCommit(f, cmd) = [fsm |-> f, res |-> Failed(e)]
      PROVE  LET out == applyCommit(f, cmd)
             IN  /\ out.fsm \in FSM
                 /\ out.res \in applyResult
                 /\ out.fsm.clusterID = f.clusterID
                 /\ \A c \in Chains : MarkStep(cmd, c, f.state[c], out.fsm.state[c])
                 /\ out.res.err # Nil
  BY <1>3, FailedIsResult DEF MarkStep
<1>4. CASE cur = Nil \/ ~sameHRS
  <2>1. applyCommit(f, cmd) = [fsm |-> f, res |-> Failed("stale commit")]
    BY <1>1, <1>4, Zenon DEF applyCommit
  <2>2. QED BY <1>3, <2>1, Zenon DEF Errors
<1>5. CASE cur # Nil /\ sameHRS /\ cur.signBytes # b
  <2>1. applyCommit(f, cmd) = [fsm |-> f, res |-> Failed("sign-bytes mismatch")]
    BY <1>1, <1>5 DEF applyCommit
  <2>2. QED BY <1>3, <2>1, Zenon DEF Errors
<1>6. CASE cur # Nil /\ sameHRS /\ cur.signBytes = b /\ cur.signature \notin {Nil, sig}
  <2>1. applyCommit(f, cmd) = [fsm |-> f, res |-> Failed("signature mismatch")]
    BY <1>1, <1>6, Zenon DEF applyCommit
  <2>2. QED BY <1>3, <2>1, Zenon DEF Errors
<1>7. NoResult \in applyResult
  BY DEF NoResult, applyResult
<1>8. CASE cur # Nil /\ sameHRS /\ cur.signBytes = b /\ cur.signature = sig
  <2>1. applyCommit(f, cmd) = [fsm |-> f, res |-> NoResult]
    BY <1>1, <1>8 DEF applyCommit
  <2>2. cur = MarkOf(b, sig)
    BY <1>2, <1>8 DEF IsMark
  <2>3. QED BY <1>7, <2>1, <2>2 DEF MarkStep
<1>9. CASE cur # Nil /\ sameHRS /\ cur.signBytes = b /\ cur.signature = Nil
  <2> DEFINE new == MarkOf(b, sig)
             g == [f EXCEPT !.state[b.chain] = new]
  <2>1. cur = MarkOf(b, Nil) /\ cur \in SignState
    BY <1>2, <1>9 DEF IsMark
  <2>2. new \in SignState
    BY <1>1, MarkOfIsMark DEF IsMark
  <2>3. [f EXCEPT !.state[b.chain].signature = sig] = g
    BY <1>1, <2>1 DEF FSM, MarkOf
  <2>4. applyCommit(f, cmd) = [fsm |-> g, res |-> NoResult]
    <3> HIDE DEF g
    <3>1. QED BY <1>1, <1>9, <2>3 DEF applyCommit
  <2>5. /\ g \in FSM /\ g.clusterID = f.clusterID
        /\ g.state[b.chain] = new
        /\ \A c \in Chains : c # b.chain => g.state[c] = f.state[c]
    BY <1>1, <2>2 DEF FSM
  <2>6. \A c \in Chains : MarkStep(cmd, c, f.state[c], g.state[c])
    BY <1>9, <2>1, <2>5, CommitFields, Zenon DEF MarkStep
  <2> HIDE DEF new, g
  <2>7. new = MarkOf(cmd.signBytes, cmd.signature)
    BY DEF new
  <2>8. QED BY <1>7, <2>4, <2>5, <2>6, <2>7
<1>10. QED BY <1>4, <1>5, <1>6, <1>8, <1>9

\* applyInitCluster leaves the marks alone and keeps an identity that is set.
LEMMA InitClusterEffect ==
  ASSUME NEW f \in FSM, NEW cmd, WellFormed(cmd), cmd.op = "init_cluster"
  PROVE  LET out == applyInitCluster(f, cmd)
         IN  /\ out.fsm \in FSM
             /\ out.res \in applyResult
             /\ out.fsm.state = f.state
             /\ f.clusterID # Nil => out.fsm.clusterID = f.clusterID
             /\ out.fsm.clusterID # Nil
             /\ out.res.clusterID = out.fsm.clusterID
             /\ out.res.err = Nil
<1>1. cmd.clusterID \in ClusterIDs
  BY DEF WellFormed, Command, ReserveCommand, CommitCommand, InitCommand
<1>2. f.clusterID \in ClusterIDs \cup {Nil}
  BY DEF FSM
<1> DEFINE id == IF f.clusterID = Nil THEN cmd.clusterID ELSE f.clusterID
<1>3. id \in ClusterIDs /\ id # Nil
  BY <1>1, <1>2, NilIsNoValue
<1>4. applyInitCluster(f, cmd) = [fsm |-> [f EXCEPT !.clusterID = id],
                                  res |-> [NoResult EXCEPT !.clusterID = id]]
  BY DEF applyInitCluster
<1>5. f.clusterID # Nil => id = f.clusterID
  OBVIOUS
<1> HIDE DEF id
<1> DEFINE g == [f EXCEPT !.clusterID = id]
           r == [NoResult EXCEPT !.clusterID = id]
<1>6. g \in FSM /\ g.state = f.state /\ g.clusterID = id
  BY <1>3 DEF FSM
<1>7. r \in applyResult /\ r.clusterID = id /\ r.err = Nil
  BY <1>3, Zenon DEF NoResult, applyResult
<1>8. applyInitCluster(f, cmd) = [fsm |-> g, res |-> r]
  BY <1>4
<1> HIDE DEF g, r
<1>9. QED BY <1>3, <1>5, <1>6, <1>7, <1>8

\* Every command takes a machine to a machine, and each of its marks makes a
\* MarkStep.
THEOREM ApplyEffect ==
  ASSUME NEW f \in FSM, MarksOK(f), NEW cmd, WellFormed(cmd)
  PROVE  LET out == Apply(f, cmd)
         IN  /\ out.fsm \in FSM
             /\ out.res \in applyResult
             /\ \A c \in Chains : MarkStep(cmd, c, f.state[c], out.fsm.state[c])
             /\ f.clusterID # Nil => out.fsm.clusterID = f.clusterID
<1>1. CASE cmd.op = "reserve"
  <2>1. Apply(f, cmd) = applyReserve(f, cmd)
    BY <1>1 DEF Apply
  <2>2. QED BY <1>1, <2>1, ReserveEffect
<1>2. CASE cmd.op = "commit"
  <2>1. Apply(f, cmd) = applyCommit(f, cmd)
    BY <1>2 DEF Apply
  <2>2. QED BY <1>2, <2>1, CommitEffect
<1>3. CASE cmd.op = "init_cluster"
  <2>1. Apply(f, cmd) = applyInitCluster(f, cmd)
    BY <1>3 DEF Apply
  <2>2. QED BY <1>3, <2>1, InitClusterEffect DEF MarkStep
<1>4. QED
  BY <1>1, <1>2, <1>3 DEF WellFormed, Command, ReserveCommand, CommitCommand, InitCommand

\* A MarkStep leads to a mark of the chain that follows the old one.
LEMMA MarkStepFollows ==
  ASSUME NEW c \in Chains, NEW old \in SignState \cup {Nil}, old # Nil => IsMark(c, old),
         NEW cmd, WellFormed(cmd), NEW new, MarkStep(cmd, c, old, new)
  PROVE  /\ MarkFollows(old, new)
         /\ new # Nil => IsMark(c, new)
<1>1. CASE new = old
  BY <1>1 DEF MarkFollows
<1>2. CASE /\ cmd.op = "reserve" /\ c = cmd.signBytes.chain
           /\ compareHRS(old, cmd.height, cmd.round, cmd.step) = 1
           /\ new = MarkOf(cmd.signBytes, Nil)
  <2>1. IsMark(c, new)
    BY <1>2, ReserveFields, MarkOfIsMark
  <2>2. /\ new # Nil /\ new.height = cmd.height /\ new.round = cmd.round
        /\ new.step = cmd.step
    BY <1>2, <2>1, ReserveFields, NilIsNoValue DEF IsMark, MarkOf
  <2>3. cmd.height \in Heights /\ cmd.round \in Rounds /\ cmd.step \in Steps
    BY <1>2, ReserveFields DEF SignBytes
  <2>4. old # Nil => Below(old, cmd)
    BY <1>2, <2>3, CompareIsLexicographic
  <2>5. QED BY <2>1, <2>2, <2>4 DEF MarkFollows, Below
<1>3. CASE /\ cmd.op = "commit" /\ c = cmd.signBytes.chain
           /\ old = MarkOf(cmd.signBytes, Nil)
           /\ new = MarkOf(cmd.signBytes, cmd.signature)
  <2>1. IsMark(c, new)
    BY <1>3, CommitFields, MarkOfIsMark
  <2>2. old \in SignState /\ new \in SignState /\ new # Nil
    BY <1>3, <2>1, CommitFields, MarkOfIsMark, NilIsNoValue DEF IsMark
  <2>3. /\ new.height = old.height /\ new.round = old.round /\ new.step = old.step
        /\ new.signBytes = old.signBytes /\ old.signature = Nil
    BY <1>3 DEF MarkOf
  <2>4. QED BY <2>1, <2>2, <2>3 DEF MarkFollows
<1>4. QED BY <1>1, <1>2, <1>3 DEF MarkStep

\* Reading back a snapshot gives the machine it was taken of.
LEMMA SnapshotRoundTrip ==
  ASSUME NEW f \in FSM
  PROVE  /\ Decode(Snapshot(f)) = f
         /\ f.clusterID = Nil => Decode(LegacySnapshot(f)) = f
BY Zenon DEF Decode, Snapshot, LegacySnapshot, Marked, FSM
-----------------------------------------------------------------------------
(* The store. *)

\* The commands that are on their way or in the log.
Entries == pending \cup {log[i] : i \in 1..Len(log)}

\* Every command on its way or in the log is well formed, and the numbers of
\* the entries to come are not taken.
EntriesOK ==
  /\ 0 < nextID /\ \A c \in Callers : future[c].id < nextID
  /\ \A e \in pending : WellFormed(e.cmd) /\ e.id < nextID
  /\ \A i \in 1..Len(log) : WellFormed(log[i].cmd) /\ log[i].id < nextID

\* The history is what the log produces.
HistoryOK ==
  /\ \A i \in 1..Len(log) : states[i] = Apply(states[i - 1], log[i].cmd).fsm
  /\ \A i \in 0..Len(log) : MarksOK(states[i])

\* A snapshot holds the machine at the index it covers.
SnapshotsOK == \A n \in Replicas : Decode(snap[n].data) = states[snap[n].index]

\* The answer of a future is the machine's, at the command's place in the log.
AnswersFromLog ==
  \A c \in Callers : future[c].st = "ok" =>
    \E i \in 1..Len(log) : /\ log[i].id = future[c].id
                           /\ future[c].res = Apply(states[i - 1], log[i].cmd).res

\* The identity of the cluster, once set, stays.
IdentityKept ==
  \A i, j \in 0..Len(log) : i <= j /\ states[i].clusterID # Nil =>
    states[j].clusterID = states[i].clusterID

StoreInv == /\ StoreTypeOK
            /\ EntriesOK
            /\ HistoryOK
            /\ ReplicasFollowLog
            /\ SnapshotsOK
            /\ MarksOnlyAdvance
            /\ IdentityKept
            /\ AnswersFromLog

\* Nothing of the history is lost or rewritten.
HistoryGrows ==
  /\ Len(log) <= Len(log')
  /\ \A i \in 1..Len(log) : log'[i] = log[i]
  /\ \A i \in 0..Len(log) : states'[i] = states[i]
-----------------------------------------------------------------------------
\* The history of an empty log.
LEMMA StoreInitInv ==
  ASSUME StoreInit
  PROVE  StoreInv
<1>1. PICK marks \in [Chains -> LegacyMarks \cup {Nil}] :
        /\ \A c \in Chains : marks[c] # Nil => IsMark(c, marks[c])
        /\ states = [i \in {0} |-> [newFSM EXCEPT !.state = marks]]
        /\ fsm = [n \in Replicas |->
                    Restore(newFSM, LegacySnapshot([newFSM EXCEPT !.state = marks]))]
        /\ snap = [n \in Replicas |->
                    [index |-> 0, data |-> LegacySnapshot([newFSM EXCEPT !.state = marks])]]
  BY Zenon DEF StoreInit
<1> DEFINE base == [newFSM EXCEPT !.state = marks]
<1>2. base \in FSM /\ base.clusterID = Nil /\ base.state = marks
  BY StoreAssumption DEF FSM, newFSM
<1>3. Decode(LegacySnapshot(base)) = base
  BY <1>2, SnapshotRoundTrip, Zenon
<1>4. newFSM.clusterID = Nil
  BY DEF newFSM
<1>5. Restore(newFSM, LegacySnapshot(base)) = base
  BY <1>3, <1>4 DEF Restore, RestoreAccepts
<1>6. /\ states = [i \in {0} |-> base]
      /\ fsm = [n \in Replicas |-> base]
      /\ snap = [n \in Replicas |-> [index |-> 0, data |-> LegacySnapshot(base)]]
      /\ MarksOK(base)
  BY <1>1, <1>2, <1>5 DEF MarksOK
<1> HIDE DEF base
<1>7. /\ log = <<>> /\ Len(log) = 0 /\ 0..Len(log) = {0} /\ 1..Len(log) = {}
      /\ pending = {} /\ nextID = 1 /\ faults = 0
      /\ applied = [n \in Replicas |-> 0]
      /\ role = [n \in Replicas |-> "follower"]
      /\ future = [c \in Callers |-> NoFuture]
  BY DEF StoreInit
<1>8. NoFuture \in Future /\ NoFuture.st # "ok" /\ NoFuture.id = 0
  BY DEF NoFuture, Future
<1>9. StoreTypeOK
  BY <1>2, <1>6, <1>7, <1>8 DEF StoreTypeOK
<1>10. EntriesOK /\ HistoryOK
  BY <1>6, <1>7, <1>8 DEF EntriesOK, HistoryOK
<1>11. ReplicasFollowLog /\ SnapshotsOK
  BY <1>3, <1>6, <1>7 DEF ReplicasFollowLog, SnapshotsOK
<1>12. MarksOnlyAdvance
  <2>1. \A c \in Chains : MarkFollows(base.state[c], base.state[c])
    BY <1>2, MarkFollowsReflexive DEF FSM
  <2>2. QED BY <1>6, <1>7, <2>1, Zenon DEF MarksOnlyAdvance
<1>13. IdentityKept
  BY <1>6, <1>7 DEF IdentityKept
<1>14. AnswersFromLog
  BY <1>7, <1>8 DEF AnswersFromLog
<1>15. QED BY <1>9, <1>10, <1>11, <1>12, <1>13, <1>14 DEF StoreInv

\* What the history of a store in its invariant is made of.
LEMMA HistoryTypes ==
  ASSUME StoreInv
  PROVE  /\ Len(log) \in Nat
         /\ \A i \in 0..Len(log) : /\ states[i] \in FSM /\ MarksOK(states[i])
                                   /\ \A c \in Chains : states[i].state[c] \in SignState \cup {Nil}
         /\ Committed \in FSM /\ MarksOK(Committed)
<1>1. Len(log) \in Nat
  BY DEF StoreInv, StoreTypeOK
<1>2. \A i \in 0..Len(log) : states[i] \in FSM /\ MarksOK(states[i])
  BY DEF StoreInv, StoreTypeOK, HistoryOK
<1>3. \A i \in 0..Len(log) : \A c \in Chains : states[i].state[c] \in SignState \cup {Nil}
  BY <1>2 DEF FSM
<1>4. Len(log) \in 0..Len(log)
  BY <1>1
<1>5. QED BY <1>1, <1>2, <1>3, <1>4 DEF Committed

\* Committing an entry appends one machine to the history, whose marks follow
\* all earlier ones.
LEMMA AppendCommittedInv ==
  ASSUME StoreInv, NEW e \in pending, AppendCommitted(e)
  PROVE  StoreInv' /\ HistoryGrows
<1> DEFINE N == Len(log)
           out == Apply(Committed, e.cmd)
<1>1. /\ N \in Nat /\ e \in Entry /\ WellFormed(e.cmd) /\ e.id < nextID
      /\ Committed \in FSM /\ MarksOK(Committed) /\ Committed = states[N]
  BY HistoryTypes, Zenon DEF StoreInv, StoreTypeOK, EntriesOK, Committed
<1>2. /\ log' = Append(log, e) /\ Len(log') = N + 1 /\ log' \in Seq(Entry)
      /\ \A i \in 1..N : log'[i] = log[i]
      /\ log'[N + 1] = e
  BY <1>1 DEF AppendCommitted, StoreInv, StoreTypeOK
<1>3. /\ \A i \in 0..N : states'[i] = states[i]
      /\ states'[N + 1] = out.fsm
      /\ DOMAIN states' = 0..N + 1
      /\ states' = [i \in 0..N + 1 |-> states'[i]]
  BY <1>1 DEF AppendCommitted
<1>4. /\ out.fsm \in FSM
      /\ \A c \in Chains : MarkStep(e.cmd, c, Committed.state[c], out.fsm.state[c])
      /\ Committed.clusterID # Nil => out.fsm.clusterID = Committed.clusterID
  BY <1>1, ApplyEffect
<1>5. \A c \in Chains : /\ Committed.state[c] \in SignState \cup {Nil}
                        /\ out.fsm.state[c] \in SignState \cup {Nil}
  BY <1>1, <1>4, Zenon DEF FSM
<1>6. \A c \in Chains : /\ MarkFollows(Committed.state[c], out.fsm.state[c])
                        /\ out.fsm.state[c] # Nil => IsMark(c, out.fsm.state[c])
  <2>1. \A c \in Chains : Committed.state[c] # Nil => IsMark(c, Committed.state[c])
    BY <1>1 DEF MarksOK
  <2>2. QED BY <1>1, <1>4, <1>5, <2>1, MarkStepFollows, Zenon
<1> HIDE DEF out, N
<1>7. HistoryGrows
  BY <1>1, <1>2, <1>3 DEF HistoryGrows, N
<1>8. \A i \in 0..N + 1 : states'[i] \in FSM /\ MarksOK(states'[i])
  <2>1. \A i \in 0..N : states'[i] \in FSM /\ MarksOK(states'[i])
    BY <1>3, HistoryTypes DEF N
  <2>2. MarksOK(out.fsm)
    BY <1>6 DEF MarksOK
  <2>3. QED BY <1>1, <1>3, <1>4, <2>1, <2>2
<1>9. StoreTypeOK'
  <2>1. states' \in [0..Len(log') -> FSM]
    BY <1>2, <1>3, <1>8
  <2>2. /\ applied' \in [Replicas -> 0..Len(log')]
        /\ \A n \in Replicas : snap'[n].index \in 0..Len(log')
    <3>1. 0..N \subseteq 0..N + 1
      BY <1>1
    <3>2. QED BY <1>2, <3>1 DEF AppendCommitted, StoreInv, StoreTypeOK, N
  <2>3. QED BY <1>2, <2>1, <2>2 DEF AppendCommitted, StoreInv, StoreTypeOK
<1>10. EntriesOK'
  <2>1. \A i \in 1..N + 1 : WellFormed(log'[i].cmd) /\ log'[i].id < nextID
    BY <1>1, <1>2 DEF StoreInv, EntriesOK, N
  <2>2. QED BY <1>2, <2>1 DEF AppendCommitted, StoreInv, EntriesOK
<1>11. HistoryOK'
  <2>1. \A i \in 1..N + 1 : states'[i] = Apply(states'[i - 1], log'[i].cmd).fsm
    <3>1. ASSUME NEW i \in 1..N
          PROVE  states'[i] = Apply(states'[i - 1], log'[i].cmd).fsm
      <4>1. i \in 0..N /\ i - 1 \in 0..N
        BY <1>1
      <4>2. QED BY <1>2, <1>3, <4>1 DEF StoreInv, HistoryOK, N
    <3>2. states'[N + 1] = Apply(states'[N], log'[N + 1].cmd).fsm
      BY <1>1, <1>2, <1>3 DEF out
    <3>3. QED BY <1>1, <3>1, <3>2
  <2>2. QED BY <1>2, <1>8, <2>1 DEF HistoryOK
<1>12. ReplicasFollowLog'
  BY <1>3 DEF AppendCommitted, StoreInv, StoreTypeOK, ReplicasFollowLog, N
<1>13. SnapshotsOK'
  BY <1>3 DEF AppendCommitted, StoreInv, StoreTypeOK, SnapshotsOK, N
<1>14. MarksOnlyAdvance'
  <2>1. SUFFICES ASSUME NEW i \in 0..N + 1, NEW j \in 0..N + 1, i <= j, NEW c \in Chains
                 PROVE  MarkFollows(states'[i].state[c], states'[j].state[c])
    BY <1>2 DEF MarksOnlyAdvance
  <2>2. CASE j \in 0..N
    BY <1>1, <1>3, <2>1, <2>2 DEF StoreInv, MarksOnlyAdvance, N
  <2>3. CASE j = N + 1 /\ i \in 0..N
    <3>1. MarkFollows(states[i].state[c], Committed.state[c])
      BY <1>1, <2>3 DEF StoreInv, MarksOnlyAdvance, N
    <3>2. states[i].state[c] \in SignState \cup {Nil}
      BY <2>3, HistoryTypes DEF N
    <3>3. MarkFollows(states[i].state[c], out.fsm.state[c])
      BY <1>5, <1>6, <3>1, <3>2, MarkFollowsTransitive
    <3>4. QED BY <1>3, <2>3, <3>3
  <2>4. CASE i = N + 1 /\ j = N + 1
    BY <1>3, <1>5, <2>4, MarkFollowsReflexive
  <2>5. QED BY <1>1, <2>1, <2>2, <2>3, <2>4
<1>15. IdentityKept'
  <2>1. SUFFICES ASSUME NEW i \in 0..N + 1, NEW j \in 0..N + 1, i <= j,
                        states'[i].clusterID # Nil
                 PROVE  states'[j].clusterID = states'[i].clusterID
    BY <1>2 DEF IdentityKept
  <2>2. CASE j \in 0..N
    BY <1>1, <1>3, <2>1, <2>2 DEF StoreInv, IdentityKept, N
  <2>3. CASE j = N + 1 /\ i \in 0..N
    <3>1. Committed.clusterID = states[i].clusterID
      BY <1>1, <1>3, <2>1, <2>3 DEF StoreInv, IdentityKept, N
    <3>2. QED BY <1>3, <1>4, <2>1, <2>3, <3>1
  <2>4. CASE i = j
    BY <2>4
  <2>5. QED BY <1>1, <2>1, <2>2, <2>3, <2>4
<1>16. AnswersFromLog'
  <2>1. SUFFICES ASSUME NEW c \in Callers, future[c].st = "ok"
                 PROVE  \E i \in 1..N + 1 :
                          /\ log'[i].id = future[c].id
                          /\ future[c].res = Apply(states'[i - 1], log'[i].cmd).res
    BY <1>2, Zenon DEF AppendCommitted, AnswersFromLog
  <2>2. PICK i \in 1..N : /\ log[i].id = future[c].id
                          /\ future[c].res = Apply(states[i - 1], log[i].cmd).res
    BY <2>1 DEF StoreInv, AnswersFromLog, N
  <2>3. i \in 1..N + 1 /\ i - 1 \in 0..N
    BY <1>1
  <2>4. QED BY <1>2, <1>3, <2>2, <2>3, Zenon
<1>17. QED
  BY <1>7, <1>9, <1>10, <1>11, <1>12, <1>13, <1>14, <1>15, <1>16 DEF StoreInv

\* Steps that commit nothing have only the replicas and the callers to answer for.
LEMMA HistoryStays ==
  ASSUME StoreInv, UNCHANGED <<log, states>>,
         StoreTypeOK', EntriesOK', ReplicasFollowLog', SnapshotsOK', AnswersFromLog'
  PROVE  StoreInv' /\ HistoryGrows
<1>1. HistoryOK' /\ MarksOnlyAdvance' /\ IdentityKept'
  BY DEF StoreInv, HistoryOK, MarksOnlyAdvance, IdentityKept
<1>2. HistoryGrows
  BY DEF HistoryGrows, StoreInv, StoreTypeOK
<1>3. QED BY <1>1, <1>2 DEF StoreInv

\* Handing a well-formed command to raft.
LEMMA ApplyCallInv ==
  ASSUME StoreInv, NEW c \in Callers, NEW n \in Replicas, NEW cmd, WellFormed(cmd),
         apply(c, n, cmd)
  PROVE  StoreInv' /\ HistoryGrows
<1> DEFINE e == [id |-> nextID, cmd |-> cmd]
           fut == [st |-> "wait", node |-> n, id |-> nextID, res |-> Nil]
<1>1. /\ pending' = pending \cup {e} /\ nextID' = nextID + 1
      /\ future' = [future EXCEPT ![c] = fut]
      /\ UNCHANGED <<log, states, applied, fsm, role, snap, faults>>
  BY DEF apply
<1>2. e \in Entry /\ e.id = nextID /\ e.cmd = cmd
  BY DEF Entry, WellFormed, StoreInv, StoreTypeOK
<1>3. fut \in Future /\ fut.st # "ok" /\ fut.id = nextID
  BY DEF Future, StoreInv, StoreTypeOK
<1> HIDE DEF e, fut
<1>4. StoreTypeOK'
  BY <1>1, <1>2, <1>3 DEF StoreInv, StoreTypeOK
<1>5. EntriesOK'
  <2>1. \A d \in pending \cup {e} : WellFormed(d.cmd) /\ d.id < nextID + 1
    <3>1. \A d \in pending : d.id \in Nat
      BY DEF StoreInv, StoreTypeOK, Entry
    <3>2. QED BY <1>2, <3>1 DEF StoreInv, StoreTypeOK, EntriesOK
  <2>2. \A i \in 1..Len(log) : WellFormed(log[i].cmd) /\ log[i].id < nextID + 1
    <3>1. \A i \in 1..Len(log) : log[i].id \in Nat
      <4>1. \A i \in 1..Len(log) : log[i] \in Entry
        BY DEF StoreInv, StoreTypeOK
      <4>2. QED BY <4>1 DEF Entry
    <3>2. QED BY <3>1 DEF StoreInv, StoreTypeOK, EntriesOK
  <2>3. 0 < nextID + 1 /\ \A d \in Callers : future'[d].id < nextID + 1
    <3>1. nextID \in Nat /\ \A d \in Callers : future[d] \in Future
      BY DEF StoreInv, StoreTypeOK
    <3>2. \A d \in Callers : future[d].id \in Nat
      BY <3>1 DEF Future
    <3>3. \A d \in Callers : future'[d].id \in {nextID, future[d].id}
      BY <1>1, <1>3 DEF StoreInv, StoreTypeOK
    <3>4. QED BY <3>1, <3>2, <3>3 DEF StoreInv, EntriesOK
  <2>4. QED BY <1>1, <2>1, <2>2, <2>3 DEF EntriesOK
<1>6. ReplicasFollowLog' /\ SnapshotsOK'
  BY <1>1 DEF StoreInv, ReplicasFollowLog, SnapshotsOK
<1>7. AnswersFromLog'
  BY <1>1, <1>3 DEF StoreInv, StoreTypeOK, AnswersFromLog
<1>8. QED BY <1>1, <1>4, <1>5, <1>6, <1>7, HistoryStays

\* A call that touches no more than the caller's future, and at most resets it.
LEMMA CallerInv ==
  ASSUME StoreInv, faults' \in Nat, NEW c \in Callers,
         UNCHANGED <<log, states, pending, nextID, applied, fsm, role, snap>>,
         future' = future \/ future' = [future EXCEPT ![c] = NoFuture]
  PROVE  StoreInv' /\ HistoryGrows
<1>1. NoFuture \in Future /\ NoFuture.st # "ok" /\ NoFuture.id = 0
  BY DEF NoFuture, Future
<1>2. \A d \in Callers : future'[d] = future[d] \/ future'[d] = NoFuture
  BY DEF StoreInv, StoreTypeOK
<1>3. EntriesOK'
  BY <1>1, <1>2 DEF StoreInv, EntriesOK
<1>4. StoreTypeOK' /\ ReplicasFollowLog' /\ SnapshotsOK'
  <2>1. future' \in [Callers -> Future]
    BY <1>1 DEF StoreInv, StoreTypeOK
  <2>2. QED BY <2>1 DEF StoreInv, StoreTypeOK, ReplicasFollowLog, SnapshotsOK
<1>5. AnswersFromLog'
  BY <1>1, <1>2 DEF StoreInv, AnswersFromLog
<1>6. QED BY <1>3, <1>4, <1>5, HistoryStays

\* A replica that applies its next entry gets the next machine of the history,
\* and a caller gets the answer of the entry it waits for.
LEMMA ApplyEntryInv ==
  ASSUME StoreInv, NEW n \in Replicas, ApplyEntry(n)
  PROVE  StoreInv' /\ HistoryGrows
<1> DEFINE k == applied[n] + 1
           out == Apply(fsm[n], log[k].cmd)
<1>1. /\ applied[n] \in Nat /\ k \in 1..Len(log) /\ k - 1 = applied[n]
      /\ k \in 0..Len(log) /\ Len(log) \in Nat
  <2>1. applied[n] < Len(log)
    BY Zenon DEF ApplyEntry
  <2>2. Len(log) \in Nat /\ applied[n] \in 0..Len(log)
    BY DEF StoreInv, StoreTypeOK
  <2>3. QED BY <2>1, <2>2
<1>2. fsm[n] = states[k - 1] /\ out.fsm = states[k]
  BY <1>1 DEF StoreInv, ReplicasFollowLog, HistoryOK
<1>3. states[k] \in FSM /\ out.res \in applyResult
  <2>1. k - 1 \in 0..Len(log)
    BY <1>1
  <2>2. fsm[n] \in FSM /\ MarksOK(fsm[n]) /\ WellFormed(log[k].cmd)
    BY <1>1, <1>2, <2>1, HistoryTypes DEF StoreInv, EntriesOK
  <2>3. QED BY <1>1, <2>2, ApplyEffect, HistoryTypes
<1>4. /\ fsm' = [fsm EXCEPT ![n] = states[k]]
      /\ applied' = [applied EXCEPT ![n] = k]
      /\ future' = [c \in Callers |->
                      IF c \in WaitingAt(n) /\ future[c].id = log[k].id
                      THEN [future[c] EXCEPT !.st = "ok", !.res = out.res]
                      ELSE future[c]]
      /\ UNCHANGED <<log, states, pending, nextID, role, snap, faults>>
  BY <1>2, Zenon DEF ApplyEntry
<1>5. \A c \in Callers :
        LET g == [future[c] EXCEPT !.st = "ok", !.res = out.res]
        IN  g \in Future /\ g.id = future[c].id /\ g.res = out.res
  BY <1>3, Zenon DEF StoreInv, StoreTypeOK, Future
<1>6. \A c \in Callers :
        /\ future'[c] \in Future
        /\ future'[c].id = future[c].id
        /\ \/ future'[c] = future[c]
           \/ future'[c].id = log[k].id /\ future'[c].res = Apply(states[k - 1], log[k].cmd).res
  <2>1. \A c \in Callers : future[c] \in Future
    BY DEF StoreInv, StoreTypeOK
  <2>2. out.res = Apply(states[k - 1], log[k].cmd).res
    BY <1>2
  <2> HIDE DEF out, k
  <2>3. QED BY <1>4, <1>5, <2>1, <2>2, Zenon
<1> HIDE DEF out, k
<1>7. StoreTypeOK'
  <2>1. future' \in [Callers -> Future]
    BY <1>4, <1>6, Zenon
  <2>2. QED BY <1>1, <1>3, <1>4, <2>1, Zenon DEF StoreInv, StoreTypeOK
<1>8. EntriesOK' /\ SnapshotsOK'
  BY <1>4, <1>6, Zenon DEF StoreInv, EntriesOK, SnapshotsOK
<1>9. ReplicasFollowLog'
  BY <1>1, <1>4, Zenon DEF StoreInv, StoreTypeOK, ReplicasFollowLog
<1>10. AnswersFromLog'
  <2>1. SUFFICES ASSUME NEW c \in Callers, future'[c].st = "ok"
                 PROVE  \E i \in 1..Len(log) :
                          /\ log[i].id = future'[c].id
                          /\ future'[c].res = Apply(states[i - 1], log[i].cmd).res
    <3>1. log' = log /\ states' = states
      BY <1>4, Zenon
    <3>2. QED BY <3>1 DEF AnswersFromLog
  <2>2. CASE future'[c] = future[c]
    BY <2>1, <2>2 DEF StoreInv, AnswersFromLog
  <2>3. CASE future'[c].id = log[k].id /\ future'[c].res = Apply(states[k - 1], log[k].cmd).res
    BY <1>1, <2>3
  <2>4. QED BY <1>6, <2>2, <2>3
<1>11. QED BY <1>4, <1>7, <1>8, <1>9, <1>10, HistoryStays, Zenon

\* Elections change no machine and at most fail futures.
LEMMA ElectionInv ==
  ASSUME StoreInv, NEW n \in Replicas, BecomeLeader(n) \/ StepDown(n)
  PROVE  StoreInv' /\ HistoryGrows
<1>1. /\ UNCHANGED <<log, states, pending, nextID, applied, fsm, snap>>
      /\ role' \in [Replicas -> {"leader", "follower"}] /\ faults' \in Nat
  <2>1. role \in [Replicas -> {"leader", "follower"}] /\ faults \in Nat
    BY DEF StoreInv, StoreTypeOK
  <2>2. CASE BecomeLeader(n)
    BY <2>1, <2>2 DEF BecomeLeader
  <2>3. CASE StepDown(n)
    BY <2>1, <2>3 DEF StepDown, Fault
  <2>4. QED BY <2>2, <2>3
<1>2. future' \in [Callers -> Future]
  <2>1. \A c \in Callers : /\ future[c] \in Future
                           /\ [future[c] EXCEPT !.st = "err"] \in Future
    <3>1. \A c \in Callers : future[c] \in Future
      BY DEF StoreInv, StoreTypeOK
    <3>2. QED BY <3>1 DEF Future
  <2>2. CASE future' = future
    BY <2>2 DEF StoreInv, StoreTypeOK
  <2>3. CASE StepDown(n)
    <3>1. PICK lost : future' = [c \in Callers |->
                          IF c \in lost THEN [future[c] EXCEPT !.st = "err"] ELSE future[c]]
      BY <2>3 DEF StepDown
    <3>2. QED BY <2>1, <3>1
  <2>4. QED BY <2>2, <2>3 DEF BecomeLeader
<1>3. \A c \in Callers : /\ future'[c].id = future[c].id
                         /\ future'[c].st = "ok" => future'[c] = future[c]
  <2>1. CASE future' = future
    BY <2>1
  <2>2. CASE StepDown(n)
    <3>1. PICK lost : future' = [c \in Callers |->
                          IF c \in lost THEN [future[c] EXCEPT !.st = "err"] ELSE future[c]]
      BY <2>2 DEF StepDown
    <3>2. \A c \in Callers : /\ [future[c] EXCEPT !.st = "err"].st = "err"
                             /\ [future[c] EXCEPT !.st = "err"].id = future[c].id
      BY DEF StoreInv, StoreTypeOK, Future
    <3>3. QED BY <3>1, <3>2
  <2>3. QED BY <2>1, <2>2 DEF BecomeLeader
<1>4. StoreTypeOK' /\ EntriesOK' /\ ReplicasFollowLog' /\ SnapshotsOK'
  BY <1>1, <1>2, <1>3, Zenon DEF StoreInv, StoreTypeOK, EntriesOK, ReplicasFollowLog, SnapshotsOK
<1>5. AnswersFromLog'
  BY <1>1, <1>3 DEF StoreInv, AnswersFromLog
<1>6. QED BY <1>1, <1>4, <1>5, HistoryStays

\* A snapshot of a replica is one of the history.
LEMMA TakeSnapshotInv ==
  ASSUME StoreInv, NEW n \in Replicas, TakeSnapshot(n)
  PROVE  StoreInv' /\ HistoryGrows
<1> DEFINE s == [index |-> applied[n], data |-> Snapshot(fsm[n])]
<1>1. /\ snap' = [snap EXCEPT ![n] = s]
      /\ UNCHANGED <<log, states, pending, nextID, applied, fsm, role, future, faults>>
  BY DEF TakeSnapshot
<1>2. Decode(Snapshot(fsm[n])) = fsm[n]
  BY SnapshotRoundTrip DEF StoreInv, StoreTypeOK
<1>3. s.index \in 0..Len(log) /\ Decode(s.data) = states[s.index]
  BY <1>2 DEF StoreInv, StoreTypeOK, ReplicasFollowLog
<1> HIDE DEF s
<1>4. StoreTypeOK' /\ EntriesOK' /\ ReplicasFollowLog' /\ AnswersFromLog'
  BY <1>1, <1>3, Zenon DEF StoreInv, StoreTypeOK, EntriesOK, ReplicasFollowLog, AnswersFromLog
<1>5. SnapshotsOK'
  BY <1>1, <1>3 DEF StoreInv, StoreTypeOK, SnapshotsOK
<1>6. QED BY <1>1, <1>4, <1>5, HistoryStays

\* A replica that takes a snapshot over jumps along the history.
LEMMA InstallSnapshotInv ==
  ASSUME StoreInv, NEW n \in Replicas, NEW m \in Replicas, InstallSnapshot(n, m)
  PROVE  StoreInv' /\ HistoryGrows
<1>1. /\ fsm' = [fsm EXCEPT ![n] = Decode(snap[m].data)]
      /\ applied' = [applied EXCEPT ![n] = snap[m].index]
      /\ snap' = [snap EXCEPT ![n] = snap[m]]
      /\ UNCHANGED <<log, states, pending, nextID, role, future, faults>>
  BY DEF InstallSnapshot, Restore
<1>2. /\ snap[m].index \in 0..Len(log) /\ Decode(snap[m].data) = states[snap[m].index]
      /\ Decode(snap[m].data) \in FSM
  BY HistoryTypes DEF StoreInv, StoreTypeOK, SnapshotsOK
<1>3. StoreTypeOK' /\ EntriesOK' /\ AnswersFromLog'
  BY <1>1, <1>2 DEF StoreInv, StoreTypeOK, EntriesOK, AnswersFromLog
<1>4. ReplicasFollowLog' /\ SnapshotsOK'
  BY <1>1, <1>2 DEF StoreInv, StoreTypeOK, ReplicasFollowLog, SnapshotsOK
<1>5. QED BY <1>1, <1>3, <1>4, HistoryStays

\* A replica that restarts is back at the newest machine it has on disk.
LEMMA RestartInv ==
  ASSUME StoreInv, NEW n \in Replicas, Restart(n)
  PROVE  StoreInv' /\ HistoryGrows
<1>1. newFSM.clusterID = Nil
  BY DEF newFSM
<1>2. /\ fsm' = [fsm EXCEPT ![n] = Decode(snap[n].data)]
      /\ applied' = [applied EXCEPT ![n] = snap[n].index]
      /\ role' = [role EXCEPT ![n] = "follower"]
      /\ future' = [c \in Callers |-> IF future[c].node = n THEN NoFuture ELSE future[c]]
      /\ UNCHANGED <<log, states, pending, nextID, snap>>
  BY <1>1, Zenon DEF Restart, Restore, RestoreAccepts
<1>3. /\ snap[n].index \in 0..Len(log) /\ Decode(snap[n].data) = states[snap[n].index]
      /\ Decode(snap[n].data) \in FSM /\ faults' \in Nat
  <2>1. snap[n].index \in 0..Len(log) /\ Decode(snap[n].data) = states[snap[n].index]
    BY DEF StoreInv, StoreTypeOK, SnapshotsOK
  <2>2. faults \in Nat /\ faults' = faults + 1
    BY DEF StoreInv, StoreTypeOK, Restart, Fault
  <2>3. QED BY <2>1, <2>2, HistoryTypes
<1>4. NoFuture \in Future /\ NoFuture.st # "ok" /\ NoFuture.id = 0
  BY DEF NoFuture, Future
<1>5. /\ future' \in [Callers -> Future]
      /\ \A c \in Callers : /\ future'[c].id \in {0, future[c].id}
                            /\ future'[c].st = "ok" => future'[c] = future[c]
  BY <1>2, <1>4 DEF StoreInv, StoreTypeOK
<1>6. StoreTypeOK' /\ EntriesOK'
  BY <1>2, <1>3, <1>5, Zenon DEF StoreInv, StoreTypeOK, EntriesOK
<1>7. ReplicasFollowLog' /\ SnapshotsOK'
  BY <1>2, <1>3 DEF StoreInv, StoreTypeOK, ReplicasFollowLog, SnapshotsOK
<1>8. AnswersFromLog'
  <2>1. log' = log /\ states' = states
    BY <1>2
  <2>2. QED BY <1>5, <2>1 DEF StoreInv, AnswersFromLog
<1>9. QED BY <1>2, <1>6, <1>7, <1>8, HistoryStays, Zenon

\* A step that does not touch the store.
LEMMA StoreStutters ==
  ASSUME StoreInv, UNCHANGED storeVars
  PROVE  StoreInv' /\ HistoryGrows
<1>1. StoreTypeOK' /\ EntriesOK'
  BY Zenon DEF storeVars, StoreInv, StoreTypeOK, EntriesOK
<1>2. ReplicasFollowLog' /\ SnapshotsOK' /\ AnswersFromLog'
  BY DEF storeVars, StoreInv, ReplicasFollowLog, SnapshotsOK, AnswersFromLog
<1>3. QED BY <1>1, <1>2, HistoryStays DEF storeVars

\* Whatever raft does keeps the invariant.
THEOREM RaftStepInv ==
  ASSUME StoreInv, RaftStep
  PROVE  StoreInv' /\ HistoryGrows
BY AppendCommittedInv, ApplyEntryInv, ElectionInv, TakeSnapshotInv, InstallSnapshotInv
   DEF RaftStep, CommitEntry

\* fsm.Restore accepts every snapshot raft may send to a lagging replica.
THEOREM SnapshotsAccepted ==
  ASSUME StoreInv
  PROVE  OwnSnapshotsAccepted
<1>1. SUFFICES ASSUME NEW n \in Replicas, NEW m \in Replicas, snap[m].index >= applied[n],
                      fsm[n].clusterID # Nil
               PROVE  Decode(snap[m].data).clusterID = fsm[n].clusterID
  BY DEF OwnSnapshotsAccepted, RestoreAccepts
<1>2. /\ applied[n] \in 0..Len(log) /\ snap[m].index \in 0..Len(log)
      /\ fsm[n] = states[applied[n]]
      /\ Decode(snap[m].data) = states[snap[m].index]
  BY DEF StoreInv, StoreTypeOK, ReplicasFollowLog, SnapshotsOK
<1>3. Len(log) \in Nat
  BY HistoryTypes
<1>4. applied[n] <= snap[m].index
  BY <1>1, <1>2, <1>3
<1>5. IdentityKept
  BY DEF StoreInv
<1>6. QED BY <1>1, <1>2, <1>4, <1>5 DEF IdentityKept
=============================================================================
