-------------------------- MODULE StoreStartProofs --------------------------
(* How a store comes up.  One raft instance per directory, and one bootstrap: *)
(* for any number of processes that open and close it, fail on the way or     *)
(* die.  One identity for the cluster: for any replicas and any bounds.       *)
EXTENDS StoreOpen, ClusterInit, RaftStoreProofs

(* The store of one directory. *)

\* The steps of an open and of a close during which the lock of raft.db, the
\* port and a raft instance are held.
WithPort == {"raft", "bootstrap", "open", "closeRaft", "closeTransport"}
WithBolt == WithPort \cup {"state", "resolve", "transport", "closeBolt"}
WithRaft == {"bootstrap", "open", "closeRaft"}

\* What an open knows of itself: the instance runs between NewRaft and
\* ShutdownRaft, and the options are good once they were checked.
SoundStore(s) ==
  /\ s.raft <=> s.pc \in WithRaft
  /\ s.pc # "off" => s.cfg \in Options
  /\ s.pc \notin {"off", "check"} => (s.cfg.bootstrap => BootstrapOk(s.cfg))
  /\ s.pc = "bootstrap" => s.cfg.bootstrap

OpenInv ==
  /\ TypeOK
  /\ \A p \in Procs : /\ SoundStore(proc[p])
                      /\ boltLock = p <=> proc[p].pc \in WithBolt
                      /\ port = p <=> proc[p].pc \in WithPort
  /\ dir # {} => Self \in dir

\* Who has a resource after a step of p: p itself, from nobody, or whoever had it.
HandedOver(old, new, p, holds) ==
  IF holds THEN new = p /\ old \in {p, None} ELSE new = IF old = p THEN None ELSE old
-----------------------------------------------------------------------------
\* A step of one process, to a sound store that holds what its step calls for,
\* keeps the invariant.
LEMMA ProcStep ==
  ASSUME OpenInv, NEW p \in Procs, NEW s \in Store, SoundStore(s),
         proc' = [proc EXCEPT ![p] = s],
         HandedOver(boltLock, boltLock', p, s.pc \in WithBolt),
         HandedOver(port, port', p, s.pc \in WithPort),
         dir' \subseteq NodeIDs, dir' # {} => Self \in dir',
         dns' \in BOOLEAN, opens' \in 0..MaxOpens
  PROVE  OpenInv'
<1>1. /\ proc \in [Procs -> Store] /\ {boltLock, port} \subseteq Procs \cup {None}
  BY DEF OpenInv, TypeOK
<1>2. /\ proc' \in [Procs -> Store] /\ proc'[p] = s
      /\ \A q \in Procs \ {p} : proc'[q] = proc[q]
  BY <1>1
<1>3. TypeOK'
  BY <1>1, <1>2 DEF TypeOK, HandedOver
<1>4. ASSUME NEW q \in Procs
      PROVE  /\ SoundStore(proc'[q])
             /\ boltLock' = q <=> proc'[q].pc \in WithBolt
             /\ port' = q <=> proc'[q].pc \in WithPort
  <2>1. q # None /\ p # None
    BY ProcsAssumption
  <2>2. CASE q = p
    BY <1>2, <2>1, <2>2 DEF HandedOver
  <2>3. CASE q # p
    BY <1>2, <2>1, <2>3 DEF HandedOver, OpenInv
  <2>4. QED BY <2>2, <2>3
<1>5. QED BY <1>3, <1>4, Zenon DEF OpenInv, SoundStore, BootstrapOk

\* The same when the store only moves to another step: its options and what it
\* knows of the directory stay.
LEMMA GotoStep ==
  ASSUME OpenInv, NEW p \in Procs, ~At(p, "off"), NEW to \in WithBolt \cup {"bolt"},
         Goto(p, to),
         HandedOver(boltLock, boltLock', p, to \in WithBolt),
         HandedOver(port, port', p, to \in WithPort),
         proc[p].raft <=> to \in WithRaft,
         proc[p].cfg.bootstrap => BootstrapOk(proc[p].cfg),
         to = "bootstrap" => proc[p].cfg.bootstrap,
         dir' \subseteq NodeIDs, dir' # {} => Self \in dir',
         dns' \in BOOLEAN, opens' \in 0..MaxOpens
  PROVE  OpenInv'
<1> DEFINE s == [proc[p] EXCEPT !.pc = to]
<1>1. proc[p] \in Store /\ proc[p].pc # "off" /\ proc[p].cfg \in Options
  BY DEF OpenInv, TypeOK, At, SoundStore
<1>2. /\ s \in Store /\ s.pc = to /\ s.cfg = proc[p].cfg /\ s.raft = proc[p].raft
  BY <1>1 DEF Store, WithBolt, WithPort
<1>3. proc' = [proc EXCEPT ![p] = s]
  BY DEF Goto
<1>4. to # "off"
  BY DEF WithBolt, WithPort
<1> HIDE DEF s
<1>5. SoundStore(s)
  BY <1>1, <1>2, <1>4 DEF SoundStore
<1>6. QED BY <1>2, <1>3, <1>5, ProcStep, Zenon

\* A store that is off holds nothing.
LEMMA OffStep ==
  ASSUME OpenInv, NEW p \in Procs, proc' = [proc EXCEPT ![p] = Off],
         HandedOver(boltLock, boltLock', p, FALSE), HandedOver(port, port', p, FALSE),
         UNCHANGED <<dir, dns, opens>>
  PROVE  OpenInv'
<1>1. Off \in Store /\ Off.pc = "off" /\ ~Off.raft
  BY DEF Off, Store
<1>2. SoundStore(Off) /\ Off.pc \notin WithBolt /\ Off.pc \notin WithPort
  BY <1>1 DEF SoundStore, WithBolt, WithPort, WithRaft
<1>3. dir' \subseteq NodeIDs /\ (dir' # {} => Self \in dir') /\ dns' \in BOOLEAN
      /\ opens' \in 0..MaxOpens
  BY DEF OpenInv, TypeOK
<1>4. QED BY <1>1, <1>2, <1>3, ProcStep, Zenon DEF HandedOver

\* What a process holds, by its step.
LEMMA Holding ==
  ASSUME OpenInv, NEW p \in Procs
  PROVE  /\ IF proc[p].pc \in WithBolt THEN boltLock = p ELSE boltLock # p
         /\ IF proc[p].pc \in WithPort THEN port = p ELSE port # p
         /\ proc[p].raft <=> proc[p].pc \in WithRaft
         /\ proc[p].pc \notin {"off", "check"} =>
              (proc[p].cfg.bootstrap => BootstrapOk(proc[p].cfg))
         /\ dir \subseteq NodeIDs /\ (dir # {} => Self \in dir)
         /\ dns \in BOOLEAN /\ opens \in 0..MaxOpens
         /\ proc[p] \in Store /\ proc \in [Procs -> Store]
         /\ p # None
BY ProcsAssumption DEF OpenInv, TypeOK, SoundStore
-----------------------------------------------------------------------------
\* The steps of NewRaftStoreContext: each takes one more resource, or gives back
\* what the steps before it have taken.
LEMMA OpenStepInv ==
  ASSUME OpenInv, NEW p \in Procs, OpenStep(p)
  PROVE  OpenInv'
<1> USE Holding DEF At, Rest
<1>1. CASE Check(p)
  <2>1. CASE proc' = [proc EXCEPT ![p] = Off]
    BY <1>1, <2>1, OffStep, Zenon DEF Check, HandedOver, WithBolt, WithPort
  <2>2. CASE (proc[p].cfg.bootstrap => BootstrapOk(proc[p].cfg)) /\ Goto(p, "bolt")
    BY <1>1, <2>2, GotoStep DEF Check, HandedOver, WithBolt, WithPort, WithRaft
  <2>3. QED BY <1>1, <2>1, <2>2 DEF Check
<1>2. CASE OpenBolt(p)
  <2>1. CASE boltLock = None /\ boltLock' = p /\ Goto(p, "state")
    BY <1>2, <2>1, GotoStep DEF OpenBolt, HandedOver, WithBolt, WithPort, WithRaft
  <2>2. CASE UNCHANGED boltLock /\ proc' = [proc EXCEPT ![p] = Off]
    BY <1>2, <2>2, OffStep, Zenon DEF OpenBolt, HandedOver, WithBolt, WithPort
  <2>3. QED BY <1>2, <2>1, <2>2 DEF OpenBolt
<1>3. CASE HasExistingState(p)
  <2>1. CASE Goto(p, "closeBolt")
    BY <1>3, <2>1, GotoStep DEF HasExistingState, HandedOver, WithBolt, WithPort, WithRaft
  <2>2. ASSUME NEW has \in BOOLEAN,
               proc' = [proc EXCEPT ![p].pc = "resolve", ![p].hasState = has]
        PROVE  OpenInv'
    <3> DEFINE s == [proc[p] EXCEPT !.pc = "resolve", !.hasState = has]
    <3>1. /\ s \in Store /\ s.pc = "resolve" /\ s.cfg = proc[p].cfg /\ s.raft = proc[p].raft
          /\ proc' = [proc EXCEPT ![p] = s]
      <4>1. proc[p] \in Store /\ proc \in [Procs -> Store]
        OBVIOUS
      <4>2. /\ s \in Store /\ s.pc = "resolve" /\ s.cfg = proc[p].cfg
            /\ s.raft = proc[p].raft
        BY <4>1, Zenon DEF Store
      <4>3. proc' = [proc EXCEPT ![p] = s]
        BY <2>2, <4>1, Zenon
      <4>4. QED BY <4>2, <4>3
    <3> HIDE DEF s
    <3>2. SoundStore(s)
      BY <1>3, <3>1 DEF HasExistingState, SoundStore, OpenInv, WithRaft
    <3>3. QED BY <1>3, <3>1, <3>2, ProcStep, Zenon DEF HasExistingState, HandedOver, WithBolt, WithPort
  <2>3. QED BY <1>3, <2>1, <2>2, Zenon DEF HasExistingState
<1>4. CASE resolveAdvertise(p)
  BY <1>4, GotoStep DEF resolveAdvertise, HandedOver, WithBolt, WithPort, WithRaft
<1>5. CASE OpenTransport(p)
  <2>1. CASE port = None /\ port' = p /\ Goto(p, "raft")
    BY <1>5, <2>1, GotoStep DEF OpenTransport, HandedOver, WithBolt, WithPort, WithRaft
  <2>2. CASE UNCHANGED port /\ Goto(p, "closeBolt")
    BY <1>5, <2>2, GotoStep DEF OpenTransport, HandedOver, WithBolt, WithPort, WithRaft
  <2>3. QED BY <1>5, <2>1, <2>2 DEF OpenTransport
<1>6. CASE NewRaft(p)
  <2>1. CASE Goto(p, "closeTransport")
    BY <1>6, <2>1, GotoStep DEF NewRaft, HandedOver, WithBolt, WithPort, WithRaft
  <2>2. ASSUME NEW to \in {"bootstrap", "open"}, to = "bootstrap" => proc[p].cfg.bootstrap,
               proc' = [proc EXCEPT ![p].raft = TRUE, ![p].pc = to]
        PROVE  OpenInv'
    <3> DEFINE s == [proc[p] EXCEPT !.raft = TRUE, !.pc = to]
    <3>1. /\ s \in Store /\ s.pc = to /\ s.cfg = proc[p].cfg /\ s.raft
          /\ proc' = [proc EXCEPT ![p] = s]
      BY <2>2, Zenon DEF Store
    <3> HIDE DEF s
    <3>2. SoundStore(s)
      BY <1>6, <2>2, <3>1 DEF NewRaft, SoundStore, OpenInv, WithRaft
    <3>3. QED BY <1>6, <2>2, <3>1, <3>2, ProcStep, Zenon DEF NewRaft, HandedOver, WithBolt, WithPort
  <2>3. QED BY <1>6, <2>1, <2>2, Zenon DEF NewRaft
<1>7. CASE Bootstrap(p)
  <2>1. CASE dir = {} /\ dir' = bootstrapServers(proc[p].cfg) /\ Goto(p, "open")
    <3>1. BootstrapOk(proc[p].cfg) /\ proc[p].cfg \in Options
      BY <1>7 DEF Bootstrap, OpenInv, SoundStore
    <3>2. dir' \subseteq NodeIDs /\ Self \in dir'
      BY <2>1, <3>1, OptionsAssumption, Zenon DEF BootstrapOk, bootstrapServers
    <3>3. QED BY <1>7, <2>1, <3>2, GotoStep
              DEF Bootstrap, HandedOver, WithBolt, WithPort, WithRaft
  <2>2. CASE UNCHANGED dir /\ Goto(p, "closeRaft")
    BY <1>7, <2>2, GotoStep DEF Bootstrap, HandedOver, WithBolt, WithPort, WithRaft
  <2>3. QED BY <1>7, <2>1, <2>2 DEF Bootstrap
<1>8. QED BY <1>1, <1>2, <1>3, <1>4, <1>5, <1>6, <1>7 DEF OpenStep

\* The steps of Close give back what is held, last taken first.
LEMMA CloseStepInv ==
  ASSUME OpenInv, NEW p \in Procs, Close(p) \/ CloseStep(p)
  PROVE  OpenInv'
<1> USE Holding DEF At, Rest
<1>1. CASE Close(p)
  BY <1>1, GotoStep DEF Close, HandedOver, WithBolt, WithPort, WithRaft
<1>2. CASE ShutdownRaft(p)
  <2> DEFINE s == [proc[p] EXCEPT !.raft = FALSE, !.pc = "closeTransport"]
  <2>1. /\ s \in Store /\ s.pc = "closeTransport" /\ s.cfg = proc[p].cfg /\ ~s.raft
        /\ proc' = [proc EXCEPT ![p] = s]
    BY <1>2 DEF Store, ShutdownRaft
  <2> HIDE DEF s
  <2>2. SoundStore(s)
    BY <1>2, <2>1 DEF ShutdownRaft, SoundStore, OpenInv, WithRaft
  <2>3. QED BY <1>2, <2>1, <2>2, ProcStep, Zenon DEF ShutdownRaft, HandedOver, WithBolt, WithPort
<1>3. CASE CloseTransport(p)
  BY <1>3, GotoStep DEF CloseTransport, HandedOver, WithBolt, WithPort, WithRaft
<1>4. CASE CloseBolt(p)
  BY <1>4, OffStep, Zenon DEF CloseBolt, HandedOver, WithBolt, WithPort
<1>5. QED BY <1>1, <1>2, <1>3, <1>4 DEF CloseStep

\* A process that begins or dies, a peer that makes contact, a record published.
LEMMA OutsideInv ==
  ASSUME OpenInv,
         \/ \E p \in Procs : (\E c \in Options : Begin(p, c)) \/ Crash(p) \/ PeerContacts(p)
         \/ Publish \/ UNCHANGED vars
  PROVE  OpenInv'
<1>1. ASSUME NEW p \in Procs, NEW c \in Options, Begin(p, c)
      PROVE  OpenInv'
  <2> DEFINE s == [Off EXCEPT !.pc = "check", !.cfg = c]
  <2>1. /\ s \in Store /\ s.pc = "check" /\ s.cfg = c /\ ~s.raft
        /\ proc' = [proc EXCEPT ![p] = s]
    BY <1>1, Zenon DEF Begin, Off, Store
  <2> HIDE DEF s
  <2>2. SoundStore(s)
    BY <2>1 DEF SoundStore, WithRaft
  <2>3. opens' \in 0..MaxOpens
    <3>1. opens \in 0..MaxOpens /\ opens < MaxOpens /\ opens' = opens + 1
      BY <1>1, Holding, Zenon DEF Begin
    <3>2. QED BY <3>1, ProcsAssumption
  <2>4. QED BY <1>1, <2>1, <2>2, <2>3, Holding, ProcStep, Zenon
            DEF Begin, At, HandedOver, WithBolt, WithPort
<1>2. ASSUME NEW p \in Procs, Crash(p)
      PROVE  OpenInv'
  BY <1>2, OffStep, Zenon DEF Crash, HandedOver
<1>3. CASE \/ \E p \in Procs : PeerContacts(p)
           \/ Publish \/ UNCHANGED vars
  <2>1. /\ UNCHANGED <<boltLock, port, proc, opens>>
        /\ dir' \in {dir, Foreign} /\ dns' \in {dns, TRUE}
    BY <1>3, Zenon DEF PeerContacts, Publish, vars
  <2>2. QED BY <2>1, OptionsAssumption, Zenon DEF OpenInv, TypeOK, SoundStore, BootstrapOk
<1>4. QED BY <1>1, <1>2, <1>3

\* The invariant holds in every reachable state: who holds the lock and the port
\* is told by the step it is at (NewRaftStoreContext, Close).
THEOREM OpenInvariant == Spec => []OpenInv
<1>1. Init => OpenInv
  <2>1. Off \in Store /\ Off.pc = "off" /\ ~Off.raft
    BY DEF Off, Store
  <2>2. Init => TypeOK
    <3>1. 0 \in 0..MaxOpens
      BY ProcsAssumption
    <3>2. QED BY <2>1, <3>1, Zenon DEF Init, TypeOK
  <2>3. QED BY <2>1, <2>2, ProcsAssumption
            DEF Init, OpenInv, SoundStore, WithBolt, WithPort, WithRaft
<1>2. OpenInv /\ [Next]_vars => OpenInv'
  BY OpenStepInv, CloseStepInv, OutsideInv DEF Next
<1>3. QED BY <1>1, <1>2, PTL DEF Spec

\* At most one raft instance works on the directory; it has the lock of raft.db
\* and the port while it runs, and both are free once their holder is gone.
THEOREM OneInstance == Spec => []OneRaftInstance
<1>1. OpenInv => OneRaftInstance
  BY DEF OpenInv, TypeOK, SoundStore, OneRaftInstance, At, WithBolt, WithPort, WithRaft
<1>2. QED BY <1>1, OpenInvariant, PTL

\* No open changes the membership a directory has recorded, and what is recorded
\* includes the node itself (BootstrapCluster, bootstrapServers).
THEOREM BootstrappedOnce == Spec => NeverBootstrappedTwice
<1> DEFINE Kept == /\ dir # {} => dir' = dir
                   /\ dir' # {} => Self \in dir'
<1>1. OpenInv /\ OpenInv' /\ [Next]_vars => [Kept]_vars
  <2>1. SUFFICES ASSUME OpenInv, OpenInv', [Next]_vars
                 PROVE  Kept
    OBVIOUS
  <2>2. dir' = dir \/ dir = {}
    BY <2>1, Zenon DEF Next, Begin, OpenStep, Check, OpenBolt, HasExistingState, resolveAdvertise,
                OpenTransport, NewRaft, Bootstrap, Close, CloseStep, ShutdownRaft,
                CloseTransport, CloseBolt, PeerContacts, Crash, Publish, Rest, vars
  <2>3. QED BY <2>1, <2>2 DEF OpenInv
<1>2. QED BY <1>1, OpenInvariant, PTL DEF Spec, NeverBootstrappedTwice
-----------------------------------------------------------------------------
(* The identity of the cluster. *)

\* EnsureClusterID is all that hands commands to raft here.
OnlyIdentities == \A e \in Entries : e.cmd.op = "init_cluster"

ReturnedCommitted == \A r \in returned : r[2] = Committed.clusterID

IdentityInv == StoreInv /\ IdentityTypeOK /\ OnlyIdentities /\ ReturnedCommitted
-----------------------------------------------------------------------------
\* The committed machine is one of the machines of the history.
LEMMA CommittedType ==
  ASSUME StoreInv
  PROVE  /\ Len(log) \in 0..Len(log) /\ Committed \in FSM
         /\ Committed.clusterID \in ClusterIDs \cup {Nil}
<1>1. Len(log) \in Nat /\ \A i \in 0..Len(log) : states[i] \in FSM
  BY HistoryTypes
<1>2. QED BY <1>1 DEF Committed, FSM

\* A committed identity stays the committed one (applyInitCluster).
LEMMA CommittedIdentityStays ==
  ASSUME StoreInv, StoreInv', HistoryGrows, Committed.clusterID # Nil
  PROVE  Committed'.clusterID = Committed.clusterID
<1>1. Len(log) \in Nat /\ Len(log') \in Nat /\ Len(log) <= Len(log')
  <2>1. Len(log) \in Nat
    BY HistoryTypes
  <2>2. Len(log') \in Nat
    BY DEF StoreInv, StoreTypeOK
  <2>3. QED BY <2>1, <2>2 DEF HistoryGrows
<1>2. states'[Len(log)] = Committed
  BY <1>1 DEF HistoryGrows, Committed
<1>3. Len(log) \in 0..Len(log') /\ Len(log') \in 0..Len(log')
  BY <1>1
<1>4. states'[Len(log')].clusterID = states'[Len(log)].clusterID
  BY <1>1, <1>2, <1>3 DEF StoreInv, IdentityKept
<1>5. QED BY <1>2, <1>4 DEF Committed

\* The identity of any machine of the history is the committed one.
LEMMA HistoryIdentity ==
  ASSUME StoreInv, NEW i \in 0..Len(log), states[i].clusterID # Nil
  PROVE  states[i].clusterID = Committed.clusterID /\ Committed.clusterID \in ClusterIDs
<1>1. Len(log) \in 0..Len(log) /\ Len(log) \in Nat
  BY CommittedType, HistoryTypes
<1>2. states[Len(log)].clusterID = states[i].clusterID
  BY <1>1 DEF StoreInv, IdentityKept
<1>3. QED BY <1>2, CommittedType DEF Committed

\* The answer to EnsureClusterID's command is the committed identity.
LEMMA AnsweredIdentity ==
  ASSUME IdentityInv, NEW n \in Callers, Succeeded(n)
  PROVE  future[n].res.clusterID = Committed.clusterID /\ Committed.clusterID \in ClusterIDs
<1>1. PICK i \in 1..Len(log) : future[n].res = Apply(states[i - 1], log[i].cmd).res
  BY DEF IdentityInv, StoreInv, AnswersFromLog, Succeeded
<1>2. Len(log) \in Nat
  BY HistoryTypes DEF IdentityInv
<1>3. i \in 0..Len(log) /\ i - 1 \in 0..Len(log)
  BY <1>2
<1>4. states[i - 1] \in FSM /\ WellFormed(log[i].cmd)
  BY <1>3, HistoryTypes DEF IdentityInv, StoreInv, EntriesOK
<1>5. log[i].cmd.op = "init_cluster"
  BY DEF IdentityInv, OnlyIdentities, Entries
<1>6. Apply(states[i - 1], log[i].cmd) = applyInitCluster(states[i - 1], log[i].cmd)
  BY <1>5 DEF Apply
<1>7. states[i] = Apply(states[i - 1], log[i].cmd).fsm
  BY DEF IdentityInv, StoreInv, HistoryOK
<1>8. future[n].res.clusterID = states[i].clusterID /\ states[i].clusterID # Nil
  BY <1>1, <1>4, <1>5, <1>6, <1>7, InitClusterEffect
<1>9. QED BY <1>3, <1>8, HistoryIdentity DEF IdentityInv

\* Raft commits what it was handed and nothing else.
LEMMA RaftKeepsEntries ==
  ASSUME StoreInv, RaftStep
  PROVE  Entries' \subseteq Entries
<1>1. CASE UNCHANGED <<log, pending>>
  BY <1>1 DEF Entries
<1>2. ASSUME NEW e \in pending, AppendCommitted(e)
      PROVE  Entries' \subseteq Entries
  <2>1. log \in Seq(Entry) /\ e \in Entry
    BY DEF StoreInv, StoreTypeOK
  <2>2. log' = Append(log, e) /\ pending' = pending \ {e}
    BY <1>2 DEF AppendCommitted
  <2>3. \A i \in 1..Len(log') : log'[i] \in Entries
    BY <2>1, <2>2 DEF Entries
  <2>4. QED BY <2>2, <2>3 DEF Entries
<1>3. QED
  BY <1>1, <1>2, Zenon DEF RaftStep, CommitEntry, ApplyEntry, BecomeLeader, StepDown,
                    TakeSnapshot, InstallSnapshot
-----------------------------------------------------------------------------
\* A call returns the identity of a machine or of an answer.
LEMMA ReturnInv ==
  ASSUME IdentityInv, NEW n \in Replicas, NEW id, Return(n, id),
         id = Committed.clusterID, id \in ClusterIDs, StoreInv', HistoryGrows,
         Entries' \subseteq Entries
  PROVE  IdentityInv'
<1>1. Committed'.clusterID = Committed.clusterID
  <2>1. Committed.clusterID # Nil
    BY NilIsNoValue
  <2>2. QED BY <2>1, CommittedIdentityStays DEF IdentityInv
<1>2. ReturnedCommitted'
  BY <1>1 DEF Return, IdentityInv, ReturnedCommitted
<1>3. IdentityTypeOK'
  BY DEF Return, IdentityInv, IdentityTypeOK, StoreInv, Ensure
<1>4. OnlyIdentities'
  BY DEF IdentityInv, OnlyIdentities
<1>5. QED BY <1>2, <1>3, <1>4 DEF IdentityInv

\* Steps that return nothing.
LEMMA NothingReturned ==
  ASSUME IdentityInv, StoreInv', HistoryGrows, OnlyIdentities',
         UNCHANGED returned, ensure' \in [Replicas -> Ensure]
  PROVE  IdentityInv'
<1>1. ASSUME NEW r \in returned PROVE r[2] = Committed'.clusterID
  <2>1. r[2] = Committed.clusterID /\ r[2] \in ClusterIDs
    BY <1>1 DEF IdentityInv, ReturnedCommitted, IdentityTypeOK
  <2>2. Committed.clusterID # Nil
    BY <2>1, NilIsNoValue
  <2>3. QED BY <2>1, <2>2, CommittedIdentityStays DEF IdentityInv
<1>2. ReturnedCommitted'
  BY <1>1 DEF ReturnedCommitted
<1>3. IdentityTypeOK'
  BY DEF IdentityInv, IdentityTypeOK, StoreInv
<1>4. QED BY <1>2, <1>3 DEF IdentityInv

LEMMA ReturnLocalInv ==
  ASSUME IdentityInv, NEW n \in Replicas, ReturnLocal(n)
  PROVE  IdentityInv'
<1>1. fsm[n] = states[applied[n]] /\ applied[n] \in 0..Len(log)
  BY DEF IdentityInv, StoreInv, ReplicasFollowLog, StoreTypeOK
<1>2. fsm[n].clusterID = Committed.clusterID /\ Committed.clusterID \in ClusterIDs
  BY <1>1, HistoryIdentity DEF IdentityInv, ReturnLocal
<1>3. StoreInv' /\ HistoryGrows /\ Entries' \subseteq Entries
  <2>1. n \in Callers
    BY OneCallPerReplica
  <2>2. faults' \in Nat
    BY DEF ReturnLocal, storeVars, IdentityInv, StoreInv, StoreTypeOK
  <2>3. StoreInv' /\ HistoryGrows
    BY <2>1, <2>2, CallerInv DEF IdentityInv, ReturnLocal, storeVars
  <2>4. QED BY <2>3 DEF Entries, ReturnLocal, storeVars
<1>4. QED BY <1>2, <1>3, ReturnInv DEF ReturnLocal

LEMMA ProposeInv ==
  ASSUME IdentityInv, NEW n \in Replicas, Propose(n)
  PROVE  IdentityInv'
<1>1. PICK id \in IF ensure[n].candidate = Nil THEN Fresh ELSE {ensure[n].candidate} :
        /\ apply(n, n, [op |-> "init_cluster", clusterID |-> id])
        /\ ensure' = [ensure EXCEPT ![n] = [pc |-> "apply", candidate |-> id]]
  BY Zenon DEF Propose
<1>2. id \in ClusterIDs
  BY DEF IdentityInv, IdentityTypeOK, Ensure, Fresh
<1> DEFINE cmd == [op |-> "init_cluster", clusterID |-> id]
<1>3. WellFormed(cmd) /\ cmd.op = "init_cluster"
  BY <1>2 DEF WellFormed, Command, InitCommand
<1> HIDE DEF cmd
<1>4. apply(n, n, cmd)
  BY <1>1 DEF cmd
<1>5. StoreInv' /\ HistoryGrows
  BY <1>3, <1>4, ApplyCallInv, OneCallPerReplica DEF IdentityInv
<1>6. OnlyIdentities'
  BY <1>3, <1>4 DEF IdentityInv, OnlyIdentities, Entries, apply
<1>7. ensure' \in [Replicas -> Ensure] /\ UNCHANGED returned
  BY <1>1, <1>2 DEF IdentityInv, IdentityTypeOK, Ensure, Propose
<1>8. QED BY <1>5, <1>6, <1>7, NothingReturned

LEMMA CollectInv ==
  ASSUME IdentityInv, NEW n \in Replicas, Collect(n), UNCHANGED faults
  PROVE  StoreInv' /\ HistoryGrows /\ Entries' \subseteq Entries
<1>1. faults' \in Nat /\ n \in Callers
  BY OneCallPerReplica DEF IdentityInv, StoreInv, StoreTypeOK
<1>2. StoreInv' /\ HistoryGrows
  BY <1>1, CallerInv, Zenon DEF IdentityInv, Collect
<1>3. QED BY <1>2 DEF Entries, Collect

LEMMA ReturnAppliedInv ==
  ASSUME IdentityInv, NEW n \in Replicas, ReturnApplied(n)
  PROVE  IdentityInv'
<1>1. StoreInv' /\ HistoryGrows /\ Entries' \subseteq Entries
  BY CollectInv DEF ReturnApplied
<1>2. future[n].res.clusterID = Committed.clusterID /\ Committed.clusterID \in ClusterIDs
  BY AnsweredIdentity, OneCallPerReplica DEF ReturnApplied
<1>3. QED BY <1>1, <1>2, ReturnInv DEF ReturnApplied

LEMMA RetryInv ==
  ASSUME IdentityInv, NEW n \in Replicas, Retry(n)
  PROVE  IdentityInv'
<1>1. StoreInv' /\ HistoryGrows /\ Entries' \subseteq Entries
  BY CollectInv DEF Retry
<1>2. OnlyIdentities'
  BY <1>1 DEF IdentityInv, OnlyIdentities
<1>3. ensure' \in [Replicas -> Ensure] /\ UNCHANGED returned
  BY DEF Retry, IdentityInv, IdentityTypeOK, Ensure
<1>4. QED BY <1>1, <1>2, <1>3, NothingReturned

LEMMA CrashKeepsIdentity ==
  ASSUME IdentityInv, NEW n \in Replicas, RestartReplica(n)
  PROVE  IdentityInv'
<1>1. StoreInv' /\ HistoryGrows
  BY RestartInv DEF RestartReplica, IdentityInv
<1>2. OnlyIdentities'
  BY DEF RestartReplica, Restart, Entries, IdentityInv, OnlyIdentities
<1>3. ensure' \in [Replicas -> Ensure] /\ UNCHANGED returned
  BY DEF RestartReplica, IdentityInv, IdentityTypeOK, Ensure, Starting
<1>4. QED BY <1>1, <1>2, <1>3, NothingReturned

LEMMA RaftKeepsIdentity ==
  ASSUME IdentityInv, RaftStep, UNCHANGED <<ensure, returned>>
  PROVE  IdentityInv'
<1>1. StoreInv' /\ HistoryGrows
  BY RaftStepInv DEF IdentityInv
<1>2. OnlyIdentities'
  BY RaftKeepsEntries DEF IdentityInv, OnlyIdentities
<1>3. QED BY <1>1, <1>2, NothingReturned DEF IdentityInv, IdentityTypeOK
-----------------------------------------------------------------------------
\* The inductive invariant of the start of a cluster (EnsureClusterID on every
\* replica): the store is sound, and every identity returned is the committed one.
THEOREM IdentityInvariant == IdentitySpec => []IdentityInv
<1>1. ASSUME IdentityInit PROVE IdentityInv
  <2>1. StoreInv
    BY <1>1, StoreInitInv DEF IdentityInit
  <2>2. IdentityTypeOK
    BY <1>1, <2>1 DEF IdentityInit, IdentityTypeOK, Ensure, Starting, StoreInv
  <2>3. Entries = {}
    BY <1>1 DEF IdentityInit, StoreInit, Entries
  <2>4. QED BY <1>1, <2>1, <2>2, <2>3 DEF IdentityInit, IdentityInv, OnlyIdentities, ReturnedCommitted
<1>2. ASSUME IdentityInv, [IdentityNext]_identityVars PROVE IdentityInv'
  <2>1. ASSUME NEW n \in Replicas, EnsureStep(n) \/ RestartReplica(n)
        PROVE  IdentityInv'
    BY <1>2, <2>1, ReturnLocalInv, ProposeInv, ReturnAppliedInv, RetryInv,
       CrashKeepsIdentity DEF EnsureStep
  <2>2. CASE RaftStep /\ UNCHANGED <<ensure, returned>>
    BY <1>2, <2>2, RaftKeepsIdentity
  <2>3. CASE UNCHANGED identityVars
    <3>1. UNCHANGED storeVars /\ UNCHANGED <<ensure, returned>>
      BY <2>3 DEF identityVars
    <3>2. StoreInv' /\ HistoryGrows
      BY <1>2, <3>1, StoreStutters DEF IdentityInv
    <3>3. OnlyIdentities'
      BY <1>2, <3>1 DEF storeVars, IdentityInv, OnlyIdentities, Entries
    <3>4. QED BY <1>2, <3>1, <3>2, <3>3, NothingReturned DEF IdentityInv, IdentityTypeOK
  <2>4. QED BY <1>2, <2>1, <2>2, <2>3 DEF IdentityNext
<1>3. QED BY <1>1, <1>2, PTL DEF IdentitySpec

\* Whatever EnsureClusterID returned, on any replica, before or after restarts, is
\* the committed identity: racing leaders and late commits never leave two.
THEOREM OneIdentity == IdentitySpec => []IdentityAgreed
<1>1. IdentityInv => IdentityAgreed
  BY DEF IdentityInv, IdentityAgreed, ReturnedCommitted
<1>2. QED BY <1>1, IdentityInvariant, PTL

\* While a cluster gets its identity, fsm.Restore never refuses a snapshot of one
\* of its own replicas: the check at snapshot.go:82 stops foreign ones only.
THEOREM OwnSnapshotsInstall == IdentitySpec => []OwnSnapshotsAccepted
<1>1. IdentityInv => OwnSnapshotsAccepted
  BY SnapshotsAccepted DEF IdentityInv
<1>2. QED BY <1>1, IdentityInvariant, PTL
=============================================================================
