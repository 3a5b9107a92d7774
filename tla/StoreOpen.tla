----------------------------- MODULE StoreOpen -----------------------------
(***************************************************************************)
(* NewRaftStoreContext and raftStore.Close: how a process opens and closes *)
(* the raft store of one data directory, in steps that may each fail, while*)
(* another process (an overlapping replacement, a restart) opens the same  *)
(* directory, and while peers of an existing cluster may reach the raft    *)
(* instance as soon as it runs.                                            *)
(***************************************************************************)
EXTENDS Naturals, FiniteSets

CONSTANTS Procs, None,
          NodeIDs, Self,  \* the member names; this directory's own
          Options,        \* the [bootstrap, single, members] to be tried
          Foreign,        \* the membership of a cluster that has this node already
          MaxOpens        \* bound: opens begun

ASSUME ProcsAssumption == None \notin Procs /\ MaxOpens \in Nat

ASSUME OptionsAssumption ==
  /\ Self \in Foreign /\ Foreign \subseteq NodeIDs
  /\ Options \subseteq [bootstrap : BOOLEAN, single : BOOLEAN,
                       members : SUBSET (NodeIDs \cup {""})]

VARIABLES dir,      \* the membership that the directory's raft state records, or {}
          boltLock, \* the process whose open holds raft.db
          port,     \* the process that is bound to the raft port
          dns,      \* the advertised name resolves
          proc,     \* process -> its store
          opens

vars == <<dir, boltLock, port, dns, proc, opens>>

Store == [pc : {"off", "check", "bolt", "state", "resolve", "transport", "raft",
                "bootstrap", "open", "closeRaft", "closeTransport", "closeBolt"},
          cfg : Options \cup {None}, hasState : BOOLEAN,
          raft : BOOLEAN]       \* the raft instance runs
Off == [pc |-> "off", cfg |-> None, hasState |-> FALSE, raft |-> FALSE]

TypeOK ==
  /\ dir \subseteq NodeIDs
  /\ {boltLock, port} \subseteq Procs \cup {None}
  /\ dns \in BOOLEAN
  /\ proc \in [Procs -> Store]
  /\ opens \in 0..MaxOpens

Init ==
  /\ dir = {} /\ boltLock = None /\ port = None /\ dns = FALSE
  /\ proc = [p \in Procs |-> Off]
  /\ opens = 0

At(p, pc) == proc[p].pc = pc
Goto(p, to) == proc' = [proc EXCEPT ![p].pc = to]
Rest == UNCHANGED <<dir, boltLock, port, dns, opens>>
-----------------------------------------------------------------------------
\* bootstrapServers: the members verbatim, or this node alone.
bootstrapServers(c) == IF c.members = {} THEN {Self} ELSE c.members

\* Mutant of BootstrapOk: the node need not be a member.
BootstrapOkAnyone(c) == IF c.members = {} THEN c.single ELSE "" \notin c.members

\* Its errors: alone only by explicit choice, no blank member, and self included.
BootstrapOk(c) ==
  IF c.members = {} THEN c.single ELSE Self \in c.members /\ "" \notin c.members

Begin(p, c) ==
  /\ At(p, "off") /\ opens < MaxOpens
  /\ proc' = [proc EXCEPT ![p] = [Off EXCEPT !.pc = "check", !.cfg = c]]
  /\ opens' = opens + 1
  /\ UNCHANGED <<dir, boltLock, port, dns>>

\* The options are validated, and the directory made, before anything is opened.
Check(p) ==
  /\ At(p, "check")
  /\ \/ (proc[p].cfg.bootstrap => BootstrapOk(proc[p].cfg)) /\ Goto(p, "bolt")
     \/ proc' = [proc EXCEPT ![p] = Off]
  /\ Rest

\* raftboltdb.New takes the lock of raft.db, or fails after boltOpenTimeout.
OpenBolt(p) ==
  /\ At(p, "bolt")
  /\ \/ boltLock = None /\ boltLock' = p /\ Goto(p, "state")
     \/ UNCHANGED boltLock /\ proc' = [proc EXCEPT ![p] = Off]
  /\ UNCHANGED <<dir, port, dns, opens>>

\* The snapshot store, and HasExistingState.
HasExistingState(p) ==
  /\ At(p, "state")
  /\ \/ proc' = [proc EXCEPT ![p].pc = "resolve", ![p].hasState = dir # {}]
     \/ Goto(p, "closeBolt")
  /\ Rest

\* Mutant of resolveAdvertise: there is no budget for the retries.
resolveAdvertiseForever(p) ==
  /\ At(p, "resolve")
  /\ dns /\ Goto(p, "transport")
  /\ Rest

\* A lookup that finds nothing is repeated until the record is published, the
\* budget is spent or the context ends; a malformed address fails at once.
resolveAdvertise(p) ==
  /\ At(p, "resolve")
  /\ (dns /\ Goto(p, "transport")) \/ Goto(p, "closeBolt")
  /\ Rest

\* Mutant of OpenTransport: the store is left open when the port is taken.
OpenTransportLeaks(p) ==
  /\ At(p, "transport")
  /\ \/ port = None /\ port' = p /\ Goto(p, "raft")
     \/ UNCHANGED port /\ proc' = [proc EXCEPT ![p] = Off]
  /\ UNCHANGED <<dir, boltLock, dns, opens>>

\* newTLSStreamLayer or NewTCPTransportWithLogger.
OpenTransport(p) ==
  /\ At(p, "transport")
  /\ \/ port = None /\ port' = p /\ Goto(p, "raft")
     \/ UNCHANGED port /\ Goto(p, "closeBolt")
  /\ UNCHANGED <<dir, boltLock, dns, opens>>

NewRaft(p) ==
  /\ At(p, "raft")
  /\ \/ proc' = [proc EXCEPT ![p].raft = TRUE,
                   ![p].pc = IF proc[p].cfg.bootstrap /\ ~proc[p].hasState
                             THEN "bootstrap" ELSE "open"]
     \/ Goto(p, "closeTransport")
  /\ Rest

\* Mutant of Bootstrap: the membership is recorded whatever the store holds.
BootstrapAnyway(p) ==
  /\ At(p, "bootstrap")
  /\ dir' = bootstrapServers(proc[p].cfg) /\ Goto(p, "open")
  /\ UNCHANGED <<boltLock, port, dns, opens>>

\* BootstrapCluster refuses a store that has got state since it was looked at.
Bootstrap(p) ==
  /\ At(p, "bootstrap")
  /\ \/ dir = {} /\ dir' = bootstrapServers(proc[p].cfg) /\ Goto(p, "open")
     \/ UNCHANGED dir /\ Goto(p, "closeRaft")
  /\ UNCHANGED <<boltLock, port, dns, opens>>

\* External: the leader of a cluster reaches a running instance and sends it the
\* cluster's log.
PeerContacts(p) ==
  /\ proc[p].raft /\ dir = {}
  /\ dir' = Foreign
  /\ UNCHANGED <<boltLock, port, dns, proc, opens>>
-----------------------------------------------------------------------------
Close(p) ==
  /\ At(p, "open")
  /\ Goto(p, "closeRaft")
  /\ Rest

\* Mutant of ShutdownRaft: nobody waits for the shutdown to complete.
ShutdownRaftLate(p) ==
  /\ At(p, "closeRaft")
  /\ Goto(p, "closeTransport")
  /\ Rest

\* Close, and the deferred calls of an open that failed: last opened, first closed.
ShutdownRaft(p) ==
  /\ At(p, "closeRaft")
  /\ proc' = [proc EXCEPT ![p].raft = FALSE, ![p].pc = "closeTransport"]
  /\ Rest

CloseTransport(p) ==
  /\ At(p, "closeTransport")
  /\ port' = None
  /\ Goto(p, "closeBolt")
  /\ UNCHANGED <<dir, boltLock, dns, opens>>

CloseBolt(p) ==
  /\ At(p, "closeBolt")
  /\ boltLock' = None
  /\ proc' = [proc EXCEPT ![p] = Off]
  /\ UNCHANGED <<dir, port, dns, opens>>

\* A process dies: the system releases its lock and its port.
Crash(p) ==
  /\ ~At(p, "off")
  /\ proc' = [proc EXCEPT ![p] = Off]
  /\ boltLock' = IF boltLock = p THEN None ELSE boltLock
  /\ port' = IF port = p THEN None ELSE port
  /\ UNCHANGED <<dir, dns, opens>>

\* External: the record of the pod is published.
Publish == ~dns /\ dns' = TRUE /\ UNCHANGED <<dir, boltLock, port, proc, opens>>

OpenStep(p) ==
  \/ Check(p) \/ OpenBolt(p) \/ HasExistingState(p) \/ resolveAdvertise(p)
  \/ OpenTransport(p) \/ NewRaft(p) \/ Bootstrap(p)
CloseStep(p) == ShutdownRaft(p) \/ CloseTransport(p) \/ CloseBolt(p)

Next ==
  \/ \E p \in Procs :
       \/ \E c \in Options : Begin(p, c)
       \/ OpenStep(p) \/ Close(p) \/ CloseStep(p)
       \/ PeerContacts(p) \/ Crash(p)
  \/ Publish

Spec == Init /\ [][Next]_vars

\* The process runs: every wait of an open has a bound of its own.  Closing a
\* store that is open is a decision of its owner, and nobody else's step is owed.
FairSpec == /\ Spec
            /\ \A p \in Procs : WF_vars(OpenStep(p)) /\ WF_vars(CloseStep(p))
-----------------------------------------------------------------------------
\* At most one raft instance works on the directory, and it holds the lock of
\* raft.db and the port for as long as it runs; what an open that ended, in
\* whatever way, had taken is free again: overlapping processes, failed opens and
\* closes included (the order of the deferred calls and of Close).
OneRaftInstance ==
  /\ TypeOK
  /\ \A p \in Procs : proc[p].raft => /\ boltLock = p /\ port = p
                                      /\ \A q \in Procs \ {p} : ~proc[q].raft
  /\ \A h \in {boltLock, port} \ {None} : ~At(h, "off")

\* A directory never changes from one membership to another by being opened: a
\* bootstrap request neither replaces what an earlier run recorded nor what a
\* peer has sent since the store was found empty.  What it records includes the
\* node itself (bootstrapServers).
NeverBootstrappedTwice ==
  [][/\ dir # {} => dir' = dir
     /\ dir' # {} => Self \in dir']_vars

\* An open that has begun ends, open or failed, also when the record of the pod
\* is never published or the lock never released; and a close ends.
OpenEnds == \A p \in Procs : (proc[p].pc # "off") ~> (proc[p].pc \in {"off", "open"})
=============================================================================
