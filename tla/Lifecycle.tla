----------------------------- MODULE Lifecycle -----------------------------
(***************************************************************************)
(* The Lifecycle of one replica: Run reconciles the connectors with raft   *)
(* leadership and with the resolved nodes, one pass at a time, and on      *)
(* shutdown retires every connector before it hands leadership over.       *)
(***************************************************************************)
EXTENDS NodeConnector

CONSTANTS UpSets,  \* the sets of nodes that may be listening at one time
          Voters   \* voters in the raft configuration

ASSUME UpAssumption == UpSets \subseteq SUBSET Nodes

VARIABLES leader,    \* who leads, as this replica's raft knows: self, other or Nil
          leaderCh,  \* a value waits on store.LeaderCh
          dns,       \* the addresses the NodeSource resolves
          servers,   \* node -> its connector, the servers map
          status,    \* the published snapshot of servers
          wake,      \* a value waits in the wake channel
          window,    \* before discoveryPendingUntil
          run        \* the goroutine of Run

lcVars == <<leader, leaderCh, dns, servers, status, wake, window, run>>
vars == <<connVars, lcVars>>

\* pc: "check" is reconcile before it knows of leadership, "resolve" before the
\* nodes are known, "visit" the loop over servers, "close" inside retire,
\* "transfer" to "observe" are in TransferLeadership, "wait" is stopping.Wait.
Run == [pc : {"idle", "check", "resolve", "visit", "close", "transfer",
              "future", "observe", "wait", "done"},
        want : SUBSET Nodes, todo : SUBSET Nodes, victim : Nodes \cup {Nil},
        next : {"start", "transfer"}, handoff : {Nil, "ok", "failed"}]

TypeOK ==
  /\ ConnTypeOK
  /\ leader \in {"self", "other", Nil} /\ leaderCh \in BOOLEAN
  /\ dns \subseteq Nodes
  /\ servers \in [Nodes -> Connectors \cup {Nil}]
  /\ status \in [Nodes -> {Nil, "dialing", "connected"}]
  /\ wake \in BOOLEAN /\ window \in BOOLEAN
  /\ run \in Run

Served == {a \in Nodes : servers[a] # Nil}

\* New, and Run at its first reconcile.
RunInit ==
  /\ dns = up
  /\ leader \in {"self", Nil} /\ leaderCh = FALSE
  /\ servers = [a \in Nodes |-> Nil] /\ status = [a \in Nodes |-> Nil]
  /\ wake = FALSE /\ window = FALSE
  /\ run = [pc |-> "check", want |-> {}, todo |-> {}, victim |-> Nil,
            next |-> "start", handoff |-> Nil]

Init == ConnInit /\ up \in UpSets /\ RunInit

\* publishStatus, of the maps as they are after the step.
publishStatus ==
  status' = [a \in Nodes |-> IF servers'[a] = Nil THEN Nil
                             ELSE IF ns'[servers'[a]].connected THEN "connected"
                             ELSE "dialing"]

\* Run goes on to pc, and everything but the connectors and the maps stays.
Goto(pc) ==
  /\ run' = [run EXCEPT !.pc = pc]
  /\ UNCHANGED <<leader, leaderCh, dns, wake, window>>
-----------------------------------------------------------------------------
(* Run: wait for the next event, then make a pass.                         *)

\* Each event of the select in Run but the health scan.
TakeLeaderCh ==
  /\ run.pc = "idle" /\ leaderCh
  /\ leaderCh' = FALSE
  /\ run' = [run EXCEPT !.pc = "check"]
  /\ UNCHANGED <<connVars, leader, dns, servers, status, wake, window>>

TakeWake ==
  /\ run.pc = "idle" /\ wake
  /\ wake' = FALSE
  /\ run' = [run EXCEPT !.pc = "check"]
  /\ UNCHANGED <<connVars, leader, leaderCh, dns, servers, status, window>>

Tick ==
  /\ run.pc = "idle"
  /\ Goto("check")
  /\ UNCHANGED <<connVars, servers, status>>

\* observe of the connectors in S: the connected latch, with a touch when a
\* connection is seen for the first time.
Observed(S) ==
  [c \in Connectors |->
     IF c \notin S THEN ns[c]
     ELSE [ns[c] EXCEPT !.connected = IsConnected(c),
                        !.silent = IF IsConnected(c) /\ ~ns[c].connected
                                   THEN FALSE ELSE @]]

\* Mutant of RetireSilent: an endpoint that says it is connected is believed.
RetireSilentNever(c) == FALSE

\* observe says retireSilent.
RetireSilent(c) == IsConnected(c) /\ ns[c].connected /\ ns[c].silent

\* needsFastDiscovery stops at the first connector that is silent or not
\* connected, in any order, so those it has observed are some of the others.
HealthScan(seen, asks) ==
  LET bad == {c \in Connectors : /\ \E a \in Nodes : servers[a] = c
                                 /\ RetireSilent(c) \/ ~IsConnected(c)}
      served == {servers[a] : a \in Served}
  IN IF window THEN asks /\ seen = {}
     ELSE IF bad = {} THEN ~asks /\ seen = served
     ELSE asks /\ \E b \in bad : b \in seen /\ seen \subseteq {b} \cup (served \ bad)

\* Mutant of Watch: what the scan latched is not published.
WatchUnpublished ==
  /\ run.pc = "idle"
  /\ \E seen \in SUBSET Connectors, asks \in BOOLEAN :
       /\ HealthScan(seen, asks)
       /\ ns' = Observed(seen)
       /\ Goto(IF asks THEN "check" ELSE "idle")
  /\ UNCHANGED <<slot, up, faults, servers, status>>

\* Mutant of Watch: discovery is fast only when a connection is to be retired.
WatchRetirements ==
  /\ run.pc = "idle"
  /\ \E seen \in SUBSET Connectors, asks \in BOOLEAN :
       /\ HealthScan(seen, asks)
       /\ ns' = Observed(seen)
       /\ Goto(IF asks /\ \E c \in seen : RetireSilent(c) THEN "check" ELSE "idle")
  /\ UNCHANGED <<slot, up, faults, servers>>
  /\ publishStatus

\* The watch tick: the health scan, and a pass if it asks for one.
Watch ==
  /\ run.pc = "idle"
  /\ \E seen \in SUBSET Connectors, asks \in BOOLEAN :
       /\ HealthScan(seen, asks)
       /\ ns' = Observed(seen)
       /\ Goto(IF asks THEN "check" ELSE "idle")
  /\ UNCHANGED <<slot, up, faults, servers>>
  /\ publishStatus
-----------------------------------------------------------------------------
(* reconcile, and stopAll: a pass that wants no node.                      *)

Pass(want, next) ==
  /\ run' = [run EXCEPT !.pc = "visit", !.want = want, !.todo = Served, !.next = next]
  /\ UNCHANGED <<connVars, leader, leaderCh, dns, servers, status, wake, window>>

\* Mutant of CheckLeader: a follower starts nothing, and drops nothing.
CheckLeaderKeeps ==
  /\ run.pc = "check"
  /\ Goto(IF leader = "self" THEN "resolve" ELSE "idle")
  /\ UNCHANGED <<connVars, servers, status>>

\* Not the leader: stopAll.
CheckLeader ==
  /\ run.pc = "check"
  /\ IF leader = "self"
     THEN Goto("resolve") /\ UNCHANGED <<connVars, servers, status>>
     ELSE Pass({}, "start")

Resolve ==
  /\ run.pc = "resolve"
  /\ Pass(dns, "start")

\* The lookup fails: the connections are kept.
ResolveFails ==
  /\ run.pc = "resolve"
  /\ Fault
  /\ Goto("idle")
  /\ UNCHANGED <<ns, slot, up, servers, status>>

\* One node of the loop over servers is looked at, and kept.
Keep(a) ==
  /\ run.pc = "visit" /\ a \in run.todo
  /\ a \in run.want /\ ~RetireSilent(servers[a])
  /\ ns' = Observed({servers[a]})
  /\ run' = [run EXCEPT !.todo = @ \ {a}]
  /\ UNCHANGED <<slot, up, faults, leader, leaderCh, dns, servers, status, wake, window>>

\* One that is not wanted, or silent, is retired.  First the flag: RetireBegins ...
RetireBegins(a) ==
  /\ run.pc = "visit" /\ a \in run.todo
  /\ a \notin run.want \/ RetireSilent(servers[a])
  /\ ns' = [ns EXCEPT ![servers[a]] = retired(servers[a])]
  /\ run' = [run EXCEPT !.pc = "close", !.todo = @ \ {a}, !.victim = a]
  /\ UNCHANGED <<slot, up, faults, leader, leaderCh, dns, servers, status, wake, window>>

\* Mutant of RetireEnds: nothing is expected to come after a retirement.
RetireEndsQuietly ==
  /\ run.pc = "close"
  /\ LET c == servers[run.victim] IN
       /\ ns' = [ns EXCEPT ![c] = cancelled(c)]
       /\ slot' = IF ns'[c].sock = "open" THEN slot ELSE ClosedSlot(c)
  /\ servers' = [servers EXCEPT ![run.victim] = Nil]
  /\ run' = [run EXCEPT !.pc = "visit", !.victim = Nil]
  /\ UNCHANGED <<up, faults, leader, leaderCh, dns, status, wake, window>>

\* ... and then, in RetireEnds, the dial, the socket, the map and the asynchronous
\* Stop.
RetireEnds ==
  /\ run.pc = "close"
  /\ LET c == servers[run.victim] IN
       /\ ns' = [ns EXCEPT ![c] = cancelled(c)]
       /\ slot' = IF ns'[c].sock = "open" THEN slot ELSE ClosedSlot(c)
  /\ servers' = [servers EXCEPT ![run.victim] = Nil]
  /\ window' = TRUE
  /\ run' = [run EXCEPT !.pc = "visit", !.victim = Nil]
  /\ UNCHANGED <<up, faults, leader, leaderCh, dns, status, wake>>

\* All were visited: connectors for the wanted nodes that have none.  stopAll
\* publishes its status and starts nothing, as it wants nothing.
StartMissing ==
  /\ run.pc = "visit" /\ run.todo = {} /\ run.next = "start"
  /\ LET missing == run.want \ Served IN
       \E pick \in [missing -> {c \in Connectors : Free(c)}] :
         /\ \A a, b \in missing : pick[a] = pick[b] => a = b
         /\ servers' = [a \in Nodes |-> IF a \in missing THEN pick[a] ELSE servers[a]]
         /\ ns' = [c \in Connectors |->
                     IF \E a \in missing : pick[a] = c
                     THEN newNodeServer(CHOOSE a \in missing : pick[a] = c) ELSE ns[c]]
  /\ publishStatus
  /\ Goto("idle")
  /\ UNCHANGED <<slot, up, faults>>

\* The goroutine retire starts: Stop, then a request for another pass.
StopReturns(c) ==
  /\ Stopped(c)
  /\ wake' = TRUE
  /\ UNCHANGED <<leader, leaderCh, dns, servers, status, window, run>>
-----------------------------------------------------------------------------
(* Shutdown: ctx.Done in Run.                                              *)

\* Mutant of Cancel: leadership goes first, the process exit closes the sockets.
CancelHandoffFirst ==
  /\ run.pc = "idle"
  /\ Goto("transfer")
  /\ UNCHANGED <<connVars, servers, status>>

Cancel ==
  /\ run.pc = "idle"
  /\ Pass({}, "transfer")

\* stopAll has retired every connector.
AllStopped ==
  /\ run.pc = "visit" /\ run.todo = {} /\ run.next = "transfer"
  /\ Goto("transfer")
  /\ UNCHANGED <<connVars, servers>>
  /\ publishStatus

\* TransferLeadership does nothing on a follower or for a single voter.
NoHandoff ==
  /\ run.pc = "transfer" /\ (leader # "self" \/ Voters < 2)
  /\ Goto("wait")
  /\ UNCHANGED <<connVars, servers, status>>

\* raft begins a transfer: from here on it refuses reservations.
BeginHandoff ==
  /\ run.pc = "transfer" /\ leader = "self" /\ Voters >= 2
  /\ Goto("future")
  /\ UNCHANGED <<connVars, servers, status>>

\* Mutant of SteppedDown: the future is taken for the whole handoff.
SteppedDownDone ==
  /\ run.pc = "future" /\ leader # "self"
  /\ run' = [run EXCEPT !.pc = "wait", !.handoff = "ok"]
  /\ UNCHANGED <<connVars, leader, leaderCh, dns, servers, status, wake, window>>

\* The transfer's future: this replica has stepped down.
SteppedDown ==
  /\ run.pc = "future" /\ leader # "self"
  /\ Goto("observe")
  /\ UNCHANGED <<connVars, servers, status>>

\* LeaderWithID names another node.
LeaderObserved ==
  /\ run.pc = "observe" /\ leader = "other"
  /\ run' = [run EXCEPT !.pc = "wait", !.handoff = "ok"]
  /\ UNCHANGED <<connVars, leader, leaderCh, dns, servers, status, wake, window>>

\* Mutant of HandoffFails: only the future is bounded, not the wait for a leader.
HandoffFailsEarly ==
  /\ run.pc = "future"
  /\ run' = [run EXCEPT !.pc = "wait", !.handoff = "failed"]
  /\ UNCHANGED <<connVars, leader, leaderCh, dns, servers, status, wake, window>>

\* The membership cannot be read, the transfer fails, or the timeout expires.
HandoffFails ==
  /\ run.pc \in {"future", "observe"} \/ (run.pc = "transfer" /\ leader = "self")
  /\ run' = [run EXCEPT !.pc = "wait", !.handoff = "failed"]
  /\ UNCHANGED <<connVars, leader, leaderCh, dns, servers, status, wake, window>>

\* stopping.Wait: every Stop has returned.
Exit ==
  /\ run.pc = "wait" /\ \A c \in Connectors : ns[c].stop # "running"
  /\ Goto("done")
  /\ UNCHANGED <<connVars, servers, status>>

RunStep ==
  \/ CheckLeader \/ Resolve \/ StartMissing \/ RetireEnds
  \/ \E a \in Nodes : Keep(a) \/ RetireBegins(a)
  \/ AllStopped \/ NoHandoff \/ BeginHandoff
  \/ SteppedDown \/ LeaderObserved \/ HandoffFails \/ Exit
-----------------------------------------------------------------------------
(* The environment: raft, DNS and time.                                    *)

\* A change of leadership; LeaderCh holds the latest.  A transfer makes this
\* replica step down and another one win, or not.
LeaderChanges(l) ==
  /\ leader # l /\ (l = "self" => leader = Nil)
  /\ IF run.pc \in {"future", "observe"} /\ l # "self" THEN UNCHANGED faults ELSE Fault
  /\ leader' = l
  /\ leaderCh' = (leaderCh \/ "self" \in {leader, l})
  /\ UNCHANGED <<ns, slot, up, dns, servers, status, wake, window, run>>

DnsUpdate ==
  /\ dns # up
  /\ dns' = up
  /\ UNCHANGED <<connVars, leader, leaderCh, servers, status, wake, window, run>>

WindowEnds ==
  /\ window
  /\ window' = FALSE
  /\ UNCHANGED <<connVars, leader, leaderCh, dns, servers, status, wake, run>>

Environment ==
  \/ \E l \in {"self", "other", Nil} : LeaderChanges(l)
  \/ DnsUpdate \/ WindowEnds
  \/ /\ \/ \E a \in Nodes : NodeCloses(a) \/ NodeNotices(a)
        \/ \E listening \in UpSets \ {up} : Churn(listening)
     /\ UNCHANGED lcVars

Connector(c) == Serve(c) /\ UNCHANGED lcVars
Arrives(c) == Request(c) /\ UNCHANGED lcVars
FallsSilent(c) == Silence(c) /\ UNCHANGED lcVars

Next ==
  \/ RunStep \/ ResolveFails
  \/ TakeLeaderCh \/ TakeWake \/ Watch \/ Tick \/ Cancel
  \/ \E c \in Connectors : Connector(c) \/ Arrives(c) \/ FallsSilent(c) \/ StopReturns(c)
  \/ Environment

Spec == Init /\ [][Next]_vars

\* Goroutines run, and Go's select picks at random among the events that are
\* ready, so none that keeps being ready is passed over for ever.  Time passes.
\* Nodes ping, and notice closed connections.
Fairness ==
  /\ WF_vars(RunStep) /\ SF_vars(TakeLeaderCh) /\ SF_vars(TakeWake) /\ SF_vars(Watch)
  /\ WF_vars(DnsUpdate)
  /\ \A c \in Connectors :
       /\ WF_vars(Connector(c) /\ UNCHANGED faults)
       /\ WF_vars(StopReturns(c)) /\ WF_vars(Arrives(c))
       /\ WF_vars(FallsSilent(c) /\ UNCHANGED faults)
  /\ \A a \in Nodes : WF_vars(NodeNotices(a) /\ UNCHANGED lcVars)

\* The reconcile interval may be so long that its tick cannot be counted on.
FairSpec == Spec /\ Fairness
-----------------------------------------------------------------------------
\* A reply of connector c reaches its node.
Delivered(c) == ns[c].stage = "replying" /\ ns'[c].stage = "reading" /\ ns[c].sock = "open"

\* The published status is the serving set whenever the run loop waits: neither
\* a health scan that latches a connection nor a pass that retires one leaves an
\* old snapshot behind (publishStatus).
StatusCurrent ==
  /\ TypeOK
  /\ run.pc = "idle" =>
       \A a \in Nodes :
         /\ (status[a] = Nil) = (servers[a] = Nil)
         /\ servers[a] # Nil => (status[a] = "connected") = ns[servers[a]].connected

\* Retirement is final and silent.  A connector begins to sign only while it is
\* the one in the serving set, so that a request read before retirement cannot
\* race the replacement for a reservation; its refusal, which the node would take
\* as final, never reaches the node; and no socket it has got past track stays
\* open, whatever stage it was in (handleRequest, track, retire).
RetiredStaysSilent ==
  [][\A c \in Connectors :
       /\ ns[c].stage = "handling" /\ ns'[c].stage = "signing" => servers[ns[c].addr] = c
       /\ Delivered(c) => ns[c].reply # "refused"
       /\ ns'[c].cancelled /\ ns'[c].stage # "dialing" => ns'[c].sock # "open"]_vars

\* From the moment leadership may be given up at shutdown, no node gets an answer
\* from this replica: its connections are gone before raft begins to refuse, so
\* the nodes' retries go to the next leader (Run).  And the handoff is reported
\* done only when another leader has been seen, not when this replica has merely
\* stepped down (TransferLeadership): the transport is closed right after.
QuietHandoff ==
  [][/\ \A c \in Connectors :
          Delivered(c) => run.pc \notin {"transfer", "future", "observe", "wait", "done"}
     /\ run'.handoff = "ok" /\ run.handoff # "ok" => leader = "other"]_vars

\* A replica that stays without leadership ends up serving no node, also when
\* leadership is lost between reconcile's check and the end of its pass.
FollowerServesNothing ==
  <>[](leader # "self") => <>[](Served = {})

\* Node a is served over a connection that works.
Connected(a) ==
  /\ servers[a] # Nil /\ slot[a] = servers[a]
  /\ IsConnected(servers[a]) /\ ns[servers[a]].sock = "open"

Leads == <>[](leader = "self" /\ run.next = "start")
AllServed == Served = up /\ \A a \in up : Connected(a)

\* With the tick of the reconcile interval, exactly the nodes that listen end up
\* served for good over live connections, once they stay the same and DNS has
\* caught up with them: a dead socket that still counts as connected is noticed.
TargetsServed == Leads /\ WF_vars(Tick) => <>[]AllServed

\* Shutdown ends: the handoff is bounded and every Stop returns because its
\* socket was closed (Run, TransferLeadership).
ShutdownEnds == run.next = "transfer" ~> run.pc = "done"
=============================================================================
