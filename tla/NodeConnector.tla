--------------------------- MODULE NodeConnector ---------------------------
(***************************************************************************)
(* One nodeServer per target node: the goroutine of cometbft's             *)
(* SignerServer that dials the node, reads its requests and answers them,  *)
(* against retirement, which another goroutine may begin at any time.      *)
(* A node holds one signer connection at a time.                           *)
(***************************************************************************)
EXTENDS Naturals, FiniteSets

CONSTANTS Nodes,       \* addresses of the target nodes
          Connectors,  \* identities for nodeServers, reused once one has ended
          Nil,
          Stale,       \* in slot: the node still holds a connection that is closed
          MaxFaults    \* bound: connections that break, calls that fail

ASSUME ConnAssumption ==
  /\ MaxFaults \in Nat
  /\ Nil \notin Nodes \cup Connectors \cup {"dialing", "connected"}

VARIABLES ns,      \* connector -> its nodeServer
          slot,    \* node -> the connector whose connection it has accepted
          up,      \* the nodes that listen
          faults   \* faults so far

connVars == <<ns, slot, up, faults>>

Stages == {"unused", "dialing", "waiting", "handshake", "handed",
           "reading", "handling", "signing", "replying", "ended"}

\* sock: "reset" is a socket closed on this side or reset by the peer, "dead" one
\* whose peer has gone with a FIN: reading it gives io.EOF for ever.
NodeServer == [addr : Nodes \cup {Nil}, stage : Stages,
               sock : {"none", "open", "reset", "dead"},
               retired : BOOLEAN, cancelled : BOOLEAN,
               connected : BOOLEAN, silent : BOOLEAN,
               reply : {Nil, "answer", "refused"},
               stop : {"no", "running", "done"}]

Unused == [addr |-> Nil, stage |-> "unused", sock |-> "none",
           retired |-> FALSE, cancelled |-> FALSE, connected |-> FALSE,
           silent |-> FALSE, reply |-> Nil, stop |-> "no"]

\* newNodeServer and srv.Start: touched, and dialing.
newNodeServer(a) == [Unused EXCEPT !.addr = a, !.stage = "dialing"]

Free(c) == \/ ns[c].stage = "unused"
           \/ ns[c].stage = "ended" /\ ns[c].stop = "done"

\* The endpoint holds a connection (IsConnected); it keeps one that gives EOF.
IsConnected(c) == ns[c].stage \in {"reading", "handling", "signing", "replying"}

ConnTypeOK ==
  /\ ns \in [Connectors -> NodeServer]
  /\ slot \in [Nodes -> Connectors \cup {Nil, Stale}]
  /\ up \subseteq Nodes
  /\ faults \in 0..MaxFaults
  /\ \A c \in Connectors : ns[c].stage # "unused" => ns[c].addr \in Nodes

ConnInit ==
  /\ ns = [c \in Connectors |-> Unused]
  /\ slot = [a \in Nodes |-> Nil]
  /\ faults = 0

Fault == faults < MaxFaults /\ faults' = faults + 1

\* What the node holds after c's socket was closed, until it notices.
ClosedSlot(c) == IF ns[c].sock = "open" /\ slot[ns[c].addr] = c
             THEN [slot EXCEPT ![ns[c].addr] = Stale] ELSE slot
-----------------------------------------------------------------------------
(* dial: it gives up only once the connector is retired.                   *)

\* A failed dialOnce: the loop of dial ends when dialCtx is cancelled.
DialAgain(c) == IF ns[c].cancelled THEN "ended" ELSE "waiting"

\* Mutant of track: the socket is recorded without looking at the retired flag.
trackAlways(c) == TRUE

\* track and handOver, under connMu: the connector is not retired.
track(c) == ~ns[c].retired
handOver(c) == ~ns[c].retired

\* DialContext has a connection, and track records it for closeConn.
Dialed(c) ==
  /\ ns[c].stage = "dialing" /\ ns[c].addr \in up
  /\ ns' = IF track(c)
           THEN [ns EXCEPT ![c].sock = "open", ![c].stage = "handshake"]
           ELSE [ns EXCEPT ![c].stage = DialAgain(c)]
  /\ UNCHANGED <<slot, up, faults>>

DialFails(c) ==
  /\ ns[c].stage = "dialing"
  /\ \/ (ns[c].cancelled \/ ns[c].addr \notin up) /\ UNCHANGED faults
     \/ Fault
  /\ ns' = [ns EXCEPT ![c].stage = DialAgain(c)]
  /\ UNCHANGED <<slot, up>>

Retry(c) ==
  /\ ns[c].stage = "waiting"
  /\ ns' = [ns EXCEPT ![c].stage = IF ns[c].cancelled THEN "ended" ELSE "dialing"]
  /\ UNCHANGED <<slot, up, faults>>

\* The node takes the connection from its accept queue and completes the
\* handshake; the connection goes to the endpoint if handOver allows it.
HandshakeDone(c) ==
  /\ ns[c].stage = "handshake" /\ ns[c].sock = "open"
  /\ ns[c].addr \in up /\ slot[ns[c].addr] = Nil
  /\ IF handOver(c)
     THEN /\ ns' = [ns EXCEPT ![c].stage = "handed"]
          /\ slot' = [slot EXCEPT ![ns[c].addr] = c]
     ELSE /\ ns' = [ns EXCEPT ![c].sock = "none", ![c].stage = DialAgain(c)]
          /\ slot' = [slot EXCEPT ![ns[c].addr] = Stale]
  /\ UNCHANGED <<up, faults>>

\* The deadline passes in the node's accept queue, or the socket was closed.
HandshakeFails(c) ==
  /\ ns[c].stage = "handshake"
  /\ \/ /\ ns[c].sock # "open" \/ ns[c].addr \notin up \/ slot[ns[c].addr] # Nil
        /\ UNCHANGED faults
     \/ Fault
  /\ ns' = [ns EXCEPT ![c].sock = "none", ![c].stage = DialAgain(c)]
  /\ UNCHANGED <<slot, up>>
-----------------------------------------------------------------------------
(* The service loop of SignerServer, external, and the request handler.    *)

\* The endpoint takes the connection dial returned.
Install(c) ==
  /\ ns[c].stage = "handed"
  /\ ns' = [ns EXCEPT ![c].stage = "reading"]
  /\ UNCHANGED <<slot, up, faults>>

\* A request, or a ping, arrives from the node.
Request(c) ==
  /\ ns[c].stage = "reading" /\ ns[c].sock = "open" /\ slot[ns[c].addr] = c
  /\ ns' = [ns EXCEPT ![c].stage = "handling"]
  /\ UNCHANGED <<slot, up, faults>>

\* A read times out or fails with a net.OpError: the endpoint drops the
\* connection and dials again.  EOF is neither.
Drop(c) ==
  /\ ns[c].stage = "reading"
  /\ \/ ns[c].sock \in {"reset", "none"} /\ UNCHANGED faults
     \/ ns[c].sock = "open" /\ Fault
  /\ ns' = [ns EXCEPT ![c].sock = "none", ![c].stage = "dialing"]
  /\ slot' = ClosedSlot(c)
  /\ UNCHANGED up

\* Mutant of handleRequest: the refusal is left to be written to the open socket.
handleRequestRefuse(c) ==
  /\ ns[c].stage = "handling"
  /\ ns' = IF ns[c].retired
           THEN [ns EXCEPT ![c].stage = "replying", ![c].reply = "refused"]
           ELSE [ns EXCEPT ![c].stage = "signing", ![c].silent = FALSE]
  /\ UNCHANGED <<slot, up, faults>>

\* abort closes once, with a reset; closeConn aborts the socket track recorded.
abort(sock) == IF sock = "none" THEN "none" ELSE "reset"
closeConn(c) == [ns[c] EXCEPT !.sock = abort(@)]

\* handleRequest: retired, it closes the socket and refuses; else it records the
\* activity and goes on to the private validator.
handleRequest(c) ==
  /\ ns[c].stage = "handling"
  /\ IF ns[c].retired
     THEN /\ ns' = [ns EXCEPT ![c] = [closeConn(c) EXCEPT !.stage = "replying",
                                                          !.reply = "refused"]]
          /\ slot' = ClosedSlot(c)
     ELSE /\ ns' = [ns EXCEPT ![c].stage = "signing", ![c].silent = FALSE]
          /\ UNCHANGED slot
  /\ UNCHANGED <<up, faults>>

\* The private validator has an answer.
Answer(c) ==
  /\ ns[c].stage = "signing"
  /\ ns' = [ns EXCEPT ![c].stage = "replying", ![c].reply = "answer"]
  /\ UNCHANGED <<slot, up, faults>>

\* The reply is written; on a closed socket the endpoint drops the connection.
WriteReply(c) ==
  /\ ns[c].stage = "replying"
  /\ ns' = [ns EXCEPT ![c].reply = Nil,
                      ![c].stage = IF ns[c].sock \in {"open", "dead"}
                                   THEN "reading" ELSE "dialing",
                      ![c].sock = IF @ = "reset" THEN "none" ELSE @]
  /\ UNCHANGED <<slot, up, faults>>

\* Longer than StaleConnTimeout without a request.  A healthy node pings more
\* often than that.
Silence(c) ==
  /\ ns[c].stage \notin {"unused", "ended"} /\ ~ns[c].silent /\ ~ns[c].retired
  /\ \/ (ns[c].sock # "open" \/ ns[c].addr \notin up) /\ UNCHANGED faults
     \/ Fault
  /\ ns' = [ns EXCEPT ![c].silent = TRUE]
  /\ UNCHANGED <<slot, up>>
-----------------------------------------------------------------------------
(* The node.                                                               *)

\* The node closes its side with a FIN.
NodeCloses(a) ==
  /\ slot[a] \in Connectors
  /\ Fault
  /\ ns' = [ns EXCEPT ![slot[a]].sock = IF @ = "open" THEN "dead" ELSE @]
  /\ slot' = [slot EXCEPT ![a] = Nil]
  /\ UNCHANGED up

\* A reset, or a failed ping, makes the node give up a closed connection.
NodeNotices(a) ==
  /\ slot[a] = Stale
  /\ slot' = [slot EXCEPT ![a] = Nil]
  /\ UNCHANGED <<ns, up, faults>>

\* The nodes that listen change.  Connections to one that went away are reset,
\* or closed with a FIN when the process had time for it.
Churn(listening) ==
  /\ Fault
  /\ up' = listening
  /\ slot' = [a \in Nodes |-> IF a \in listening THEN slot[a] ELSE Nil]
  /\ \E how \in {"reset", "dead"} :
       ns' = [c \in Connectors |->
                IF ns[c].sock = "open" /\ ns[c].addr \notin listening
                THEN [ns[c] EXCEPT !.sock = how] ELSE ns[c]]
-----------------------------------------------------------------------------
(* Retirement, from the run loop and the goroutine it starts.              *)

\* Mutant of retired: only Stop will end the service.
retiredLater(c) == ns[c]

\* retire, first half: the flag.
retired(c) == [ns[c] EXCEPT !.retired = TRUE]

\* retire, second half: cancel the dial, reset the socket, start the goroutine
\* that stops the server.
cancelled(c) == [closeConn(c) EXCEPT !.cancelled = TRUE, !.stop = "running"]

\* srv.Stop has returned: it waits for a read in flight, and closes the
\* connection the endpoint holds.
Stopped(c) ==
  /\ ns[c].stop = "running"
  /\ ~(ns[c].stage = "reading" /\ ns[c].sock = "open")
  /\ ns' = [ns EXCEPT ![c].stop = "done",
                      ![c].sock = IF IsConnected(c) THEN "none" ELSE @]
  /\ slot' = IF IsConnected(c) THEN ClosedSlot(c) ELSE slot
  /\ UNCHANGED <<up, faults>>

\* The service loop sees that the server was stopped.
ServiceEnds(c) ==
  /\ ns[c].stop = "done" /\ ns[c].stage \in {"reading", "dialing"}
  /\ ns' = [ns EXCEPT ![c].stage = "ended", ![c].sock = "none"]
  /\ slot' = ClosedSlot(c)
  /\ UNCHANGED <<up, faults>>

Serve(c) ==
  \/ Dialed(c) \/ DialFails(c) \/ Retry(c) \/ HandshakeDone(c) \/ HandshakeFails(c)
  \/ Install(c) \/ Drop(c) \/ handleRequest(c) \/ Answer(c) \/ WriteReply(c)
  \/ ServiceEnds(c)

=============================================================================
