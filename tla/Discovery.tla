----------------------------- MODULE Discovery -----------------------------
(***************************************************************************)
(* How a replaced node is found again without the tick of the reconcile    *)
(* interval.  A Lifecycle, and a history of how long ago it has retired a  *)
(* connection, against which the node source is late or in time.           *)
(***************************************************************************)
EXTENDS Lifecycle

CONSTANTS Alone, Together,  \* the nodes that listen first, in each scenario
          Changes,          \* <<before, after>>: how the nodes that listen change
          Spare             \* connectors that only the second scenario uses

VARIABLE since   \* history: the last retirement, "recent" (less than the window
                 \* ago) or "long" ago; "late", for ever, once DNS came too late;
                 \* Nil in the first scenario, where it is not followed

discoveryVars == <<vars, since>>

\* First scenario: Run starts with nothing, and anything may fail, once.
Starting ==
  /\ up = Alone /\ RunInit
  /\ ns = [k \in Connectors |->
             IF k \in Spare THEN [Unused EXCEPT !.addr = CHOOSE n \in Nodes : TRUE, !.stage = "ended"]
             ELSE Unused]
  /\ slot = [n \in Nodes |-> Nil] /\ faults = MaxFaults - 1
  /\ since = Nil

\* Second scenario: a leader has served a set of nodes for long.
Serving ==
  /\ up = Together /\ dns = up /\ faults = 0
  /\ LET conn == CHOOSE f \in [up -> Connectors] : \A m, n \in up : f[m] = f[n] => m = n
     IN /\ servers = [n \in Nodes |-> IF n \in up THEN conn[n] ELSE Nil]
        /\ ns = [k \in Connectors |->
                   IF \E n \in up : conn[n] = k
                   THEN [newNodeServer(CHOOSE n \in up : conn[n] = k) EXCEPT
                           !.stage = "reading", !.sock = "open", !.connected = TRUE]
                   ELSE Unused]
  /\ slot = servers /\ status = [n \in Nodes |-> IF n \in up THEN "connected" ELSE Nil]
  /\ leader = "self" /\ leaderCh = FALSE /\ wake = FALSE /\ window = FALSE
  /\ run = [pc |-> "idle", want |-> up, todo |-> {}, victim |-> Nil,
            next |-> "start", handoff |-> Nil]
  /\ since = "long"

\* In the second one the nodes that listen change and lookups fail, no more.
InScenario ==
  /\ up' # up => <<up, up'>> \in Changes
  /\ since # Nil => /\ run'.next = "start"
                    /\ faults' # faults => up' # up \/ ResolveFails

\* DNS is too late: it names a new node when none has gone, now or within the
\* window, or the window ends before what DNS names then was looked up.
Late ==
  \/ dns' # dns /\ since = "long" /\ Served \subseteq dns' /\ Served # dns'
  \/ WindowEnds /\ run.want \notin {{}, dns}

Retires == \E n \in Nodes : servers[n] # Nil /\ servers'[n] = Nil

History ==
  since' = IF since \in {Nil, "late"} THEN since
           ELSE IF Late THEN "late"
           ELSE IF Retires THEN "recent"
           ELSE IF WindowEnds THEN "long" ELSE since

DiscoveryInit == Starting \/ Serving
DiscoveryNext == Next /\ InScenario /\ History

\* How long the window lasts, and whether it ends at all, is left open.
DiscoverySpec == DiscoveryInit /\ [][DiscoveryNext]_discoveryVars /\ Fairness
-----------------------------------------------------------------------------
\* Without the tick, a replica that keeps serving something still finds the node
\* that replaced another, whether DNS names both at once or first drops the one
\* that went and names the new one within the window, after everything that is
\* served looks healthy again: the wake after a retirement, the discovery window
\* and the scan for unconnected connectors are enough (retire, needsFastDiscovery).
\* A node that appears later, or that replaces none, is left to the tick.
ReplacementFound ==
  Leads /\ []<>(Served # {}) /\ [](since # "late") => <>[]AllServed
=============================================================================
