---------------------------- MODULE KeyOwnership ----------------------------
(***************************************************************************)
(* What the claim of a key promises, whichever store keeps it: the first   *)
(* cluster to own the key owns it for ever, and only a cluster that owns   *)
(* it is told so.                                                          *)
(***************************************************************************)
CONSTANTS Clusters, Nil

VARIABLES owner,  \* the cluster the key belongs to, or Nil
          told    \* the clusters whose claim was reported as successful

Init == owner = Nil /\ told = {}

Own(k) == owner = Nil /\ owner' = k /\ UNCHANGED told
Tell(k) == owner = k /\ told' = told \cup {k} /\ UNCHANGED owner

Next == \E k \in Clusters : Own(k) \/ Tell(k)

Spec == Init /\ [][Next]_<<owner, told>>
=============================================================================
