---- MODULE MCDiscovery ----
(* An instance of Discovery for TLC. *)
EXTENDS Discovery

CONSTANTS n1, n2, n3

\* Node n1 is replaced by n2, alone or beside n3, there at once or after a while.
MCChanges ==
  {<<{n1}, {n2}>>, <<{n2}, {n1}>>,
   <<{n1, n3}, {n2, n3}>>, <<{n1, n3}, {n3}>>, <<{n3}, {n2, n3}>>}
MCUpSets == UNION {{e[1], e[2]} : e \in MCChanges}
====
