---- MODULE MCLifecycle ----
(* Instances of Lifecycle for TLC. *)
EXTENDS Lifecycle, TLC

CONSTANTS a, b

Replaced == {{a}, {b}}
ConnectorSymmetry == Permutations(Connectors)
====
