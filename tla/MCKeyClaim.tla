---- MODULE MCKeyClaim ----
(* Instances of KeyClaim for TLC. *)
EXTENDS KeyClaim, TLC

Symmetry == Permutations(Claimers) \cup Permutations(Clusters) \cup Permutations(Keys)
====
