--------------------------- MODULE MCClusterInit ---------------------------
(* Small instances of ClusterInit for TLC. *)
EXTENDS ClusterInit

MCLegacyMarks == {MarkOf([chain |-> "c1", height |-> 1, round |-> 0, step |-> StepPrevote,
                          block |-> "A", ts |-> 1], Nil)}
=============================================================================
