---- MODULE MCStoreOpen ----
(* Instances of StoreOpen for TLC. *)
EXTENDS StoreOpen

\* Every way to be asked to bootstrap, well formed or not, and not to be.
AllOptions == {[bootstrap |-> b, single |-> s, members |-> m] :
                 b \in BOOLEAN, s \in BOOLEAN, m \in {{}, {"n1"}, {"n0", "n1"}, {"n0", ""}}}
====
