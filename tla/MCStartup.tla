---- MODULE MCStartup ----
(* Instances of Startup for TLC. *)
EXTENDS Startup

Vary(m, b, h, cl, cr) ==
  {[mode |-> m, cluster |-> k, backend |-> b, http |-> h, claim |-> cl,
    credentials |-> cr, voters |-> 1] : k \in Clusters}

\* Two clusters compete for the key; every mode and backend occurs.  The cluster
\* does not matter to initialize-only.
Competing == Vary("start", "vault", TRUE, TRUE, TRUE)
        \cup Vary("start", "software", FALSE, FALSE, FALSE)
        \cup Vary("start", "pkcs11", TRUE, TRUE, FALSE)
        \cup Vary("claim-key", "vault", FALSE, FALSE, FALSE)
        \cup {[mode |-> "initialize-only", cluster |-> CHOOSE k \in Clusters : TRUE,
               backend |-> "software", http |-> TRUE, claim |-> FALSE,
               credentials |-> FALSE, voters |-> n] : n \in 1..2}
====
