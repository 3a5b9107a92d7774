---- MODULE MCKeySession ----
(* Instances of KeySession for TLC. *)
EXTENDS KeySession

\* Two periodic tokens, one that never expires, one that cannot be renewed and
\* one that cannot sign.
MCTokens == {"a", "b", "root", "doomed", "mute"}
MCPeriod == [t \in MCTokens |-> CASE t \in {"a", "b"} -> 12 [] t = "doomed" -> 6 [] OTHER -> 0]
MCRenewable == MCTokens \ {"root", "doomed"}
MCSigners == MCTokens \ {"mute"}
====
