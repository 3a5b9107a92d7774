--------------------------- MODULE MCGatedSigner ---------------------------
(* Small instances of GatedSigner for TLC. *)
EXTENDS GatedSigner, TLC

Vote(type, h, b, t) == [chain |-> "c1", type |-> type, height |-> h, round |-> 0,
                        block |-> b, ts |-> t, ext |-> FALSE]

ConflictingRequests == {Vote("precommit", 1, "A", 1), Vote("precommit", 1, "B", 1)}

RetriedRequests == {Vote("proposal", 1, "A", 1), Vote("proposal", 1, "A", 2)}

\* One chain climbs through the steps and rounds of a height; the second votes
\* once; one request comes back with a later timestamp.
On(chain, m) == [m EXCEPT !.chain = chain]
InRound(r, m) == [m EXCEPT !.round = r]
WithExtension(m) == [m EXCEPT !.ext = TRUE]
ClimbingRequests ==
  {Vote("proposal", 1, "A", 1), Vote("prevote", 1, "A", 1), Vote("prevote", 1, "A", 2),
   InRound(1, Vote("proposal", 1, "A", 1)), WithExtension(Vote("precommit", 1, "A", 1)),
   On("c2", Vote("prevote", 1, "nil", 1)), Vote("unknown", 1, "A", 1)}

NoMarks == {}

\* A cluster upgraded from the legacy snapshot format: a signed mark, and a mark
\* whose reservation was never completed.
UpgradeMarks ==
  LET b == SignBytesOf(Vote("prevote", 1, "A", 1))
  IN  {MarkOf(b, Nil), MarkOf(b, [over |-> b, salt |-> 1])}

Symmetry == Permutations(Replicas) \cup Permutations(Callers)
=============================================================================
