---------------------------- MODULE SigningGate ----------------------------
(***************************************************************************)
(* What the cluster promises: to behave like one durable gate in front of  *)
(* the key.  There is one mark per chain.  Bytes become the mark only from *)
(* below; only bytes that were once the mark are signed; only the first    *)
(* signature of a mark is recorded; only recorded signatures are released. *)
(* There are no replicas, leaders, retries or crashes here.                *)
(***************************************************************************)
EXTENDS HighWaterMark

CONSTANT InitialMarks   \* marks a chain may start with

VARIABLES mark,      \* chain -> its mark
          reserved,  \* all bytes that were ever a mark
          recorded,  \* all signatures that were ever recorded for a mark
          signed,    \* all signatures the key has produced
          released   \* all signatures handed to a node

gateVars == <<mark, reserved, recorded, signed, released>>

GateInit ==
  /\ mark \in [Chains -> InitialMarks \cup {Nil}]
  /\ \A c \in Chains : mark[c] # Nil => IsMark(c, mark[c])
  /\ reserved = {mark[c].signBytes : c \in {d \in Chains : mark[d] # Nil}}
  /\ recorded = {mark[c].signature : c \in {d \in Chains : mark[d] # Nil}} \ {Nil}
  /\ signed = recorded
  /\ released = {}

GateReserve(b) ==
  /\ mark[b.chain] = Nil \/ Below(mark[b.chain], b)
  /\ mark' = [mark EXCEPT ![b.chain] = MarkOf(b, Nil)]
  /\ reserved' = reserved \cup {b}
  /\ UNCHANGED <<recorded, signed, released>>

GateSign(s) ==
  /\ s.over \in reserved
  /\ signed' = signed \cup {s}
  /\ UNCHANGED <<mark, reserved, recorded, released>>

GateRecord(s) ==
  /\ s \in signed
  /\ mark[s.over.chain] = MarkOf(s.over, Nil)
  /\ mark' = [mark EXCEPT ![s.over.chain] = MarkOf(s.over, s)]
  /\ recorded' = recorded \cup {s}
  /\ UNCHANGED <<reserved, signed, released>>

GateRelease(s) ==
  /\ s \in recorded
  /\ released' = released \cup {s}
  /\ UNCHANGED <<mark, reserved, recorded, signed>>

GateNext ==
  \/ \E b \in SignBytes : GateReserve(b)
  \/ \E s \in Signature : GateSign(s) \/ GateRecord(s) \/ GateRelease(s)

GateSpec == GateInit /\ [][GateNext]_gateVars
=============================================================================
