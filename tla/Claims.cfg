CONSTANTS
  Clusters = {k1, k2}
  Nil = Nil
  MaxFaults = 3
  Claimers = {q1, q2, q3}
  Procs = {p1, p2, p3}
  Relocating = {p2}
  Keys = {y1, y2, y3}
  Torn = Torn
SPECIFICATION Spec
CHECK_DEADLOCK FALSE
SYMMETRY Symmetry
INVARIANTS NoFalseCorrupt ClaimedKeyStays
PROPERTIES OneOwner
