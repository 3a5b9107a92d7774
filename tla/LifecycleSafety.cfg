CONSTANTS
  a = a
  b = b
  Nodes = {a, b}
  Connectors = {c1, c2}
  Nil = Nil
  Stale = Stale
  MaxFaults = 1
  UpSets <- Replaced
  Voters = 2
SPECIFICATION Spec
CHECK_DEADLOCK FALSE
SYMMETRY ConnectorSymmetry
INVARIANTS StatusCurrent
PROPERTIES QuietHandoff RetiredStaysSilent
