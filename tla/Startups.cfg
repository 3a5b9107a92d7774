CONSTANTS
  Procs = {p1, p2}
  Clusters = {k1, k2}
  None = None
  Configs <- Competing
  MaxStarts = 2
SPECIFICATION FairStartSpec
CHECK_DEADLOCK FALSE
INVARIANTS OneHistoryServes ReadyMeansServing
PROPERTIES HeldInOrder SignalEnds
