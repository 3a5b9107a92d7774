CONSTANTS
  Procs = {p1, p2}
  None = None
  NodeIDs = {"n0", "n1", "n2"}
  Self = "n0"
  Options <- AllOptions
  Foreign = {"n0", "n1", "n2"}
  MaxOpens = 3
SPECIFICATION FairSpec
CHECK_DEADLOCK FALSE
INVARIANTS OneRaftInstance
PROPERTIES NeverBootstrappedTwice OpenEnds
