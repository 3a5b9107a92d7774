SPECIFICATION Spec
CONSTANTS
  Chains = {"c1", "c2"}
  Heights = {1}
  Rounds = {0, 1}
  Blocks = {"A", "nil"}
  Times = {1, 2}
  ClusterIDs = {"id1"}
  Nil = Nil
  NilBlock = "nil"
  Salts = {1}
  Replicas = {n1, n2}
  Callers = {w1}
  LegacyMarks <- UpgradeMarks
  SnapshotThreshold = 1
  MaxProposals = 3
  MaxFaults = 1
  Requests <- ClimbingRequests
SYMMETRY Symmetry
CHECK_DEADLOCK FALSE
INVARIANTS StoreConsistent MarkCoversSigned ReleasedVerifies
