SPECIFICATION Spec
CONSTANTS
  Chains = {"c1"}
  Heights = {1}
  Rounds = {0}
  Blocks = {"A", "B"}
  Times = {1, 2}
  ClusterIDs = {"id1"}
  Nil = Nil
  NilBlock = "nil"
  Salts = {1, 2}
  Replicas = {n1, n2}
  Callers = {w1, w2}
  LegacyMarks <- NoMarks
  SnapshotThreshold = 9
  MaxProposals = 4
  MaxFaults = 1
  Requests <- ConflictingRequests
SYMMETRY Symmetry
CHECK_DEADLOCK FALSE
INVARIANTS NoDoubleSign ReleasedIsRecorded OneSignaturePerHRS
