SPECIFICATION FairSpec
CONSTANTS
  Chains = {"c1"}
  Heights = {1, 2}
  Rounds = {0}
  Blocks = {"A", "B", "nil"}
  Times = {1, 2}
  ClusterIDs = {"id1"}
  Nil = Nil
  NilBlock = "nil"
  Salts = {1}
  Replicas = {n1, n2}
  Callers = {w1}
  LegacyMarks <- NoMarks
  SnapshotThreshold = 9
  MaxProposals = 4
  MaxFaults = 1
  Requests <- RetriedRequests
CHECK_DEADLOCK FALSE
PROPERTIES ImplementsGate RequestsEnd ReservationsComplete
