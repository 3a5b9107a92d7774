SPECIFICATION FairIdentitySpec
CONSTANTS
  Chains = {"c1"}
  Heights = {1}
  Rounds = {0}
  Blocks = {"A"}
  Times = {1}
  Salts = {1}
  ClusterIDs = {id1, id2, id3}
  Nil = Nil
  Replicas = {n1, n2}
  Callers = {n1, n2}
  LegacyMarks <- MCLegacyMarks
  SnapshotThreshold = 1
  MaxProposals = 3
  MaxFaults = 1
CHECK_DEADLOCK FALSE
INVARIANTS OwnSnapshotsAccepted IdentityAgreed
PROPERTIES EveryReplicaGetsIdentity
