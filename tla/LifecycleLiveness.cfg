CONSTANTS
  n1 = n1
  n2 = n2
  n3 = n3
  Nodes = {n1, n2, n3}
  Connectors = {c1, c2}
  Spare = {c2}
  Nil = Nil
  Stale = Stale
  MaxFaults = 3
  UpSets <- MCUpSets
  Changes <- MCChanges
  Alone = {n1}
  Together = {n1, n3}
  Voters = 2
SPECIFICATION DiscoverySpec
CHECK_DEADLOCK FALSE
PROPERTIES TargetsServed ReplacementFound FollowerServesNothing ShutdownEnds
