CONSTANTS
  Claimers = {p1}
  Clusters = {k1}
  Nil = Nil
  MaxFaults = 1
  Provider = "gcp"
  Attempts = 1
SPECIFICATION Spec
PROPERTIES OtherLabelsKept
CHECK_DEADLOCK FALSE
