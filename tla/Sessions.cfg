CONSTANTS
  Nil = Nil
  Tokens <- MCTokens
  Period <- MCPeriod
  Renewable <- MCRenewable
  Signers <- MCSigners
  First = "a"
  Slack = 11
  MaxWrites = 2
  Poll = 3
  LookupRetry = 2
  RenewRetry = 1
  MaxFailures = 1
  Backends = {b1, b2}
  Keys = {y1, y2}
  PINs = {n1, n2}
  MaxFaults = 2
SPECIFICATION FairSpec
CHECK_DEADLOCK FALSE
INVARIANTS TokenKeptAlive OneWrongPIN
PROPERTIES SignedByIdentity ModuleOutlivesSessions CloseEnds SignsAgain
