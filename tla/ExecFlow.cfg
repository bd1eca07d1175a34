SPECIFICATION FairSpec
CONSTANTS
  InTotal = 3
  OutTotal = 2
  UpCap = 1
  DownCap = 3
  ReadMax = 2
  ToCardLimit = 1
  H2cCap = 2
  C2hCap = 1
  Backlog = 1
  InCap = 3
  PipeCap = 1
INVARIANT InputInv
PROPERTIES AgentUnblocked StatAnswered SessionEnds
CHECK_DEADLOCK FALSE
