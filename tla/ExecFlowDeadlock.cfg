SPECIFICATION FairSpec
CONSTANTS
  InTotal = 1
  OutTotal = 4
  UpCap = 1
  DownCap = 1
  ReadMax = 2
  ToCardLimit = 1
  H2cCap = 1
  C2hCap = 1
  Backlog = 1
  InCap = 3
  PipeCap = 1
PROPERTY AgentUnblocked
CHECK_DEADLOCK FALSE
