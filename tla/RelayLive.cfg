SPECIFICATION FairSpec
CONSTANTS
  c1 = c1
  c2 = c2
  None = None
  Conn <- TwoConn
  Permitted <- TwoConn
  NSlots = 2
  Kinds = {"exec", "put", "stat"}
  MaxRequests = 1
  MaxData = 0
  MaxOut = 0
  StatCap = 1
  RingCap = 1
  ToCardLimit = 1
PROPERTIES Served CardFreed
INVARIANT StatOrder
