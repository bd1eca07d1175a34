SPECIFICATION Spec
CONSTANTS
  c1 = c1
  c2 = c2
  None = None
  Conn <- TwoConn
  Permitted <- TwoConn
  NSlots = 2
  Kinds = {"exec", "put", "get", "stat", "ping", "sensors", "bad"}
  MaxRequests = 1
  MaxData = 1
  MaxOut = 1
  StatCap = 2
  RingCap = 2
  ToCardLimit = 3
SYMMETRY Symmetry2
INVARIANTS RelayInv NoCrossTalk NoForeignInput
