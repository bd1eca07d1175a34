SPECIFICATION Spec
CONSTANTS
  SeqMod = 16
  Isns = {3}
  CardIsn = 14
  HostBytes = 2
  CardBytes = 2
  Mss = 2
  SndCap = 2
  RcvCap = 1
  CardCap = 1
  RingCap = 1
  SendQuota = 1
  Rests = {0, 6}
  MaxRetries = 1
  MaxCardRetries = 1
INVARIANTS TcpInv CardInOrder HostInOrder CardEofComplete ShutComplete
CHECK_DEADLOCK FALSE
