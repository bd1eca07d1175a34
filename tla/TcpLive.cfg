SPECIFICATION FairSpec
CONSTANTS
  SeqMod = 16
  Isns = {3}
  CardIsn = 14
  HostBytes = 1
  CardBytes = 2
  Mss = 2
  SndCap = 2
  RcvCap = 1
  CardCap = 1
  RingCap = 1
  SendQuota = 1
  Rests = {0, 6}
  MaxRetries = 1
  MaxCardRetries = 1
PROPERTIES FinSettles
CHECK_DEADLOCK FALSE
