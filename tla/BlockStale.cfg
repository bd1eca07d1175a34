SPECIFICATION Spec
CONSTANTS
  NoReq = NoReq
  Services <- Image
  SegLists <- Lists
  MaxDepth = 2
  TxCap = 3
  RxCap = 2
  MaxInFlight = 2
  MaxReqs = 2
INVARIANTS OkMeansMoved
