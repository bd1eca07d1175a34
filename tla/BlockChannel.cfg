SPECIFICATION FairSpec
CONSTANTS
  NoReq = NoReq
  Services <- AllServices
  SegLists <- Lists
  MaxDepth = 2
  TxCap = 3
  RxCap = 2
  MaxInFlight = 2
  MaxReqs = 2
INVARIANTS ServiceInv CompletionsMatch MovedUnlessAbandoned FlushAfterWrites
PROPERTIES EveryRequestEnds
