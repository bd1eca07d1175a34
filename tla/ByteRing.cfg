SPECIFICATION FairSpec
CONSTANTS
  Size = 4
  IdxMod = 8
  Byte <- MCByte
  Payload <- MCPayload
  MaxSent = 9
  MaxBoots = 1
INVARIANTS IInv NeverOverfull PublishedIntact CopiesDisjoint
PROPERTIES StreamRefinement EveryByteTaken
CHECK_DEADLOCK FALSE
