CONSTANTS
  f1 = f1  f2 = f2  Nil = Nil
  Files = {f1, f2}
  IsAdsp = TRUE
  MaxSsr = 2
  MaxOps = 3
  MaxHeap = 1
SPECIFICATION FairSpec
CHECK_DEADLOCK FALSE
INVARIANTS
  KrefCovers
  HandleLive
  NoOrphan
PROPERTIES
  ChannelKept
  SuccessHasChannel
  OpenReturns
