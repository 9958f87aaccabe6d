CONSTANTS
  MaxData = 1
  MaxBatches = 3
  MaxLines = 2
  MaxClicks = 1
SPECIFICATION FairSpec
CHECK_DEADLOCK FALSE
INVARIANTS
  LinesCountedOnce
  NoLineLost
  SamplesExact
  OffloadExact
PROPERTY
  ExitUnlessFull
