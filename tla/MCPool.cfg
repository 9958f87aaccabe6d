CONSTANTS
  NumThreads = 2
  MaxRuns = 3
SPECIFICATION FairSpec
CHECK_DEADLOCK FALSE
INVARIANTS
  TasksAccounted
PROPERTIES
  SummaryInOrder
  TaskRuns
  StopReturns
