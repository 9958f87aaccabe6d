CONSTANTS
  BALIGN = 4
  PAGE = 8
  LINE = 2
  AddrMax = 16
  MetaLen = 3
  Calls <- MCCalls
SPECIFICATION Spec
CHECK_DEADLOCK FALSE
INVARIANTS
  CopiesFaithful
  CacheClean
