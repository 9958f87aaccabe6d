CONSTANTS
  d1 = d1  d2 = d2  d3 = d3  Nil = Nil  Err = Err
  Devices = {d1, d2, d3}
  NumChannels = 2
  ChanOf <- MCChanOf
  NumSessions = 2
  MaxSids = 2
SPECIFICATION Spec
SYMMETRY MCSymmetry
CHECK_DEADLOCK FALSE
INVARIANTS
  Unwinds
  SessionsBacked
  MappingsReturned
