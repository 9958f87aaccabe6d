CONSTANTS
  t1 = t1  t2 = t2  f1 = f1  Nil = Nil
  Threads = {t1, t2}
  Files = {f1}
  Channels = {0, 3}
  Cdsp = 3
  MaxOps = 4
SPECIFICATION Spec
SYMMETRY MCSymmetry
CHECK_DEADLOCK FALSE
INVARIANTS
  QosReleased
  ReaderLive
  SessionOfChannel
  ProcessEnds
