CONSTANTS
  t1 = t1  t2 = t2  f1 = f1  d1 = d1  m1 = m1  m2 = m2  b1 = b1  b2 = b2 
  Nil = Nil
  Threads = {t1, t2}
  Files = {f1}
  FileOf <- MCFileOf
  Fds = {d1}
  Maps = {m1, m2}
  Bufs = {b1, b2}
  Ops = {"invoke", "mmap", "pages", "heap", "rheap", "munmap", "munmap_fd", "create", "static", "open", "close"}
  MaxOps = 3
  MaxRestart = 1
SPECIFICATION Spec
SYMMETRY MCSymmetry
CHECK_DEADLOCK FALSE
INVARIANTS
  RefsExact
  NoUseAfterFree
  HeapReturned
  CloseFreesAll
