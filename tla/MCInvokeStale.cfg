CONSTANTS
  t1 = t1  t2 = t2  f1 = f1  f2 = f2  d1 = d1  d2 = d2
  c1 = c1  c2 = c2  c3 = c3  Nil = Nil
  Threads = {t1, t2}
  Files = {f1}
  Cids = {d1}
  PdFiles = {f1}
  FileCid <- MCFileCid
  Ctxs = {c1, c2}
  CtxPage <- MCCtxPage
  CtxMax = 2
  Scs = {1}
  MaxCalls = 3
  MaxSsr = 0
  MaxPdr = 1
SPECIFICATION Spec
SYMMETRY MCSymmetry
CHECK_DEADLOCK FALSE
INVARIANT
  OwnAnswer
