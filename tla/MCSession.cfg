CONSTANTS
  t1 = t1  t2 = t2  f1 = f1  f2 = f2  Nil = Nil
  Threads = {t1, t2}
  Files = {f1, f2}
  SessCount = 4
  Secure = {2}
  Shared = {4}
SPECIFICATION Spec
SYMMETRY MCSymmetry
INVARIANTS
  SecureExclusive
  SecureReturned
