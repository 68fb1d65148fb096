SPECIFICATION Spec
CONSTANTS
  e1 = e1
  e2 = e2
  e3 = e3
  t1 = t1
  t2 = t2
  k1 = k1
  k2 = k2
  Threads = {t1, t2}
  Execs = {e1, e2, e3}
  None = None
  ThreadOf <- Thread
  KeyOf <- Network
  Servers = {s1}
  PoolKeys = {k1, k2}
  OpenKeys = {k2}
  Packages = {p1}
INVARIANTS Registered
CHECK_DEADLOCK FALSE
