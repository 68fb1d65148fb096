SPECIFICATION Spec
CONSTANTS
  Callers = {c1, c2, c3}
  Keys = {k1, k2}
  NoKey = NoKey
  Ttl = 2
  Interval = 1
  MaxTime = 5
  MaxConns = 3
SYMMETRY Symmetry
INVARIANTS TypeOK Undisturbed OneConnection
CHECK_DEADLOCK FALSE
