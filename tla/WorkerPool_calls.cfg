SPECIFICATION Spec
CONSTANTS
  Size = 2
  Calls = {c1, c2}
  Procs = {p1, p2, p3, p4, p5}
  RequestLimit = 2
  Monitored = FALSE
  Faults = {"crash", "hang", "slow", "error"}
  MaxFaults = 1
  Monitor = Monitor
  NoOne = NoOne
  NoProc = NoProc
  NoLine = NoLine
  Torn = Torn
  Health = Health
  Shutdown = Shutdown
INVARIANTS TypeOK OwnAnswer LockDiscipline
