SPECIFICATION Spec
CONSTANTS
  Size = 1
  Calls = {c1, c2}
  Procs = {p1, p2, p3}
  RequestLimit = 2
  Monitored = FALSE
  Faults = {"cancel"}
  MaxFaults = 1
  Monitor = Monitor
  NoOne = NoOne
  NoProc = NoProc
  NoLine = NoLine
  Torn = Torn
  Health = Health
  Shutdown = Shutdown
INVARIANTS OwnAnswer
