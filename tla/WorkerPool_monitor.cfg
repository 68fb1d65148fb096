SPECIFICATION Spec
CONSTANTS
  Size = 1
  Calls = {c1}
  Procs = {p1, p2, p3, p4}
  RequestLimit = 1
  Monitored = TRUE
  Faults = {"crash", "hang", "late", "cancel", "slow", "stop", "error"}
  MaxFaults = 1
  Monitor = Monitor
  NoOne = NoOne
  NoProc = NoProc
  NoLine = NoLine
  Torn = Torn
  Health = Health
  Shutdown = Shutdown
PROPERTIES EveryCallReturns Recovers MonitorSparesCalls
