CONSTANTS
  Longest = 3
  None = None
  Commands <- TheCommands
  Does <- TheApplets
  Old <- Workspace
SPECIFICATION Spec
INVARIANTS TypeOK
PROPERTIES Means Answered
CHECK_DEADLOCK FALSE
