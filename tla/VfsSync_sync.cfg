\* Two threads that share a workspace, one that does not, one worker.
SPECIFICATION Spec
CONSTANTS
  Threads <- MCThreads
  Workspace <- MCWorkspace
  Paths <- MCPaths
  Tracked <- MCTracked
  Deletable <- MCDeletable
  Workers = {"w"}
  Execs <- MCExecs
  Thread <- MCThread
  Kind <- MCKind
  Follows <- MCFollows
  Programs <- MCPrograms
  Size <- MCSize
  Seed = "seed"
  Seeded <- MCSeeded
  MaxFiles = 3
  Sticky <- MCSticky
  Unpickles = TRUE
  None = None
INVARIANTS TypeOK Delivered
PROPERTIES OwnChanges SessionExact Sandboxed
CHECK_DEADLOCK FALSE
