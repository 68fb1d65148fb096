\* Two threads that share a VFS, one that does not, on SQLite; the application runs the
\* cleanup job.
SPECIFICATION JobSpec
CONSTANTS
  Threads <- MCThreads
  Workspace <- MCWorkspace
  Paths <- MCPaths
  Calls <- MCCalls
  Does <- MCDoes
  Autocommit = FALSE
  Mortal <- MCMortal
  MaxRestarts = 1
  Memory = Memory
  None = None
INVARIANTS TypeOK Provenance SnapshotFixed
PROPERTIES RestoreExact CleanupSparesLive OwnFilesStay ExpiredSessionsGo
