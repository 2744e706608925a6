SPECIFICATION SuiteSpec
CONSTANTS
  None = None
  Nodes = {1, 2}
  Entries <- Writes
  MaxLog = 3
  MaxRestarts = 1
INVARIANTS TypesOK Agreement SnapshotExact AcceptedBuilds 
INVARIANTS InstalledWhole 
PROPERTIES RestoreExact
CHECK_DEADLOCK FALSE
