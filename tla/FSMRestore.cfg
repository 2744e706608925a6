SPECIFICATION Spec
CONSTANTS
  Nodes = {1, 2}
  Entries <- Writes
  MaxLog = 3
  MaxRestarts = 0
INVARIANT RestoreReplaces
CHECK_DEADLOCK FALSE
