CONSTANTS
  None = None
  Users = {u1}
  Paths = {p1}
  Commands = {"download", "new_id", "update"}
  MaxCommands = 3
  MaxConns = 1
  MaxThreads = 2
  MaxId = 1
  DiskFails = FALSE
SPECIFICATION Spec
INVARIANTS ReverseConnectionMatches
CHECK_DEADLOCK FALSE
