CONSTANTS
  None = None
  Users = {u1}
  Paths = {p1}
  Commands = {"download", "remove"}
  MaxCommands = 3
  MaxConns = 1
  MaxThreads = 2
  MaxId = 1
  DiskFails = FALSE
SPECIFICATION Spec
INVARIANTS NothingLeftToCancel
CHECK_DEADLOCK FALSE
