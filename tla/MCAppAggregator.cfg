CONSTANTS
  None = None
  Users = {u1}
  Paths = {p1, p2}
  Commands = {"download", "cancel", "cancel_all", "pause", "remove", "add", "restart"}
  MaxCommands = 3
  MaxConns = 0
  MaxThreads = 2
  MaxId = 0
  DiskFails = TRUE
  MaxUnread = 3
SYMMETRY Symmetry
SPECIFICATION ViewSpec
INVARIANTS ViewAgrees
CHECK_DEADLOCK FALSE
