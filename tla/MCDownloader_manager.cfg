CONSTANTS
  None = None
  Users = {u1}
  Paths = {p1, p2}
  Commands = {"download", "cancel", "cancel_all", "pause", "restart", "add", "remove", "update", "new_id", "ignore_incoming", "set_dir", "refresh"}
  MaxCommands = 3
  MaxConns = 1
  MaxThreads = 2
  MaxId = 1
  DiskFails = TRUE
SYMMETRY Symmetry
SPECIFICATION Spec
INVARIANTS TypeOK PauseReachesThreads ActiveIsHead QueueOnDisk NoLostDownload RegisteredAlive ConfigReachesThreads SharedUserReachesThreads
CHECK_DEADLOCK FALSE
