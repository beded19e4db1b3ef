CONSTANTS
  None = None
  Users = {u1}
  Paths = {p1}
  Commands = {"download", "cancel", "pause", "remove"}
  MaxCommands = 4
  MaxConns = 1
  MaxThreads = 2
  MaxId = 0
  DiskFails = FALSE
SPECIFICATION FairSpec
PROPERTIES OrphansExit PauseTakesEffect DownloadsSettle
CHECK_DEADLOCK FALSE
