SPECIFICATION FairSpec
CONSTANTS
  Users = {u}
  None = None
  MaxRefreshes = 3
  MaxChanges = 2
  MaxConfigs = 3
INVARIANTS TypeOK NeverKilled
PROPERTIES FreshAnswer RefreshEnds
CHECK_DEADLOCK FALSE
