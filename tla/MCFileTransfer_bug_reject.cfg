CONSTANTS
  NoFile = NoFile
  None = None
  NumFiles = 2
  MaxLen = 2
  MAX_DATA_SIZE = 2
  MaxEdits = 1
  MaxFailures = 1
SPECIFICATION FairSpec
PROPERTIES ChangedIsRejected
CHECK_DEADLOCK FALSE
