CONSTANTS
  NoFile = NoFile
  None = None
  NumFiles = 2
  MaxLen = 2
  MAX_DATA_SIZE = 2
  MaxEdits = 2
  MaxFailures = 2
SPECIFICATION FairSpec
INVARIANTS TypeOK BytesInPlace OffsetsAgree CompletedWhole RejectedOnlyIfChanged
PROPERTIES ItemSettles ImplementsDownload
CHECK_DEADLOCK FALSE
