CONSTANTS
  None = None
  Users = {u1}
  Commands = {"sharing", "reverse"}
  MaxCommands = 3
  MaxUploaders = 1
  MaxErrors = 2
SPECIFICATION FairSpec
PROPERTIES OffStopsUploads SharingConverges
