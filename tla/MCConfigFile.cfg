SPECIFICATION Spec
CONSTANTS
  Nicknames = {"ann", "Ann", "bob"}
  Paths = {"f"}
  PublicIds = {"i", "j"}
  Addresses = {"a"}
  Ports = {"45454", "x"}
  Passwords = {"p"}
  Directories = {"", "d"}
  ValidNames = {"ann", "bob", "Ann", "f", "i", "j", "a", "45454"}
  Lower <- MCLower
  Rank <- MCRank
  DefaultPort = "45454"
  NoDirectory = ""
  NONCE_MAX = 4
  OldNonces = {3}
  None = None
  MaxCalls = 3
  MaxFailures = 1
  MaxCrashes = 1
INVARIANTS TypeOK Durable SwitchKeepsConfig NonceMoves RemovalsAccepted CopiesCurrent
CHECK_DEADLOCK FALSE
