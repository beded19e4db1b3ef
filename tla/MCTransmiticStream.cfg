CONSTANTS
  NONCE_MAX = 7
  Ids = {i, j, k}
  Majors = {10, 9}
  None = None
SPECIFICATION SessionSpec
INVARIANTS NonceNeverReused ReadsDecrypt PeersAgree NeverBothWaiting
CHECK_DEADLOCK FALSE
