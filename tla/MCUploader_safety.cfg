CONSTANTS
  None = None
  Users = {u1, u2}
  Commands = {"sharing", "change", "allow", "reverse"}
  MaxCommands = 2
  MaxUploaders = 2
  MaxErrors = 1
SPECIFICATION Spec
SYMMETRY Symmetry
INVARIANTS TypeOK UploadersCurrent AtMostOneLateWrite CacheIsCurrent OneReverseConnectionPerUser
