SPECIFICATION Spec
CONSTANTS
  Keys = {"a", "b"}
  Hashes = {2, 3, 7}
  KeyLen = 1
  InitialSize = 2
  MaxInserts = 4
  MaxOpens = 1
INVARIANTS
  FoundReopened
CHECK_DEADLOCK FALSE
