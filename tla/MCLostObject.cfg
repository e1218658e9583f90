SPECIFICATION Spec
CONSTANTS
  NObjects = 3
  NThreads = 2
  OldBits = old_bits
  NewBits = new_bits
  Settings <- MCSettings
  ManageCache = TRUE
INVARIANT
  NothingLost
