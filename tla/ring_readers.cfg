CONSTANTS
  Count = 4
  ElementLen = 2
  MaxReaders = 2
  MaxCall = 3
  MaxItems = 6
  ReloadTail = TRUE
  ReloadHead = FALSE
  Serialized = FALSE
SPECIFICATION Spec
INVARIANT OldestIsOldest
CHECK_DEADLOCK FALSE
