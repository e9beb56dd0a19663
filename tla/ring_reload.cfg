CONSTANTS
  Count = 4
  ElementLen = 2
  MaxReaders = 2
  MaxCall = 3
  MaxItems = 6
  ReloadTail = TRUE
  ReloadHead = TRUE
  Serialized = TRUE
SPECIFICATION Spec
INVARIANT InOrder
CHECK_DEADLOCK FALSE
