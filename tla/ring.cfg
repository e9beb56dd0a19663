CONSTANTS
  Count = 4
  ElementLen = 2
  MaxReaders = 2
  MaxCall = 3
  MaxItems = 9
  ReloadTail = TRUE
  ReloadHead = FALSE
  Serialized = TRUE
SPECIFICATION Spec
INVARIANTS RingTypeOK Disjoint InOrder DestroyedInOrder AllDestroyed OldestIsOldest RingInv
PROPERTY ImplementsBroadcast
CHECK_DEADLOCK FALSE
