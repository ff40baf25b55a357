CONSTANTS
  SlotCount = 2
  MaxConcurrent = 2
  MaxDepth = 2
  MaxTotal = 0
  MaxIds = 3
  MayFail = FALSE
SPECIFICATION Spec
INVARIANT ProviderReleasedOnce
CHECK_DEADLOCK FALSE
