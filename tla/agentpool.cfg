CONSTANTS
  SlotCount = 2
  MaxConcurrent = 2
  MaxDepth = 2
  MaxTotal = 0
  MaxIds = 4
  MayFail = TRUE
SPECIFICATION Spec
INVARIANTS OneTurnPerAgent QueryKeepsAgent FreedQuietly DelegateReadsLive CancelObeyed
PROPERTIES DestroyReturns ThreadsRetire
CHECK_DEADLOCK FALSE
