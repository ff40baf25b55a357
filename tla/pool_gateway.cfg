CONSTANTS
  NoItem = none
  Workers = {w1, w2}
  Submitters = {loop, other}
  Owner = loop
  Items = {a, b, c, d}
  Size = 2
  MayFail = TRUE
  MayDestroy = TRUE
  MaxSpurious = 1
SPECIFICATION Spec
INVARIANTS TypeOK ActiveIsExact
PROPERTIES ImplementsWorkQueue SubmitReturns AcceptedStarts DestroyReturns
CHECK_DEADLOCK FALSE
