CONSTANTS
  Workers = {w1}
  QueueCap = 1
  MaxAttempts = 2
  MaxPolls = 1
SPECIFICATION Spec
PROPERTY StopEndsService
CHECK_DEADLOCK FALSE
