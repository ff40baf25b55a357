CONSTANTS
  Callers = {c1, c2}
  Extras = 2
  ChainLen = 2
  MaxRetries = 1
  Threshold = 2
  Recovery = 1
SPECIFICATION Spec
INVARIANTS FailsAfterAll CountsOnlyFailures LastServedRight
PROPERTY PrimaryComesBack
