CONSTANTS
  Workers = {w1}
  QueueCap = 2
  MaxAttempts = 2
  MaxPolls = 1
SPECIFICATION Spec
INVARIANTS ReloadSparesBusTurns GatewayFreedQuietly AgentOutlivesTurns LateRequestsSafe
PROPERTIES BusTurnEnds BothStoppedEnds
CHECK_DEADLOCK FALSE
