SPECIFICATION SupSpec
CONSTANTS
  q1 = q1
  Panels <- OnePanel
  Confs <- Launches
  MaxRetries = 2
  MaxRaises = 1
INVARIANTS ExitCodeTrue
PROPERTIES DetachSignalled PausedResumed AgentHealed StopEnds DesertedEnds
CHECK_DEADLOCK FALSE
