SPECIFICATION LiveSpec
CONSTANTS
  s1 = s1
  Launches <- TwoLaunches
  Stops <- OneStop
  MissLimit = 2
INVARIANTS KeepsHub
PROPERTIES OneHub ComesToRest
CHECK_DEADLOCK FALSE
