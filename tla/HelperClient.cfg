SPECIFICATION Spec
CONSTANTS
  o = o  a = a
  Owner = o
  NoThread = NoThread
  Threads <- TwoThreads
  MaxConns = 2
  MaxCloses = 1
  MaxCalls = 3
  MaxPushes = 1
PROPERTIES OwnAnswer WaitersWake
CHECK_DEADLOCK FALSE
