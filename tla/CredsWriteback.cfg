SPECIFICATION LiveSpec
CONSTANTS
  b1 = b1  w1 = w1  w2 = w2  c1 = c1
  NoJob = NoJob  NoBox = NoBox
  Boxes <- OneBox
  Watchers <- TwoWatchers
  Commands <- OneCommand
  MaxCred = 3
  MaxFails = 1
  RefreshRaces = FALSE
  BadReads = TRUE
PROPERTIES StoreMovesForward BoxMovesForward SignalServed WatchedSignalIsServed
