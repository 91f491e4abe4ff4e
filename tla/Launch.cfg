SPECIFICATION Spec
CONSTANTS
  p1 = p1  p2 = p2
  NoProc = NoProc
  Procs <- TwoProcs
  MaxAttempts = 2
  MaxBoxes = 2
SYMMETRY Sym
PROPERTIES LiveBoxKept ExitCodeSurfaces NothingLeftBehind
CHECK_DEADLOCK FALSE
