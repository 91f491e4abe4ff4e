SPECIFICATION RetireSpec
CONSTANTS
  w1 = w1  w2 = w2  p1 = p1  r1 = r1  r2 = r2
  NoWs = NoWs
  Workspaces <- TwoWorkspaces
  Procs <- OneCreate
  Retirers <- TwoRetirers
  MaxName = 2
  Typed = {1}
  RecoverLive = FALSE
  Overlap = FALSE
SYMMETRY Sym
INVARIANTS LiveHomeKept OneBoxPerWorkspace
PROPERTIES HomeHasHandle
CHECK_DEADLOCK FALSE
