SPECIFICATION MCSpec
CONSTANTS
  w1 = w1  w2 = w2  p1 = p1  p2 = p2
  NoWs = NoWs
  Workspaces <- MCWorkspaces
  Procs <- MCProcs
  MaxName = 3
  Typed = {1}
  RecoverLive = FALSE
  MaxLeftovers = 1
SYMMETRY Sym
INVARIANTS RegisteredSeeded HalfMadeIsJournaled CreatesAreExclusive NoSecondHome
PROPERTIES CompleteHomeKept
