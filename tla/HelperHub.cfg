SPECIFICATION Spec
CONSTANTS
  c1 = c1  c2 = c2
  Cmds <- MCCmds
  MaxNum = 2
SYMMETRY Symmetry
INVARIANTS OneHomePerNumber HeldKeepsHome
PROPERTIES SweepLeavesNone CleanupHasTheWord
