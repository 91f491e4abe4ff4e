SPECIFICATION SnapSpec
CONSTANTS
  e1 = e1  e2 = e2  p1 = p1
  Entries <- TwoEntries
  Restorers <- OneRestorer
  MaxVersion = 2
  MaxSnaps = 3
  MaxKeep = 1
  BoxRuns = FALSE
SYMMETRY Sym
PROPERTIES NoLastCopyLost AllOrNothing
CHECK_DEADLOCK FALSE
