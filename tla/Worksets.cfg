SPECIFICATION Spec
CONSTANTS
  r1 = r1  r2 = r2  n1 = n1  d1 = d1  p1 = p1  p2 = p2
  None = None
  Roots <- MCRoots
  Names <- MCNames
  Dirs <- MCDirs
  Boxed <- MCDirs
  Procs <- MCProcs
  Overlap = FALSE
SYMMETRY Sym
INVARIANTS MarksAccounted AllOrNothing ListedIsWhole
PROPERTIES OneRecordKept
CHECK_DEADLOCK FALSE
