SPECIFICATION Spec
CONSTANTS
  b1 = b1  b2 = b2  n1 = n1  n2 = n2  n3 = n3
  w1 = w1  w2 = w2  w3 = w3  m1 = m1  m2 = m2
  None = None
  Boxes <- MCBoxes
  Names <- MCNames
  Places <- MCPlaces
  Movers <- MCMovers
  Merges = TRUE
  RowsRace = FALSE
  Overlap = FALSE
SYMMETRY Sym
PROPERTY NothingLost
CHECK_DEADLOCK FALSE
