CONSTANTS
  a = a
  b = b
  c = c
  d = d
  e = e
  Ids <- FiveIds
  None = None
SPECIFICATION Spec
SYMMETRY IdSymmetry
CHECK_DEADLOCK FALSE
INVARIANTS
  TypeOK
  LinksFollowed
  ToldOnce
  NothingLost
PROPERTIES
  Ends
