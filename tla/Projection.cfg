CONSTANTS
  t1 = t1
  t2 = t2
  i1 = i1
  i2 = i2
  a = a
  b = b
  c = c
  l1 = l1
  f1 = f1
  r1 = r1
  Targets <- TwoTargets
  Idents <- TwoIdents
  Paths <- ThreePaths
  Linkers <- OneLinker
  Forgetters <- OneForgetter
  Rebuilders <- OneRebuilder
  Roots <- ThreeRoots
  None = None
  MaxWorld = 1
SPECIFICATION MCSpec
SYMMETRY DataSymmetry
CHECK_DEADLOCK FALSE
INVARIANTS
  TypeOK
  OneRowPerTarget
  RowsWereRead
PROPERTIES
  IdentityStable
  RebuildIsExact
