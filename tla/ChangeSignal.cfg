CONSTANTS
  o1 = o1
  o2 = o2
  o3 = o3
  w1 = w1
  w2 = w2
  dot = dot
  abs = abs
  h1 = h1
  h2 = h2
  clean = clean
  dirty = dirty
  Observers <- TwoObservers
  Workspaces <- TwoWorkspaces
  Paths <- TwoPaths
  Lists <- TwiceOrOther
  Directories <- InsideEither
  Heads <- TwoHeads
  Statuses <- TwoStatuses
  None = None
  MaxWork = 1
  MaxWipes = 1
SPECIFICATION Spec
SYMMETRY DataSymmetry
CHECK_DEADLOCK FALSE
INVARIANTS
  TypeOK
  UnchangedWasSeen
  SnapshotUnlessMoved
PROPERTIES
  ExactUnlessStale
