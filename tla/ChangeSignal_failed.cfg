CONSTANTS
  o1 = o1
  o2 = o2
  o3 = o3
  w1 = w1
  w2 = w2
  dot = dot
  abs = abs
  h1 = h1
  h2 = h2
  clean = clean
  dirty = dirty
  Observers <- ThreeObservers
  Workspaces <- TwoWorkspaces
  Paths <- TwoPaths
  Lists <- InTurn
  Directories <- InsideSecond
  Heads <- TwoHeads
  Statuses <- OneStatus
  None = None
  MaxWork = 1
  MaxWipes = 0
SPECIFICATION Spec
SYMMETRY DataSymmetry
CHECK_DEADLOCK FALSE
INVARIANTS
  ChangeSurvivesFailure
