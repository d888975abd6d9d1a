CONSTANTS
  d = d
  c1 = c1
  c2 = c2
  e = e
  q1 = q1
  i1 = i1
  i2 = i2
  Drafts <- OneDraft
  Confirmers <- TwoConfirmers
  DraftOf <- GivenBoth
  Direct <- OneDirect
  Answerers <- OneAnswerer
  Idents <- TwoIdents
  Statuses = {"running", "closed"}
  None = None
  MaxWorld = 2
SPECIFICATION MCSpec
SYMMETRY DispatchSymmetry
CHECK_DEADLOCK FALSE
INVARIANTS
  TypeOK
  SpawnedOnce
  RecordFirst
  ResultHonest
  AbsenceIsHeard
  NeverDispatchedIsTrue
  NotFoundMeansDispatched
  OneStreamPerAnswer
PROPERTIES
  KeepsLedger
