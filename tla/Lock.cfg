CONSTANTS
  w1 = w1
  w2 = w2
  w3 = w3
  s1 = s1
  r1 = r1
  Prior = Prior
  Elsewhere = Elsewhere
  Nobody = Nobody
  Writers <- TwoWriters
  Strict <- OneStrict
  Recoverers <- OneRecoverer
SPECIFICATION FairSpec
CHECK_DEADLOCK FALSE
INVARIANTS
  TypeOK
  ExclusionUnlessRaced
  HolderOwnsLock
  LeftoverHasCulprit
PROPERTIES
  TokenUntilRace
  EverySessionEnds
