CONSTANTS
  g1 = g1
  g2 = g2
  u1 = u1
  v1 = v1
  Stray = Stray
  Nobody = Nobody
  Registrars <- TwoRegistrars
  Unregistrars <- OneUnregistrar
  Resolvers <- NoSessions
  Linkers <- NoSessions
  LockRaces = TRUE
  MaxOutside = 0
SPECIFICATION Spec
SYMMETRY KindSymmetry
CHECK_DEADLOCK FALSE
INVARIANTS
  RowsWerePublished
PROPERTIES
  RegistryUntilDirty
  CreateOnly
