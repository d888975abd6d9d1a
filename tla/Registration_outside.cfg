CONSTANTS
  g1 = g1
  g2 = g2
  u1 = u1
  v1 = v1
  Stray = Stray
  Nobody = Nobody
  Registrars <- OneRegistrar
  Unregistrars <- OneUnregistrar
  Resolvers <- OneResolver
  Linkers <- NoSessions
  LockRaces = FALSE
  MaxOutside = 1
SPECIFICATION Spec
CHECK_DEADLOCK FALSE
INVARIANTS
  TypeOK
  DeletesOnlyConfirmed
  RegisteredIsReal
PROPERTIES
  RegistryUntilDirty
