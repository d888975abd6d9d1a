CONSTANTS
  g1 = g1
  g2 = g2
  u1 = u1
  v1 = v1
  Stray = Stray
  Nobody = Nobody
  Registrars <- OneRegistrar
  Unregistrars <- NoSessions
  Resolvers <- OneResolver
  Linkers <- NoSessions
  LockRaces = FALSE
  MaxOutside = 0
SPECIFICATION Spec
CHECK_DEADLOCK FALSE
INVARIANTS
  ResolvesOnlyConfirmed
