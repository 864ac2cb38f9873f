SPECIFICATION MCSpec
CONSTANTS
  Tenants = {a, b}
  Users = {u1, u2, w}
  Home <- TwoHomes
  Requests = {r1, r2}
  Faults = {"write"}
  NoUser = NoUser
  NoTenant = NoTenant
  a = a
  b = b
  u1 = u1
  u2 = u2
  w = w
  r1 = r1
  r2 = r2
INVARIANTS TypeOK OneFounderPerTenant ReferencesResolve
PROPERTIES LockedOutForGood DeactivatedLosesAccess
CHECK_DEADLOCK FALSE
