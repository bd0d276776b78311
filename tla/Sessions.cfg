SPECIFICATION Spec
CONSTANTS
  Users = {alice, carol}
  Registered = {alice}
  Admins = {}
  Passwords = {p1, p2}
  Requests = {r1, r2, r3}
  Sids = {s1, s2, s3}
  Jtis = {j1, j2, j3}
  NoJti = NoJti
  Links = {l1}
  MAX_FAILED_LOGIN = 2
  ACCOUNT_LOCK_DURATION = 1
  JWT_ACCESS_EXPIRES_IN = 1
  JWT_REFRESH_EXPIRES_IN = 1
  LinkTtl = 1
  Second = 2
  MaxClock = 2
  MaxAttempts = 0
  Ops <- SessionOps
  Faults = TRUE
SYMMETRY SlotsAndIds
INVARIANTS StalePasswordStragglersBounded SessionHasOneToken RotatedOnce RotationInv ListedSessionsLive
PROPERTY RefreshFamilySpec
