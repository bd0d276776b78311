SPECIFICATION Spec
CONSTANTS
  Users = {alice, bob}
  Registered = {alice}
  Admins = {}
  Passwords = {p1}
  Requests = {r1}
  Sids = {s1}
  Jtis = {j1, j2}
  NoJti = NoJti
  Links = {l1}
  MAX_FAILED_LOGIN = 2
  ACCOUNT_LOCK_DURATION = 1
  JWT_ACCESS_EXPIRES_IN = 2
  JWT_REFRESH_EXPIRES_IN = 3
  LinkTtl = 1
  Second = 2
  MaxClock = 6
  MaxAttempts = 0
  Ops <- RotationOps
  Faults = FALSE

INVARIANT TokenRowLivesAsLongAsJwt
