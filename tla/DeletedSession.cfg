SPECIFICATION Spec
CONSTANTS
  Users = {root, bob}
  Registered = {root, bob}
  Admins = {root}
  Passwords = {p1}
  Requests = {r1, r2}
  Sids = {s1, s2}
  Jtis = {j1, j2}
  NoJti = NoJti
  Links = {l1}
  MAX_FAILED_LOGIN = 2
  ACCOUNT_LOCK_DURATION = 2
  JWT_ACCESS_EXPIRES_IN = 1
  JWT_REFRESH_EXPIRES_IN = 1
  LinkTtl = 1
  Second = 2
  MaxClock = 0
  MaxAttempts = 0
  Ops <- DeletionOps
  Faults = FALSE

INVARIANT DeletedHasNoSession
