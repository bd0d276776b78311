SPECIFICATION Spec
CONSTANTS
  Users = {alice}
  Registered = {alice}
  Admins = {}
  Passwords = {p1, p2, p3}
  Requests = {r1, r2}
  Sids = {s1}
  Jtis = {j1}
  NoJti = NoJti
  Links = {l1}
  MAX_FAILED_LOGIN = 2
  ACCOUNT_LOCK_DURATION = 1
  JWT_ACCESS_EXPIRES_IN = 1
  JWT_REFRESH_EXPIRES_IN = 2
  LinkTtl = 1
  Second = 2
  MaxClock = 0
  MaxAttempts = 0
  Ops <- ResetOps
  Faults = FALSE

PROPERTY ResetLinkUsedOnce
