SPECIFICATION Spec
CONSTANTS
  Users = {alice, carol}
  Registered = {alice}
  Admins = {}
  Passwords = {p1, p2}
  Requests = {r1, r2, r3}
  Sids = {s1, s2}
  Jtis = {j1, j2}
  NoJti = NoJti
  Links = {l1}
  MAX_FAILED_LOGIN = 2
  ACCOUNT_LOCK_DURATION = 2
  JWT_ACCESS_EXPIRES_IN = 1
  JWT_REFRESH_EXPIRES_IN = 1
  LinkTtl = 1
  Second = 2
  MaxClock = 4
  MaxAttempts = 12
  Ops <- LockoutOps
  Faults = TRUE
SYMMETRY SlotsAndIds
PROPERTIES OnlyDeathLosesLock LockStands GuessesRationed
