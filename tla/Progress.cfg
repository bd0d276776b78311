SPECIFICATION FairSpec
CONSTANTS
  Users = {bob}
  Registered = {}
  Admins = {}
  Passwords = {p1, p2}
  Requests = {r1, r2}
  Sids = {s1}
  Jtis = {j1, j2}
  NoJti = NoJti
  Links = {l1, l2, l3}
  MAX_FAILED_LOGIN = 1
  ACCOUNT_LOCK_DURATION = 1
  JWT_ACCESS_EXPIRES_IN = 1
  JWT_REFRESH_EXPIRES_IN = 1
  LinkTtl = 1
  Second = 1
  MaxClock = 0
  MaxAttempts = 0
  Ops <- RaceOps
  Faults = FALSE
INVARIANTS TypeOK EarlierLinksGo
PROPERTIES Answered UsedLinkIsSpent
