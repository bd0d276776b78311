SPECIFICATION FairSpec
CONSTANTS
  Addresses = {a1}
  Requests = {r1, r2}
  WINDOW_SECONDS = 2
  MAX_REQUESTS = 1
  Jobs = {m1}
  ATTEMPTS = 2
  CONCURRENCY = 1
  MaxStalled = 1
  MaxTroubles = 2
INVARIANTS RuntimeTypeOK CounterHasDeadline WindowIsBounded MailsBounded
PROPERTIES CleanExit ClosingEnds Readmitted JobsSettle
