SPECIFICATION FairSpec
CONSTANTS
  Sids = {s1, s2}
  Jtis = {j1, j2, j3}
  NoJti = NoJti
  Txns = {t1, t2, t3}
  MaxEnds = 2
INVARIANTS TxnTypeOK TablesInStep DeadlockNeedsEnd
PROPERTIES CommitsAsFamily PurgeIsComplete TxnsEnd
