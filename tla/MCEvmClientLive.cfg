CONSTANTS
  Txs = {t1, t2}
  Callers = {c1}
  Waiters = {t1, t2, c1}
  MaxNonce = 1
  maxSentTxs = 1
  MaxForeign = 1
  None = None
  External = External
SPECIFICATION FairSpec
PROPERTIES MinedLeavesPending CallsEnd
