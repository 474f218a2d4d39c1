CONSTANTS
  Txs = {t1, t2}
  MaxNonce = 1
  Waiters = {w1, w2}
  batchSize = 1
  None = None
  External = External
SPECIFICATION MonitorFairSpec
INVARIANT ToldTheTruth
PROPERTIES WatchSpec SettledIsTold
