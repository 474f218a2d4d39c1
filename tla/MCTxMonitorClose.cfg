CONSTANTS
  Txs = {t1, t2}
  MaxNonce = 2
  Waiters = {w1, w2}
  batchSize = 1
  None = None
  External = External
SPECIFICATION MonitorSpec
SYMMETRY Symmetry
INVARIANT NoPanic
