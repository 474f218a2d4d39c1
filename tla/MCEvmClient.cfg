CONSTANTS
  Txs = {t1, t2, t3}
  Callers = {}
  Waiters = {t1, t2, t3}
  MaxNonce = 3
  maxSentTxs = 1
  MaxForeign = 1
  None = None
  External = External
SPECIFICATION Spec
SYMMETRY Symmetry
INVARIANTS PoolWindow OnlyCancelReplaces NoNonceGap
