CONSTANTS
  Handlers = {h1, h2}
  Digests = {d1, d2, forged}
  SignedBids = {d1, d2}
  Receivers = {r1}
  Responders = {s1, s2}
  Decisions = {i1, i2}
  None = None
SPECIFICATION FairSpec
INVARIANTS TypeOK CallbackSafe OneCommitmentPerDecision CommitmentJustified WaitingIsReachable
PROPERTIES BidSpec HandlerReturns
