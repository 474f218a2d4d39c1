SPECIFICATION FairSpec
CONSTANTS
  Width = 3
  NotANumber = NotANumber
  Stranger = Stranger
  Nil = Nil
  Providers = {p}
  Bidders = {b}
  Self = p
  Stake = 3
  TopUp = 3
  Minimum = 2
  Requests = {2, 8}
  Leftovers = {0}
  MaxTx = 4
  MaxPosts = 1
  MaxTaken = 1
  MaxFaults = 1
  Fields <- MCFields
  Parities = {1}
  MaxBids = 1
INVARIANTS TypeOK AnswerIsReal PaidTwiceOnlyAfterError StoredAsSigned
PROPERTY BidderBecomesAllowed
CHECK_DEADLOCK FALSE
