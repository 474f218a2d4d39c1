CONSTANTS
  Joiners = {self, p1, p2}
  Providers = {p1, p2}
  Earlier = {p1}
  Mute = {p1}
  Self = self
  CheckWorkers = 1
  Nobody = Nobody
SPECIFICATION FairSpec
INVARIANTS TypeOK SomebodyTells
PROPERTIES BidderFindsProvider ShutdownEnds
CHECK_DEADLOCK FALSE
