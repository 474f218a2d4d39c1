CONSTANTS
  Nodes = {"a", "b"}
  First = "a"
  Workers = 2
  Conns = {c1, c2}
  MaxFaults = 1
  MaxDials = 2
SPECIFICATION FairSpec
INVARIANTS TypeOK MutualConsent EndsAgree
PROPERTY BootstrapConnects
CHECK_DEADLOCK FALSE
