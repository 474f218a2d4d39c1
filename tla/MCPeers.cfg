CONSTANTS
  PeerIDs = {p1}
  Conns = {c1, c2}
  Tasks = {t1, t2}
  Streams = {s1, s2}
  None = None
SPECIFICATION Spec
SYMMETRY Symmetry
INVARIANTS MapsAgree RegisteredIsListed
PROPERTIES CancelledOnLeave BlockSticks
CHECK_DEADLOCK FALSE
