SPECIFICATION FairSpec
CONSTANTS
  Majors = {1, 2}
  Minors = {0, 1}
INVARIANTS TypeOK VerdictsAgree
PROPERTY BothEnd
CHECK_DEADLOCK FALSE
