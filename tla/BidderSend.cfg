CONSTANT Streams = {p1, p2, p3}
SPECIFICATION FairSpec
INVARIANTS TypeOK PushSafe ToldIsCommitted NothingLost
PROPERTY CallEnds
CHECK_DEADLOCK FALSE
