SPECIFICATION FairSpec
CONSTANTS
    Sessions = {s1, s2, s3}
    Phones = {p1}
    None = None
INVARIANTS OnlineIsLive
PROPERTY EvictedSessionLeaves
CHECK_DEADLOCK FALSE
