CONSTANTS
    Posts = {1, 2}
    Sockets = {s1}
    Callers = {h1}
    Deletes = {d1}
    Capacity = 1
    MaxPendingRevokes = 1
    MaxUploaders = 2
    NoSnapshot = none
    Revoked = revoked
SPECIFICATION FeedSpec
INVARIANTS NoSnapshotMissed RevokeSlotHasOwner
PROPERTIES RevokedSocketEnds
CHECK_DEADLOCK FALSE
