SPECIFICATION Spec
CONSTANTS
    Sockets = {s1, s2}
    Registrars = {g1}
    Requests = {r1, r2}
    None = None
    MaxPending = 1
    QueueCap = 1
INVARIANTS RotationCaught NoStaleDispatch PendingTracksWaiters
SYMMETRY Symmetry
CHECK_DEADLOCK FALSE
