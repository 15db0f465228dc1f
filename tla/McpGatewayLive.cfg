SPECIFICATION FairSpec
CONSTANTS
    Sockets = {s1, s2}
    Registrars = {g1}
    Requests = {r1}
    None = None
    MaxPending = 1
    QueueCap = 1
PROPERTIES StaleSessionRetired 
CHECK_DEADLOCK FALSE
