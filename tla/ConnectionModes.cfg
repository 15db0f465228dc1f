SPECIFICATION FairSpec
CONSTANTS
    Faults = {"marker", "save", "read", "stop", "start", "status", "secret", "revoke"}
    Legacy = FALSE
    Thresholds = {1, 2}
    Limit = 2
    MaxOps = 3
    MaxCrashes = 1
    MaxSlips = 1
INVARIANTS StopHolds OneTransport
PROPERTIES RestoreNeedsConsent AutoReconnects
CHECK_DEADLOCK FALSE
