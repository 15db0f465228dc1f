SPECIFICATION Spec
CONSTANTS
    early = early
    late = late
    Handlers = {h1, h2, h3, h4}
    Codes = {early, late}
    ExpiresAt <- MCExpiresAt
    Devices = {phone}
    MaxLifetime = 2
    MaxTime = 3
    None = None
SYMMETRY Symmetry
INVARIANTS CodeUsedOnce FailureKeepsCode DevicesAsGranted
