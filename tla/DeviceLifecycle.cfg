SPECIFICATION Spec
CONSTANTS
    Devices = {d1, d2, d3}
    Grants = {g1, g2}
    Pairers = {p1, p2, p3}
    Revokers = {r1, r2}
    PhoneRevokers = {q1}
    MaxDevices = 2
    Windows = FALSE
    Faults = {"call", "answer", "save", "timeout", "crash"}
    None = None
SYMMETRY Symmetry
INVARIANTS RevocationHolds PairedSurvives GrantPairsOnce ListsAgreeAtRest
CHECK_DEADLOCK FALSE
