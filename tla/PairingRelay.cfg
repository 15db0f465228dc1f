CONSTANTS
    Desktops = {d1}
    Phones = {k1, k2}
    MaxCodes = 2
    Lifetime = 1
    MaxTime = 2
    MaxRoutes = 1
    MaxSockets = 1
    NoPairing = none
SPECIFICATION PairingSpec

PROPERTIES RouteOutlivesFailure PairingReleased
CHECK_DEADLOCK FALSE
