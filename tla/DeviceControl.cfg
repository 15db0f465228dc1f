CONSTANTS
    Requests = {r1, r2}
    Endpoints = {e1}
    Relay = relay
    NoRequest = none
    NotIssued = notIssued
    Lifetime = 1
    FutureSkew = 1
    MaxAge = 2
    MaxPendingControls = 1
    Behind = {1}
    Ahead = {2}
    MaxTime = 1
    MaxSessions = 2
SPECIFICATION ControlSpec
INVARIANTS UnexpiredOnce SlotsAreWaited
PROPERTIES SlotReleased
CHECK_DEADLOCK FALSE
