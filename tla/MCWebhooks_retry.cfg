SPECIFICATION Spec
CONSTANTS
    d1 = d1  d2 = d2  h1 = h1  e1 = e1  r1 = r1  r2 = r2
    Devs = {d1, d2}
    Nobody = Nobody
    Registered <- MCRegistered
    Events = {e1}
    EventDev <- MCEventDev
    Reqs = {r1}
    Calls <- OneCalls
    MaxAttempts = 3
    MaxStalls = 1
    MaxCrashes = 0
CHECK_DEADLOCK FALSE
INVARIANT FailedDeliveriesRetry
