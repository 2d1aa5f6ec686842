SPECIFICATION RaceSpec
CONSTANTS
    d1 = d1  d2 = d2  h1 = h1  e1 = e1  r1 = r1  r2 = r2
    Devs = {d1, d2}
    Nobody = Nobody
    Registered <- MCRegistered
    Events = {e1}
    EventDev <- MCEventDev
    Reqs = {r1, r2}
    Calls <- RaceCalls
    MaxAttempts = 2
    MaxStalls = 1
    MaxCrashes = 2
CHECK_DEADLOCK FALSE
INVARIANTS
    TypeOK
    SuccessIsHeard
    DeliveriesAccounted
    RepostOnlyAfterTrouble
PROPERTY EveryJobEnds
