SPECIFICATION MCSpec
CONSTANTS
    last = last  d1 = d1  d2 = d2  k1 = k1  FREE = FREE  PRO = PRO
    Devs = {d1, d2}
    Keys = {k1}
    Owner <- MCOwner
    Plans = {FREE, PRO}
    Limit <- MCLimit
    Plan <- MCPlan
    Reqs = {r1, r2, r3, last}
    Calls <- RaceCalls
    Second = 2
    MonthLength = 2
    MaxTime = 5
CONSTRAINT FourInAMonth
SYMMETRY ReqSymmetry
CHECK_DEADLOCK FALSE
INVARIANTS
    TypeOK
    QuotaUntilLastSecond
    CountersExpire
    RefusedForCause
    RevokedKeyRefused
    RemainingIsThere
