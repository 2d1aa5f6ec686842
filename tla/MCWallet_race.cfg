SPECIFICATION Spec
CONSTANTS
    d1 = d1  d2 = d2  d3 = d3  x = x  p1 = p1  p2 = p2  k1 = k1  k2 = k2
    Devs = {d1, d2, d3}
    Strangers = {x}
    Pins = {p1, p2}
    NoPin = NoPin
    Keys = {k1, k2}
    NoKey = NoKey
    EmptyKey = EmptyKey
    Reqs = {r1, r2, r3}
    OpeningRef = OpeningRef
    Calls <- RaceCalls
    Opened <- MCOpened
    Opening <- MCOpening
    MaxPinAttempts = 2
    Overlap = TRUE
SYMMETRY ReqSymmetry
CHECK_DEADLOCK FALSE
INVARIANTS
    TypeOK
    NoOverdraft
    OncePerKey
    BothLegs
    LedgerIsHistory
    AnswerMatchesRecords
    DebitsAuthorised
    LockoutSound
PROPERTIES
    LockSticks
    MoneyConserved
