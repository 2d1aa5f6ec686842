SPECIFICATION Spec
CONSTANTS
    d1 = d1  d2 = d2  d3 = d3  x = x  p1 = p1  p2 = p2  k1 = k1  k2 = k2
    Devs = {d1, d2}
    Strangers = {x}
    Pins = {p1, p2}
    NoPin = NoPin
    Keys = {k1, k2}
    NoKey = NoKey
    EmptyKey = EmptyKey
    Reqs = {r1, r2}
    OpeningRef = OpeningRef
    Calls <- SelfTransferCalls
    Opened <- MCOpened
    Opening <- MCOpening
    MaxPinAttempts = 3
    Overlap = FALSE
SYMMETRY ReqSymmetry
CHECK_DEADLOCK FALSE
PROPERTY TransferConserves
