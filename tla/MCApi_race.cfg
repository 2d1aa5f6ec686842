SPECIFICATION RaceSpec
CONSTANTS
    d1 = d1  d2 = d2  k1 = k1  k2 = k2  a1 = a1  o1 = o1  o2 = o2  o3 = o3
    Reqs = {r1, r2, r3}
    Calls <- RaceCalls
    Devs = {d1, d2}
    Nobody = Nobody
    Keys = {k1, k2}
    NoKey = NoKey
    Recipients = {a1}
    Codes = {c1, c2}
    NoEntry = NoEntry
    Earlier = Earlier
    KeyOwner <- MCKeyOwner
    MaxCrashes = 1
    Doubles <- MCDoubles
    Amounts <- MCAmounts
    Whole <- MCWhole
    Kobo <- MCKobo
    Naira <- MCNaira
    NoCharge = NoCharge
    Times <- MCTimes
    OldRows <- MCOldRows
    PageSize = 3
SYMMETRY RaceSymmetry
CHECK_DEADLOCK FALSE
INVARIANTS
    TypeOK
    SpentCodeRefused
    ReplacedCodeRefused
    CodeRefusedForCause
    ReportsAddUp
    PaymentsAsAsked
    PagesShowAll
