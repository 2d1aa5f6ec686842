SPECIFICATION Spec
CONSTANTS
    e1 = e1  e2 = e2  e3 = e3  p1 = p1  p2 = p2
    Emails = {e1, e2, e3}
    Passwords = {p1, p2}
    Reqs = {r1, r2, r3}
    NoToken = NoToken
    NoCall = NoCall
    Calls <- ReuseCalls
    Verified = {e1}
    Unverified = {e2}
    Password <- MCPassword
SYMMETRY ReqSymmetry
CHECK_DEADLOCK FALSE
INVARIANT ExchangedOnce
