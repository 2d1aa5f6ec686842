----------------------------- MODULE MCSessions -----------------------------
(***************************************************************************)
(* Instances of Sessions: e1 is a verified developer who holds a refresh   *)
(* token, e2 has registered and holds the link, e3 may register.           *)
(***************************************************************************)
EXTENDS Sessions, TLC

CONSTANTS e1, e2, e3, p1, p2

MCPassword == [e \in Emails |-> p1]

Ask(op, e, p, t) == [op |-> op, email |-> e, password |-> p, token |-> t]
AskToken(op, t) == Ask(op, e1, p1, t)

RaceCalls ==
    { Ask("register", e3, p1, NoToken), Ask("register", e3, p2, NoToken),
      Ask("login", e1, p1, NoToken), Ask("login", e1, p2, NoToken),
      Ask("login", e2, p1, NoToken),
      Ask("toggle", e1, p1, NoToken), Ask("toggle", e2, p1, NoToken),
      AskToken("verify", e2), AskToken("refresh", e1), AskToken("logout", e1) }
    \cup {AskToken(op, t) : op \in TokenOps, t \in Reqs \cup {NoToken}}

ReuseCalls == {AskToken("refresh", t) : t \in Reqs \cup {e1}}

ReqSymmetry == Permutations(Reqs)
=============================================================================
