------------------------------- MODULE MCApi -------------------------------
(***************************************************************************)
(* Instances of Api: developers d1 and d2, key k1 of d1 and k2 of nobody,  *)
(* one recipient, two codes, amounts of five naira, a ledger of three rows.*)
(***************************************************************************)
EXTENDS Api, TLC

CONSTANTS d1, d2, k1, k2, a1, o1, o2, o3

MCKeyOwner == k1 :> d1 @@ k2 :> Nobody

(* A send and verifications with either code.                              *)
Otps ==
    {[op |-> "send", dev |-> d1, key |-> k1, to |-> a1]}
    \cup {[op |-> "verify", dev |-> d1, key |-> k1, to |-> a1, code |-> c] : c \in Codes}

(* The reports, and requests with and without the key they count.          *)
Reported ==
    {[op |-> "usage", dev |-> d1, key |-> NoKey, of |-> k1],
     [op |-> "stats", dev |-> d1, key |-> NoKey],
     [op |-> "resolve", dev |-> d1, key |-> NoKey],
     [op |-> "identity", dev |-> d1, key |-> k1]}

(* An amount that doubles times a hundred give in whole kobo, and one that *)
(* they do not; Paystack may make either 435 or 500 of the latter.         *)
MCAmounts == {"5", "4.35"}
MCWhole == {"435", "500"}
MCKobo == "5" :> "500" @@ "4.35" :> "434.99999999999994"
MCNaira == "500" :> "5" @@ "435" :> "4.35"
MCDoubles == MCAmounts \cup MCWhole \cup {"434.99999999999994"}

Payments ==
    {[op |-> "initialize", dev |-> d1, key |-> k1, provider |-> ask[1], amount |-> ask[2]] :
        ask \in {<<"default", "5">>, <<"default", "4.35">>, <<"flutterwave", "4.35">>}}
    \cup {[op |-> "check", dev |-> d1, key |-> k1, provider |-> p, reference |-> r] :
        p \in {"default", "flutterwave"}, r \in Reqs}

Lists ==
    {[op |-> "fund", dev |-> d1, key |-> NoKey]}
    \cup {[op |-> "list", dev |-> d1, key |-> NoKey, page |-> n] : n \in 1..2}

(* What is refused, or comes from nobody.                                  *)
Refused ==
    {[op |-> "usage", dev |-> d2, key |-> NoKey, of |-> k1],
     [op |-> "usage", dev |-> d1, key |-> NoKey, of |-> k2]}
    \cup {[op |-> "notify", dev |-> Nobody, key |-> NoKey, signed |-> s] : s \in BOOLEAN}

(* A page of rows; one to come is of the oldest one's time, or the newest. *)
MCTimes == {1, 4}
MCOldRows ==
    {[id |-> o1, createdAt |-> 3], [id |-> o2, createdAt |-> 3], [id |-> o3, createdAt |-> 1]}

Families == {Otps, Reported, Payments, Lists, Refused}

RaceCalls == UNION Families

(* Three requests of one kind: those of different kinds meet only in the   *)
(* request log, so what is logged while reports run is there too.  Two     *)
(* pages hold what one of the three commits.  Where nobody asks for it     *)
(* there is no password.                                                   *)
RaceInit ==
    /\ Init
    /\ \E family \in Families : \A r \in Reqs : call[r] \in family
    /\ \A r, s \in Reqs : call[r].op = "fund" /\ call[s].op = "fund" => r = s
    /\ (\E r \in Reqs : call[r] \notin Otps) => \A to \in Recipients : otp[to] = NoEntry

RaceSpec == RaceInit /\ [][Next]_vars

RaceSymmetry == Permutations(Reqs) \cup Permutations(Codes)
=============================================================================
