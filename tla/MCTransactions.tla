-------------------------- MODULE MCTransactions --------------------------
(***************************************************************************)
(* Instances of Transactions: three wallets and one key.                   *)
(***************************************************************************)
EXTENDS Transactions

CONSTANTS w1, w2, w3, k1

Own(w, k) == [op |-> "own", from |-> w, to |-> w, key |-> k]
Move(w, v, k) == [op |-> "transfer", from |-> w, to |-> v, key |-> k]

(* Opposite transfers, a ring of three, a self-transfer, repeated keys.    *)
BodyList ==
    <<Own(w1, k1), Own(w2, NoKey), Move(w1, w2, NoKey), Move(w1, w2, k1),
      Move(w2, w1, k1), Move(w2, w3, NoKey), Move(w3, w1, k1), Move(w1, w1, NoKey)>>

MCBodies == {BodyList[i] : i \in DOMAIN BodyList}

Position(b) == CHOOSE i \in DOMAIN BodyList : BodyList[i] = b

(* Transactions 1, 2 and 3 are interchangeable: one of each set of initial *)
(* states that differ by their names is enough (symmetry, which TLC does   *)
(* not support for EveryTransactionEnds).                                  *)
OrderedInit == Init /\ \A t \in 1..2 : Position(body[t]) <= Position(body[t + 1])

OrderedSpec == OrderedInit /\ [][Next]_vars /\ Fairness
=============================================================================
