------------------------------ MODULE Commits ------------------------------
(***************************************************************************)
(* The $transactions of the wallet as module Wallet has them: the writes   *)
(* of one happen in a single step, if its idempotency key is free, or not  *)
(* at all.  Transactions implements this statement by statement.           *)
(***************************************************************************)
CONSTANTS
    Txs, Wallets, Keys, NoKey,
    Initial     \* names the balance every wallet starts with

VARIABLES
    body,       \* what each transaction writes
    balance,    \* the write each wallet's committed balance comes from
    rows,       \* the committed rows of WalletTransaction
    ended       \* how each transaction ended, "no" while it has not

commitVars == <<body, balance, rows, ended>>

(* A write, and the ledger row that goes with it, is named by its          *)
(* transaction and leg; the values were computed before it began.          *)
Legs(t) == IF body[t].op = "transfer" THEN {"debit", "credit"} ELSE {"own"}

(* The recipient's update is the later one, and wins a self-transfer.      *)
Written(t) ==
    [w \in Wallets |->
        CASE body[t].op = "transfer" /\ w = body[t].to -> <<t, "credit">>
          [] body[t].op = "transfer" /\ w = body[t].from /\ w # body[t].to -> <<t, "debit">>
          [] body[t].op = "own" /\ w = body[t].from -> <<t, "own">>
          [] OTHER -> balance[w]]

KeyTaken(k) == \E u \in Txs : ended[u] = "committed" /\ body[u].key = k /\ k # NoKey

CommitsInit ==
    /\ balance = [w \in Wallets |-> Initial]
    /\ rows = {}
    /\ ended = [t \in Txs |-> "no"]

Commit(t) ==
    /\ ended[t] = "no" /\ ~KeyTaken(body[t].key)
    /\ balance' = Written(t)
    /\ rows' = rows \cup {<<t, leg>> : leg \in Legs(t)}
    /\ ended' = [ended EXCEPT ![t] = "committed"]
    /\ UNCHANGED body

RollBack(t) ==
    /\ ended[t] = "no"
    /\ ended' = [ended EXCEPT ![t] = "aborted"]
    /\ UNCHANGED <<body, balance, rows>>

CommitsNext == \E t \in Txs : Commit(t) \/ RollBack(t)

CommitsSpec == CommitsInit /\ [][CommitsNext]_commitVars

-----------------------------------------------------------------------------
(* What callers rely on: a transaction has all its rows or none, two that  *)
(* committed differ in their keys, and a wallet has the balance one of its *)
(* own committed writes gave it, its first one only if there is none.      *)
Writes(t, w) ==
    w \in {body[t].from, IF body[t].op = "transfer" THEN body[t].to ELSE body[t].from}

Committed == {t \in Txs : ended[t] = "committed"}

AllOrNothing ==
    /\ rows = UNION {{<<t, leg>> : leg \in Legs(t)} : t \in Committed}
    /\ \A t, u \in Committed : t # u /\ body[t].key = body[u].key => body[t].key = NoKey
    /\ \A w \in Wallets :
          IF \E t \in Committed : Writes(t, w)
          THEN \E t \in Committed : Writes(t, w) /\ \E leg \in Legs(t) : balance[w] = <<t, leg>>
          ELSE balance[w] = Initial
=============================================================================
