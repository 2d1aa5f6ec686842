--------------------------- MODULE WalletCommits ---------------------------
(***************************************************************************)
(* The wallet service as the transactions of module Commits, the ones that *)
(* module Transactions runs statement by statement: a request is one of    *)
(* them, and is rolled back when it ends without having posted a row.      *)
(***************************************************************************)
EXTENDS Wallet

(* What the $transaction of a request writes.                              *)
Body(c) == [op |-> IF c.op = "transfer" THEN "transfer" ELSE "own",
            from |-> c.dev, to |-> c.to, key |-> c.key]

LegOf(row) ==
    IF call[row.ref].op # "transfer" THEN "own"
    ELSE IF row.type = "DEBIT" THEN "debit" ELSE "credit"

(* The write a balance comes from is that of the newest row.               *)
NameOf(row) == IF row.ref = OpeningRef THEN OpeningRef ELSE <<row.ref, LegOf(row)>>

LastWrite(d) == IF ledger[d] = <<>> THEN OpeningRef ELSE NameOf(ledger[d][Len(ledger[d])])

RowsOfAll == UNION {{ledger[d][i] : i \in DOMAIN ledger[d]} : d \in Devs}

CommittedRows == {NameOf(row) : row \in {row \in RowsOfAll : row.ref # OpeningRef}}

Outcome(r) ==
    IF Posted(r) THEN "committed" ELSE IF pc[r] \in Answers THEN "aborted" ELSE "no"

C == INSTANCE Commits WITH
        Txs <- Reqs, Wallets <- Devs, Initial <- OpeningRef,
        body <- [r \in Reqs |-> Body(call[r])],
        balance <- [d \in Devs |-> LastWrite(d)],
        rows <- CommittedRows,
        ended <- [r \in Reqs |-> Outcome(r)]

(* Every step of every handler is one of Commits or changes nothing there. *)
CommitsOnce == C!CommitsSpec
=============================================================================
