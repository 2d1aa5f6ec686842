----------------------------- MODULE WalletBank -----------------------------
(***************************************************************************)
(* The wallet service as the bank of module Bank: what the tables show of  *)
(* balances, strikes and locks.                                            *)
(***************************************************************************)
EXTENDS Wallet

Balances == [d \in Devs |-> wallet[d].balance]
Strikes == [d \in Devs |-> wallet[d].failedPinAttempts]
Locked == {d \in Devs : wallet[d].isLocked}

BankAmounts == {c.amount : c \in Calls} \cup {Opening[d].balance : d \in Opened}

B == INSTANCE Bank WITH
        Amounts <- BankAmounts, balance <- Balances, strikes <- Strikes, locked <- Locked

(* Without overlap (Overlap = FALSE) and without a transfer to oneself the *)
(* wallets are the bank, crashes between two awaits included: every step   *)
(* of a handler is one step of the bank or leaves it unchanged.            *)
ImplementsBank == B!BankSpec

(* README.md:62 "debit sender, credit receiver": a transfer moves money    *)
(* between balances and leaves their sum as it was.                        *)
TotalMoney == SumFunction(Balances)

Settles(r) == pc[r] = "commit" /\ pc'[r] = "reply"

TransferConserves ==
    [][\A r \in Reqs : call[r].op = "transfer" /\ Settles(r) => TotalMoney' = TotalMoney]_vars

(* What a call brings into the wallets, or takes out of them.              *)
Turnover(c) ==
    IF c.op = "fund" THEN c.amount ELSE IF c.op = "withdraw" THEN -c.amount ELSE 0

(* The balances a request has read are those it is about to replace, and   *)
(* it does not replace one twice.                                          *)
ReadsCurrent(r) ==
    LET c == call[r] IN
    /\ snap[r].balance = wallet[c.dev].balance
    /\ c.op = "transfer" => c.dev # c.to /\ peer[r].balance = wallet[c.to].balance

(* With overlap: nothing but a commit changes the sum of all balances, and *)
(* one that replaces the balances it read changes it by its turnover.      *)
MoneyConserved ==
    [][/\ (\A r \in Reqs : ~Settles(r)) => TotalMoney' = TotalMoney
       /\ \A r \in Reqs : Settles(r) /\ ReadsCurrent(r)
            => TotalMoney' = TotalMoney + Turnover(call[r])]_vars

OneAtATime ==
    /\ ~Overlap
    /\ \A c \in Calls : c.op = "transfer" => c.dev # c.to
=============================================================================
