---------------------------- MODULE WalletProofs ----------------------------
(***************************************************************************)
(* Theorems about Wallet, for every set of developers, requests, PINs,     *)
(* keys and calls, and every interleaving: no step assumes Overlap.        *)
(***************************************************************************)
EXTENDS Wallet, FiniteSetTheorems, TLAPS

(* A transfer commits only after its recipient's wallet was found or made, *)
(* so the recipient is a developer.  TypeOK needs it to be inductive.      *)
RecipientKnown ==
    \A r \in Reqs : pc[r] = "commit" /\ call[r].op = "transfer" => call[r].to \in Devs

TypeInv == TypeOK /\ RecipientKnown

-----------------------------------------------------------------------------
(* The checks after a wallet read lead to a label; a transfer is never     *)
(* sent straight to its $transaction.                                      *)
LEMMA AfterReadType ==
    ASSUME NEW c \in CallType, NEW row \in WalletRow
    PROVE  /\ AfterRead(c, row) \in Waiting \cup Answers
           /\ AfterRead(c, row) = "commit" => c.op = "fund"
  BY DEF AfterRead, Waiting, Answers, Refusals, CallType, Ops, MoneyOps

LEMMA AfterResetType ==
    ASSUME NEW c \in CallType, NEW row \in WalletRow
    PROVE  /\ AfterReset(c, row) \in Waiting \cup Answers
           /\ AfterReset(c, row) = "commit" => c.op # "transfer"
  BY DEF AfterReset, Waiting, Answers, Refusals

LEMMA NewWalletType == NewWallet \in WalletRow
  BY DEF NewWallet, WalletRow

(* An update that leaves a row leaves a table of rows.                     *)
LEMMA TableUpdate ==
    ASSUME NEW w \in [Devs -> WalletRow], NEW d, NEW row, d \in Devs => row \in WalletRow
    PROVE  [w EXCEPT ![d] = row] \in [Devs -> WalletRow]
  OBVIOUS

LEMMA SetBalanceType ==
    ASSUME NEW w \in [Devs -> WalletRow], NEW d, NEW row \in LedgerRow
    PROVE  SetBalance(w, d, row) \in [Devs -> WalletRow]
  <1>1. d \in Devs => [w[d] EXCEPT !.balance = row.after] \in WalletRow
    BY DEF WalletRow, LedgerRow
  <1>2. SetBalance(w, d, row) = [w EXCEPT ![d] = [w[d] EXCEPT !.balance = row.after]]
    BY DEF SetBalance
  <1> QED BY <1>1, <1>2, TableUpdate

LEMMA AddRowType ==
    ASSUME NEW l \in [Devs -> Seq(LedgerRow)], NEW d, NEW row \in LedgerRow
    PROVE  AddRow(l, d, row) \in [Devs -> Seq(LedgerRow)]
  <1>1. CASE d \in Devs
    <2>1. Append(l[d], row) \in Seq(LedgerRow)
      BY <1>1
    <2> QED BY <2>1 DEF AddRow
  <1>2. CASE d \notin Devs
    BY <1>2 DEF AddRow
  <1> QED BY <1>1, <1>2

LEMMA CallFields ==
    ASSUME TypeOK, NEW r \in Reqs
    PROVE  /\ call[r] \in CallType /\ call[r].op \in Ops /\ call[r].dev \in Devs
           /\ call[r].to \in Devs \cup Strangers
           /\ call[r].amount \in Nat /\ call[r].pin \in Pins /\ call[r].newPin \in Pins
           /\ call[r].key \in Keys \cup {NoKey, EmptyKey}
  BY WalletAssumption DEF TypeOK, CallType

(* The rows a handler books are rows of table WalletTransaction.           *)
LEMMA CreditType ==
    ASSUME NEW r \in Reqs \cup {OpeningRef}, NEW amount \in Nat, NEW row \in WalletRow,
           NEW key \in Keys \cup {NoKey, EmptyKey}
    PROVE  Credit(r, amount, row, key) \in LedgerRow
  BY DEF Credit, LedgerRow, WalletRow

LEMMA RowType ==
    ASSUME TypeOK, NEW r \in Reqs
    PROVE  FundRow(r) \in LedgerRow /\ DebitRow(r) \in LedgerRow /\ RecipientRow(r) \in LedgerRow
  <1>1. /\ call[r].amount \in Nat /\ call[r].key \in Keys \cup {NoKey, EmptyKey}
        /\ snap[r] \in WalletRow /\ peer[r] \in WalletRow
    BY CallFields DEF TypeOK
  <1>2. FundRow(r) \in LedgerRow /\ RecipientRow(r) \in LedgerRow
    BY <1>1, CreditType DEF FundRow, RecipientRow
  <1>3. DebitRow(r) \in LedgerRow
    BY <1>1 DEF DebitRow, Debit, LedgerRow, WalletRow
  <1> QED BY <1>2, <1>3

-----------------------------------------------------------------------------
LEMMA OneRowSeq ==
    ASSUME NEW S, NEW x \in S
    PROVE  <<x>> \in Seq(S)
  OBVIOUS

LEMMA EmptySeq == ASSUME NEW S PROVE <<>> \in Seq(S)
  OBVIOUS

(* The row and the ledger of a wallet that exists at the start.            *)
LEMMA OpeningType ==
    ASSUME NEW d \in Opened
    PROVE  /\ d \in Devs /\ Opening[d].balance \in Nat
           /\ OpenedWallet(d) \in WalletRow
           /\ OpeningRow(d) \in LedgerRow
  <1>1. d \in Devs /\ Opening[d].balance \in Nat /\ Opening[d].pin \in Pins \cup {NoPin}
    BY WalletAssumption
  <1>2. OpenedWallet(d) \in WalletRow
    BY <1>1 DEF OpenedWallet, WalletRow
  <1>3. OpeningRow(d) \in LedgerRow
    BY <1>1, CreditType, NewWalletType DEF OpeningRow
  <1> QED BY <1>1, <1>2, <1>3

LEMMA TypeInit == Init => TypeInv
  <1> SUFFICES ASSUME Init PROVE TypeInv
      OBVIOUS
  <1> USE DEF Init
  <1>1. wallet \in [Devs -> WalletRow]
    BY OpeningType, NewWalletType
  <1>3. ledger \in [Devs -> Seq(LedgerRow)]
    <2> SUFFICES ASSUME NEW d \in Devs PROVE ledger[d] \in Seq(LedgerRow)
      OBVIOUS
    <2>1. CASE d \in Opened /\ Opening[d].balance > 0
      BY <2>1, OpeningType, OneRowSeq
    <2>2. CASE ~(d \in Opened /\ Opening[d].balance > 0)
      BY <2>2, EmptySeq
    <2> QED BY <2>1, <2>2
  <1>4. created \in SUBSET Devs /\ audit \in SUBSET Reqs /\ clobbered \in SUBSET Devs
    BY WalletAssumption
  <1>5. snap \in [Reqs -> WalletRow] /\ peer \in [Reqs -> WalletRow]
    BY NewWalletType
  <1>6. call \in [Reqs -> Calls] /\ pc \in [Reqs -> {"new"} \cup Waiting \cup Answers]
    OBVIOUS
  <1>7. RecipientKnown
    BY DEF RecipientKnown
  <1> QED
    BY <1>1, <1>3, <1>4, <1>5, <1>6, <1>7 DEF TypeInv, TypeOK

LEMMA TypeNext == TypeInv /\ [Next]_vars => TypeInv'
  <1> SUFFICES ASSUME TypeInv, [Next]_vars PROVE TypeInv'
      OBVIOUS
  <1> USE DEF TypeInv
  <1>u. CASE UNCHANGED vars
    BY <1>u DEF vars, TypeOK, RecipientKnown
  <1>n. CASE Next
    <2> PICK r \in Reqs : Arrive(r) \/ Handle(r) \/ Fail(r)
      BY <1>n DEF Next
    <2> DEFINE c == call[r]
    <2>c. /\ c \in CallType /\ c.dev \in Devs /\ c.amount \in Nat /\ c.newPin \in Pins
          /\ c.key \in Keys \cup {NoKey, EmptyKey} /\ c.to \in Devs \cup Strangers
          /\ snap[r] \in WalletRow /\ peer[r] \in WalletRow /\ wallet[c.dev] \in WalletRow
      BY CallFields DEF TypeOK
    <2> HIDE DEF c
    \* a step that only moves r to a label other than "commit"
    <2>m. ASSUME NEW label \in Waiting \cup Answers, Goto(r, label), call' = call,
                 label = "commit" => c.op # "transfer" \/ c.to \in Devs
          PROVE  /\ pc' \in [Reqs -> {"new"} \cup Waiting \cup Answers]
                 /\ RecipientKnown'
      BY <2>m DEF Goto, TypeOK, RecipientKnown, c
    <2>1. CASE Arrive(r)
      BY <2>1, <2>m DEF Arrive, TypeOK, Waiting
    <2>2. CASE CheckKey(r)
      BY <2>2, <2>m DEF CheckKey, TypeOK, Waiting, Answers
    <2>3. CASE FindWallet(r)
      <3>1. CASE c.dev \in created
        BY <2>3, <3>1, <2>c, <2>m, AfterReadType DEF FindWallet, TypeOK, c
      <3>2. CASE c.dev \notin created
        BY <2>3, <3>2, <2>c, <2>m DEF FindWallet, TypeOK, c, Waiting, Answers, Refusals
      <3> QED BY <3>1, <3>2
    <2>4. CASE CreateWallet(r)
      <3>1. CASE c.dev \notin created
        <4>1. PICK l \in {AfterRead(c, NewWallet), "failed"} :
              /\ Goto(r, l) /\ call' = call
              /\ created' = created \cup {c.dev} /\ snap' = [snap EXCEPT ![r] = NewWallet]
              /\ UNCHANGED <<wallet, ledger, audit, peer, clobbered>>
          BY <2>4, <3>1 DEF CreateWallet, c, Lands
        <4>2. /\ pc' \in [Reqs -> {"new"} \cup Waiting \cup Answers]
              /\ RecipientKnown'
          <5>1. l \in Waiting \cup Answers /\ (l = "commit" => c.op = "fund")
            BY <2>c, AfterReadType, NewWalletType DEF Answers
          <5> QED BY <4>1, <5>1, <2>m
        <4> QED BY <4>1, <4>2, <2>c, NewWalletType DEF TypeOK
      <3>2. CASE c.dev \in created
        BY <2>4, <3>2, <2>c, <2>m DEF CreateWallet, TypeOK, c, Answers, Lands
      <3> QED BY <3>1, <3>2
    <2>5. CASE HandleFailedPin(r)
      <3>1. wallet' \in [Devs -> WalletRow]
        <4> DEFINE d == c.dev
                   attempts == snap[r].failedPinAttempts + 1
                   lock == wallet[d].isLocked \/ attempts >= MaxPinAttempts
                   row == [wallet[d] EXCEPT !.failedPinAttempts = attempts, !.isLocked = lock]
        <4>1. attempts \in Nat /\ lock \in BOOLEAN /\ wallet[d] \in WalletRow
          BY <2>c DEF WalletRow
        <4> HIDE DEF attempts, lock
        <4>2. row \in WalletRow
          BY <4>1 DEF WalletRow
        <4>3. wallet' = [wallet EXCEPT ![d] = row]
          BY <2>5, <2>c DEF HandleFailedPin, TypeOK, attempts, lock, c
        <4> QED BY <4>2, <4>3 DEF TypeOK
      <3>2. PICK l \in {"badPin", "failed"} : Goto(r, l)
        BY <2>5 DEF HandleFailedPin, Lands
      <3> QED BY <2>5, <3>1, <3>2, <2>m DEF HandleFailedPin, TypeOK, Answers, Refusals
    <2>6. CASE ResetAttempts(r)
      <3>1. wallet' \in [Devs -> WalletRow]
        <4>1. [wallet[c.dev] EXCEPT !.failedPinAttempts = 0] \in WalletRow
          BY <2>c DEF WalletRow
        <4>2. wallet' = [wallet EXCEPT ![c.dev] = [wallet[c.dev] EXCEPT !.failedPinAttempts = 0]]
          BY <2>6 DEF ResetAttempts, c
        <4> QED BY <4>1, <4>2, TableUpdate DEF TypeOK
      <3>2. PICK l \in {AfterReset(c, snap[r]), "failed"} : Goto(r, l)
        BY <2>6 DEF ResetAttempts, Lands, c
      <3> QED BY <2>6, <3>1, <3>2, <2>c, <2>m, AfterResetType DEF ResetAttempts, TypeOK, Answers, c
    <2>7. CASE FindRecipient(r)
      <3>1. CASE c.to \in created
        <4>1. c.to \in Devs /\ wallet[c.to] \in WalletRow
          BY <3>1 DEF TypeOK
        <4> QED BY <2>7, <3>1, <4>1, <2>m DEF FindRecipient, TypeOK, c, Waiting
      <3>2. CASE c.to \notin created
        BY <2>7, <3>2, <2>m DEF FindRecipient, TypeOK, c, Waiting
      <3> QED BY <3>1, <3>2
    <2>8. CASE CreateRecipient(r)
      <3>1. CASE c.to \in Devs \ created
        BY <2>8, <3>1, <2>m, NewWalletType DEF CreateRecipient, TypeOK, c, Waiting
      <3>2. CASE c.to \notin Devs \ created
        BY <2>8, <3>2, <2>m DEF CreateRecipient, TypeOK, c, Answers
      <3> QED BY <3>1, <3>2
    <2>9. CASE Fund(r) \/ Withdraw(r)
      <3>1. PICK row \in {FundRow(r), DebitRow(r)} :
              /\ wallet' = SetBalance(wallet, c.dev, row)
              /\ ledger' = AddRow(ledger, c.dev, row)
              /\ clobbered' = clobbered \cup Clobbers(wallet, c.dev, row)
        BY <2>9 DEF Fund, Withdraw, c
      <3>2. row \in LedgerRow
        BY RowType
      <3>3. /\ wallet' \in [Devs -> WalletRow] /\ ledger' \in [Devs -> Seq(LedgerRow)]
            /\ clobbered' \in SUBSET Devs
        BY <3>1, <3>2, <2>c, SetBalanceType, AddRowType DEF TypeOK, Clobbers
      <3> QED BY <2>9, <3>3, <2>m DEF Fund, Withdraw, TypeOK, Waiting
    <2>11. CASE Transfer(r)
      <3> DEFINE sent == SetBalance(wallet, c.dev, DebitRow(r))
      <3>0. c.to \in Devs
        BY <2>11 DEF Transfer, RecipientKnown, c
      <3>1. DebitRow(r) \in LedgerRow /\ RecipientRow(r) \in LedgerRow
        BY RowType
      <3>2. /\ sent \in [Devs -> WalletRow]
            /\ AddRow(ledger, c.dev, DebitRow(r)) \in [Devs -> Seq(LedgerRow)]
        BY <3>1, <2>c, SetBalanceType, AddRowType DEF TypeOK
      <3> HIDE DEF sent
      <3>3. /\ wallet' = SetBalance(sent, c.to, RecipientRow(r))
            /\ ledger' = AddRow(AddRow(ledger, c.dev, DebitRow(r)), c.to, RecipientRow(r))
            /\ clobbered' = clobbered \cup Clobbers(wallet, c.dev, DebitRow(r))
                                      \cup Clobbers(sent, c.to, RecipientRow(r))
        BY <2>11 DEF Transfer, sent, c
      <3>4. /\ wallet' \in [Devs -> WalletRow] /\ ledger' \in [Devs -> Seq(LedgerRow)]
            /\ clobbered' \in SUBSET Devs
        BY <3>0, <3>1, <3>2, <3>3, <2>c, SetBalanceType, AddRowType DEF TypeOK, Clobbers
      <3> QED BY <2>11, <3>4, <2>m DEF Transfer, TypeOK, Waiting
    <2>12. CASE KeyConflict(r)
      BY <2>12, <2>m DEF KeyConflict, TypeOK, Answers
    <2>13. CASE SavePin(r)
      <3>1. wallet' \in [Devs -> WalletRow]
        <4>1. [wallet[c.dev] EXCEPT !.pin = c.newPin] \in WalletRow
          BY <2>c DEF WalletRow
        <4>2. wallet' = [wallet EXCEPT ![c.dev] = [wallet[c.dev] EXCEPT !.pin = c.newPin]]
          BY <2>13 DEF SavePin, c
        <4> QED BY <4>1, <4>2, TableUpdate DEF TypeOK
      <3> QED BY <2>13, <3>1, <2>m DEF SavePin, TypeOK, Waiting
    <2>14. CASE Unlock(r)
      <3>1. wallet' \in [Devs -> WalletRow]
        <4> DEFINE row == [wallet[c.dev] EXCEPT !.isLocked = FALSE, !.failedPinAttempts = 0]
        <4>1. row \in WalletRow
          BY <2>c DEF WalletRow
        <4>2. wallet' = [wallet EXCEPT ![c.dev] = row]
          BY <2>14 DEF Unlock, c
        <4> QED BY <4>1, <4>2, TableUpdate DEF TypeOK
      <3> QED BY <2>14, <3>1, <2>m DEF Unlock, TypeOK, Waiting
    <2>15. CASE WriteAudit(r)
      BY <2>15, <2>m DEF WriteAudit, TypeOK, Waiting
    <2>16. CASE Reply(r)
      BY <2>16, <2>m DEF Reply, TypeOK, Answers
    <2>17. CASE Fail(r)
      BY <2>17, <2>m DEF Fail, TypeOK, Answers
    <2> QED
      BY <2>1, <2>2, <2>3, <2>4, <2>5, <2>6, <2>7, <2>8, <2>9, <2>11, <2>12,
         <2>13, <2>14, <2>15, <2>16, <2>17 DEF Handle
  <1> QED BY <1>u, <1>n

(* TypeOK for every instance: what the tables and the requests hold.       *)
THEOREM TypeCorrect == Spec => []TypeOK
  <1>1. Spec => []TypeInv
    BY TypeInit, TypeNext, PTL DEF Spec
  <1> QED BY <1>1, PTL DEF TypeInv
-----------------------------------------------------------------------------
(* What one booking, a SetBalance with an AddRow, does to the tables.      *)
LEMMA SetBalanceFacts ==
    ASSUME NEW w \in [Devs -> WalletRow], NEW d \in Devs, NEW row \in LedgerRow
    PROVE  /\ SetBalance(w, d, row)[d].balance = row.after
           /\ \A e \in Devs : e # d => SetBalance(w, d, row)[e] = w[e]
  BY DEF SetBalance, WalletRow, LedgerRow

LEMMA AddRowFacts ==
    ASSUME NEW l \in [Devs -> Seq(LedgerRow)], NEW d \in Devs, NEW row \in LedgerRow
    PROVE  /\ Len(l[d]) \in Nat /\ DOMAIN l[d] = 1..Len(l[d])
           /\ AddRow(l, d, row)[d] # <<>>
           /\ Len(AddRow(l, d, row)[d]) = Len(l[d]) + 1
           /\ DOMAIN AddRow(l, d, row)[d] = 1..(Len(l[d]) + 1)
           /\ AddRow(l, d, row)[d][Len(l[d]) + 1] = row
           /\ \A i \in 1..Len(l[d]) : AddRow(l, d, row)[d][i] = l[d][i]
           /\ \A e \in Devs : e # d => AddRow(l, d, row)[e] = l[e]
  <1>1. l[d] \in Seq(LedgerRow)
    OBVIOUS
  <1>2. AddRow(l, d, row)[d] = Append(l[d], row)
    BY DEF AddRow
  <1>3. \A e \in Devs : e # d => AddRow(l, d, row)[e] = l[e]
    BY DEF AddRow
  <1> HIDE DEF AddRow
  <1> QED BY <1>1, <1>2, <1>3

(* Money and ledger change in the three $transactions and nowhere else.    *)
BooksUnchanged ==
    /\ \A d \in Devs : wallet'[d].balance = wallet[d].balance
    /\ ledger' = ledger /\ clobbered' = clobbered

Commits(r) == Fund(r) \/ Withdraw(r) \/ Transfer(r)

(* What was asked does not change.                                         *)
LEMMA CallsStay == [Next]_vars => call' = call
  <1> SUFFICES ASSUME [Next]_vars PROVE call' = call
      OBVIOUS
  <1>1. CASE UNCHANGED vars
    BY <1>1 DEF vars
  <1>2. ASSUME NEW r \in Reqs, Arrive(r) \/ Fail(r) PROVE call' = call
    BY <1>2 DEF Arrive, Fail
  <1>3. ASSUME NEW r \in Reqs, Handle(r) PROVE call' = call
    BY <1>3 DEF Handle, CheckKey, FindWallet, CreateWallet, HandleFailedPin, ResetAttempts,
                FindRecipient, CreateRecipient, Fund, Withdraw, Transfer, KeyConflict,
                SavePin, Unlock, WriteAudit, Reply, Lands
  <1> QED BY <1>1, <1>2, <1>3 DEF Next

LEMMA OnlyCommitsMoveMoney ==
    ASSUME TypeInv, [Next]_vars
    PROVE  BooksUnchanged \/ \E r \in Reqs : Commits(r)
  <1> USE DEF TypeInv
  <1>1. CASE UNCHANGED vars
    BY <1>1 DEF vars, BooksUnchanged
  <1>2. CASE Next
    <2> PICK r \in Reqs : Arrive(r) \/ Handle(r) \/ Fail(r)
      BY <1>2 DEF Next
    <2>1. CASE \/ Arrive(r) \/ CheckKey(r) \/ FindWallet(r) \/ CreateWallet(r)
               \/ FindRecipient(r) \/ CreateRecipient(r) \/ KeyConflict(r)
               \/ WriteAudit(r) \/ Reply(r) \/ Fail(r)
      BY <2>1 DEF BooksUnchanged, Arrive, CheckKey, FindWallet, CreateWallet, FindRecipient,
                  CreateRecipient, KeyConflict, WriteAudit, Reply, Fail, Lands
    <2>2. CASE HandleFailedPin(r)
      BY <2>2 DEF BooksUnchanged, HandleFailedPin, TypeOK, WalletRow
    <2>3. CASE ResetAttempts(r)
      BY <2>3 DEF BooksUnchanged, ResetAttempts, TypeOK, WalletRow
    <2>4. CASE SavePin(r)
      BY <2>4 DEF BooksUnchanged, SavePin, TypeOK, WalletRow
    <2>5. CASE Unlock(r)
      BY <2>5 DEF BooksUnchanged, Unlock, TypeOK, WalletRow
    <2> QED BY <2>1, <2>2, <2>3, <2>4, <2>5 DEF Handle, Commits
  <1> QED BY <1>1, <1>2

(* A commit books one row in its caller's wallet or, for a transfer, one   *)
(* there and then one in the recipient's.                                  *)
BooksOne(r, row) ==
    /\ wallet' = SetBalance(wallet, call[r].dev, row)
    /\ ledger' = AddRow(ledger, call[r].dev, row)
    /\ clobbered' = clobbered \cup Clobbers(wallet, call[r].dev, row)

BooksTwo(r) ==
    LET sent == SetBalance(wallet, call[r].dev, DebitRow(r)) IN
    /\ wallet' = SetBalance(sent, call[r].to, RecipientRow(r))
    /\ ledger' = AddRow(AddRow(ledger, call[r].dev, DebitRow(r)), call[r].to, RecipientRow(r))
    /\ clobbered' = clobbered \cup Clobbers(wallet, call[r].dev, DebitRow(r))
                              \cup Clobbers(sent, call[r].to, RecipientRow(r))

LEMMA CommitBooks ==
    ASSUME TypeInv, NEW r \in Reqs, Commits(r)
    PROVE  /\ \/ BooksOne(r, FundRow(r)) /\ call[r].op = "fund"
              \/ BooksOne(r, DebitRow(r)) /\ call[r].op = "withdraw"
              \/ BooksTwo(r) /\ call[r].op = "transfer"
           /\ pc[r] = "commit" /\ KeyFree(call[r].key) /\ Goto(r, "reply")
           /\ UNCHANGED <<call, snap, peer>>
           /\ call[r].dev \in Devs /\ (call[r].op = "transfer" => call[r].to \in Devs)
           /\ FundRow(r) \in LedgerRow /\ DebitRow(r) \in LedgerRow /\ RecipientRow(r) \in LedgerRow
  BY CallFields, RowType
     DEF TypeInv, RecipientKnown, Commits, Fund, Withdraw, Transfer, BooksOne, BooksTwo

-----------------------------------------------------------------------------
(* The balance and the newest row, for any pair of tables.                 *)
Newest(w, l) ==
    \A d \in Devs : w[d].balance = IF l[d] = <<>> THEN 0 ELSE l[d][Len(l[d])].after

LEMMA BookingKeepsNewest ==
    ASSUME NEW w \in [Devs -> WalletRow], NEW l \in [Devs -> Seq(LedgerRow)],
           NEW d \in Devs, NEW row \in LedgerRow, Newest(w, l)
    PROVE  Newest(SetBalance(w, d, row), AddRow(l, d, row))
  <1> DEFINE w2 == SetBalance(w, d, row)
             l2 == AddRow(l, d, row)
  <1>a. w2[d].balance = row.after /\ \A e \in Devs : e # d => w2[e] = w[e]
    BY SetBalanceFacts
  <1>b. /\ l2[d] # <<>> /\ Len(l2[d]) = Len(l[d]) + 1 /\ l2[d][Len(l[d]) + 1] = row
        /\ \A e \in Devs : e # d => l2[e] = l[e]
    BY AddRowFacts
  <1> HIDE DEF w2, l2
  <1>1. l2[d][Len(l2[d])] = row
    BY <1>b
  <1>2. ASSUME NEW e \in Devs
        PROVE  w2[e].balance = IF l2[e] = <<>> THEN 0 ELSE l2[e][Len(l2[e])].after
    BY <1>a, <1>b, <1>1 DEF Newest
  <1> QED BY <1>2 DEF Newest, w2, l2

LEMMA NewestInit == Init => BalanceIsNewestRow
  <1> SUFFICES ASSUME Init, NEW d \in Devs
               PROVE  wallet[d].balance = IF ledger[d] = <<>> THEN 0
                                          ELSE ledger[d][Len(ledger[d])].after
      BY DEF BalanceIsNewestRow
  <1>1. CASE d \in Opened /\ Opening[d].balance > 0
    <2>1. wallet[d].balance = Opening[d].balance /\ ledger[d] = <<OpeningRow(d)>>
      BY <1>1 DEF Init, OpenedWallet
    <2>2. OpeningRow(d).after = 0 + Opening[d].balance
      BY DEF OpeningRow, Credit, NewWallet
    <2> QED BY <1>1, <2>1, <2>2, OpeningType
  <1>2. CASE ~(d \in Opened /\ Opening[d].balance > 0)
    <2>1. ledger[d] = <<>>
      BY <1>2 DEF Init
    <2>2. wallet[d].balance = 0
      <3>1. CASE d \in Opened
        <4>1. wallet[d].balance = Opening[d].balance
          BY <3>1 DEF Init, OpenedWallet
        <4>2. Opening[d].balance \in Nat /\ ~(Opening[d].balance > 0)
          BY <1>2, <3>1, OpeningType
        <4> QED BY <4>1, <4>2
      <3>2. CASE d \notin Opened
        BY <3>2 DEF Init, NewWallet
      <3> QED BY <3>1, <3>2
    <2> QED BY <2>1, <2>2
  <1> QED BY <1>1, <1>2

LEMMA NewestNext == TypeInv /\ BalanceIsNewestRow /\ [Next]_vars => BalanceIsNewestRow'
  <1> SUFFICES ASSUME TypeInv, BalanceIsNewestRow, [Next]_vars PROVE BalanceIsNewestRow'
      OBVIOUS
  <1>0. /\ wallet \in [Devs -> WalletRow] /\ ledger \in [Devs -> Seq(LedgerRow)]
        /\ Newest(wallet, ledger)
    BY DEF TypeInv, TypeOK, BalanceIsNewestRow, Newest
  <1>1. CASE BooksUnchanged
    BY <1>1 DEF BalanceIsNewestRow, BooksUnchanged
  <1>2. ASSUME NEW r \in Reqs, Commits(r) PROVE Newest(wallet', ledger')
    <2>1. CASE BooksOne(r, FundRow(r)) \/ BooksOne(r, DebitRow(r))
      BY <1>0, <1>2, <2>1, CommitBooks, BookingKeepsNewest DEF BooksOne
    <2>2. CASE BooksTwo(r) /\ call[r].op = "transfer"
      <3> DEFINE sent == SetBalance(wallet, call[r].dev, DebitRow(r))
                 logged == AddRow(ledger, call[r].dev, DebitRow(r))
      <3>1. /\ call[r].dev \in Devs /\ call[r].to \in Devs
            /\ DebitRow(r) \in LedgerRow /\ RecipientRow(r) \in LedgerRow
        BY <1>2, <2>2, CommitBooks
      <3>2. /\ Newest(sent, logged) /\ sent \in [Devs -> WalletRow]
            /\ logged \in [Devs -> Seq(LedgerRow)]
        BY <1>0, <3>1, BookingKeepsNewest, SetBalanceType, AddRowType
      <3>3. /\ wallet' = SetBalance(sent, call[r].to, RecipientRow(r))
            /\ ledger' = AddRow(logged, call[r].to, RecipientRow(r))
        BY <2>2 DEF BooksTwo
      <3> HIDE DEF sent, logged
      <3> QED BY <3>1, <3>2, <3>3, BookingKeepsNewest
    <2> QED BY <1>2, <2>1, <2>2, CommitBooks
  <1>3. ASSUME Newest(wallet', ledger') PROVE BalanceIsNewestRow'
    BY <1>3 DEF Newest, BalanceIsNewestRow
  <1> QED BY <1>1, <1>2, <1>3, OnlyCommitsMoveMoney

(* Every wallet's balance is balanceAfter of its newest transaction row,   *)
(* for every interleaving of requests and failures.                        *)
THEOREM BalanceCorrect == Spec => []BalanceIsNewestRow
  <1>1. Init => TypeInv /\ BalanceIsNewestRow
    BY TypeInit, NewestInit
  <1>2. TypeInv /\ BalanceIsNewestRow /\ [Next]_vars => (TypeInv /\ BalanceIsNewestRow)'
    BY TypeNext, NewestNext
  <1> QED BY <1>1, <1>2, PTL DEF Spec
-----------------------------------------------------------------------------
(* The chain of rows: a booking computed from the balance it replaces      *)
(* continues the chain, any other marks its wallet as clobbered.           *)
Chained(l, cl) ==
    \A d \in Devs \ cl : \A i \in DOMAIN l[d] :
        l[d][i].before = IF i = 1 THEN 0 ELSE l[d][i - 1].after

LEMMA BookingKeepsChain ==
    ASSUME NEW w \in [Devs -> WalletRow], NEW l \in [Devs -> Seq(LedgerRow)], NEW cl,
           NEW d \in Devs, NEW row \in LedgerRow, Newest(w, l), Chained(l, cl)
    PROVE  Chained(AddRow(l, d, row), cl \cup Clobbers(w, d, row))
  <1> DEFINE l2 == AddRow(l, d, row)
             n == Len(l[d])
  <1>a. n \in Nat /\ DOMAIN l[d] = 1..n /\ DOMAIN l2[d] = 1..(n + 1)
    BY AddRowFacts
  <1>b. l2[d][n + 1] = row /\ \A i \in 1..n : l2[d][i] = l[d][i]
    BY AddRowFacts
  <1>c. \A e \in Devs : e # d => l2[e] = l[e]
    BY AddRowFacts
  <1>1. /\ n \in Nat /\ DOMAIN l[d] = 1..n /\ DOMAIN l2[d] = 1..(n + 1)
        /\ l2[d][n + 1] = row /\ \A i \in 1..n : l2[d][i] = l[d][i]
        /\ \A e \in Devs : e # d => l2[e] = l[e]
    BY <1>a, <1>b, <1>c
  <1>2. l[d] = <<>> <=> n = 0
    <2>1. l[d] \in Seq(LedgerRow)
      OBVIOUS
    <2> QED BY <2>1
  <1>3. w[d].balance = IF n = 0 THEN 0 ELSE l[d][n].after
    BY <1>2 DEF Newest
  <1> HIDE DEF l2, n
  <1>4. ASSUME NEW e \in Devs \ (cl \cup Clobbers(w, d, row)), NEW i \in DOMAIN l2[e]
        PROVE  l2[e][i].before = IF i = 1 THEN 0 ELSE l2[e][i - 1].after
    <2>1. CASE e # d
      BY <1>1, <1>4, <2>1 DEF Chained
    <2>2. CASE e = d /\ i \in 1..n
      <3>1. l[d][i].before = IF i = 1 THEN 0 ELSE l[d][i - 1].after
        BY <1>1, <1>4, <2>2 DEF Chained
      <3>2. i # 1 => i - 1 \in 1..n
        BY <1>1, <2>2
      <3>3. l2[d][i] = l[d][i] /\ (i # 1 => l2[d][i - 1] = l[d][i - 1])
        BY <1>1, <2>2, <3>2
      <3> QED BY <2>2, <3>1, <3>3
    <2>3. CASE e = d /\ i = n + 1
      <3>1. w[d].balance = row.before
        BY <1>4, <2>3 DEF Clobbers
      <3>2. CASE n = 0
        BY <1>1, <1>3, <2>3, <3>1, <3>2
      <3>3. CASE n # 0
        <4>1. l2[d][n] = l[d][n] /\ i - 1 = n /\ i # 1
          BY <1>1, <2>3, <3>3
        <4> QED BY <1>1, <1>3, <2>3, <3>1, <3>3, <4>1
      <3> QED BY <3>2, <3>3
    <2> QED BY <1>1, <1>4, <2>1, <2>2, <2>3
  <1> QED BY <1>4 DEF Chained, l2

LEMMA ChainInit == Init => ChainUnlessClobbered
  <1> SUFFICES ASSUME Init, NEW d \in Devs, NEW i \in DOMAIN ledger[d]
               PROVE  ledger[d][i].before = IF i = 1 THEN 0 ELSE ledger[d][i - 1].after
      BY DEF ChainUnlessClobbered
  <1>1. d \in Opened /\ ledger[d] = <<OpeningRow(d)>> /\ i = 1
    BY DEF Init
  <1>2. OpeningRow(d).before = 0
    BY DEF OpeningRow, Credit, NewWallet
  <1> QED BY <1>1, <1>2

LEMMA ChainNext ==
    TypeInv /\ BalanceIsNewestRow /\ ChainUnlessClobbered /\ [Next]_vars
        => ChainUnlessClobbered'
  <1> SUFFICES ASSUME TypeInv, BalanceIsNewestRow, ChainUnlessClobbered, [Next]_vars
               PROVE  ChainUnlessClobbered'
      OBVIOUS
  <1>0. /\ wallet \in [Devs -> WalletRow] /\ ledger \in [Devs -> Seq(LedgerRow)]
        /\ Newest(wallet, ledger) /\ Chained(ledger, clobbered)
    BY DEF TypeInv, TypeOK, BalanceIsNewestRow, Newest, ChainUnlessClobbered, Chained
  <1>1. CASE BooksUnchanged
    BY <1>1 DEF ChainUnlessClobbered, BooksUnchanged
  <1>2. ASSUME NEW r \in Reqs, Commits(r) PROVE Chained(ledger', clobbered')
    <2>1. CASE BooksOne(r, FundRow(r)) \/ BooksOne(r, DebitRow(r))
      <3>1. PICK row \in LedgerRow : BooksOne(r, row)
        BY <1>2, <2>1, CommitBooks
      <3>2. call[r].dev \in Devs
        BY <1>2, CommitBooks
      <3> QED BY <1>0, <3>1, <3>2, BookingKeepsChain DEF BooksOne
    <2>2. CASE BooksTwo(r) /\ call[r].op = "transfer"
      <3> DEFINE sent == SetBalance(wallet, call[r].dev, DebitRow(r))
                 logged == AddRow(ledger, call[r].dev, DebitRow(r))
                 marked == clobbered \cup Clobbers(wallet, call[r].dev, DebitRow(r))
      <3>1. /\ call[r].dev \in Devs /\ call[r].to \in Devs
            /\ DebitRow(r) \in LedgerRow /\ RecipientRow(r) \in LedgerRow
        BY <1>2, <2>2, CommitBooks
      <3>2. /\ Newest(sent, logged) /\ Chained(logged, marked)
            /\ sent \in [Devs -> WalletRow] /\ logged \in [Devs -> Seq(LedgerRow)]
        BY <1>0, <3>1, BookingKeepsNewest, BookingKeepsChain, SetBalanceType, AddRowType
      <3>3. /\ ledger' = AddRow(logged, call[r].to, RecipientRow(r))
            /\ clobbered' = marked \cup Clobbers(sent, call[r].to, RecipientRow(r))
        BY <2>2 DEF BooksTwo
      <3> HIDE DEF sent, logged, marked
      <3> QED BY <3>1, <3>2, <3>3, BookingKeepsChain
    <2> QED BY <1>2, <2>1, <2>2, CommitBooks
  <1>3. ASSUME Chained(ledger', clobbered') PROVE ChainUnlessClobbered'
    BY <1>3 DEF Chained, ChainUnlessClobbered
  <1> QED BY <1>1, <1>2, <1>3, OnlyCommitsMoveMoney

(* A ledger whose chain is broken was written to from a stale row.         *)
THEOREM ChainCorrect == Spec => []ChainUnlessClobbered
  <1>1. Init => TypeInv /\ BalanceIsNewestRow /\ ChainUnlessClobbered
    BY TypeInit, NewestInit, ChainInit
  <1>2. TypeInv /\ BalanceIsNewestRow /\ ChainUnlessClobbered /\ [Next]_vars
          => (TypeInv /\ BalanceIsNewestRow /\ ChainUnlessClobbered)'
    BY TypeNext, NewestNext, ChainNext
  <1> QED BY <1>1, <1>2, PTL DEF Spec

-----------------------------------------------------------------------------
(* No overdraft.  The rows that requests hold were solvent when read, and  *)
(* a debit past its balance check asks for no more than the row it holds.  *)
Solvent(w, l) ==
    \A d \in Devs : w[d].balance >= 0 /\ \A i \in DOMAIN l[d] : l[d][i].after >= 0

ReadsSolvent == \A r \in Reqs : snap[r].balance >= 0 /\ peer[r].balance >= 0

ChecksHold ==
    \A r \in Reqs : pc[r] \in {"findTo", "createTo", "commit"} /\ call[r].op # "fund"
        => call[r].amount <= snap[r].balance

SolventInv == NoOverdraft /\ ReadsSolvent /\ ChecksHold

LEMMA BookingKeepsSolvent ==
    ASSUME NEW w \in [Devs -> WalletRow], NEW l \in [Devs -> Seq(LedgerRow)],
           NEW d \in Devs, NEW row \in LedgerRow, Solvent(w, l), row.after >= 0
    PROVE  Solvent(SetBalance(w, d, row), AddRow(l, d, row))
  <1> DEFINE w2 == SetBalance(w, d, row)
             l2 == AddRow(l, d, row)
             n == Len(l[d])
  <1>1. w2[d].balance = row.after /\ \A e \in Devs : e # d => w2[e] = w[e]
    BY SetBalanceFacts
  <1>2. /\ n \in Nat /\ DOMAIN l[d] = 1..n /\ DOMAIN l2[d] = 1..(n + 1)
        /\ l2[d][n + 1] = row /\ \A i \in 1..n : l2[d][i] = l[d][i]
        /\ \A e \in Devs : e # d => l2[e] = l[e]
    BY AddRowFacts, SMTT(20)
  <1> HIDE DEF w2, l2, n
  <1>3. ASSUME NEW e \in Devs PROVE w2[e].balance >= 0
    BY <1>1 DEF Solvent
  <1>4. ASSUME NEW e \in Devs, NEW i \in DOMAIN l2[e] PROVE l2[e][i].after >= 0
    <2>1. CASE e # d
      BY <1>2, <1>4, <2>1 DEF Solvent
    <2>2. CASE e = d /\ i \in 1..n
      BY <1>2, <1>4, <2>2 DEF Solvent
    <2>3. CASE e = d /\ i = n + 1
      BY <1>2, <1>4, <2>3
    <2> QED BY <1>2, <1>4, <2>1, <2>2, <2>3
  <1> QED BY <1>3, <1>4 DEF Solvent, w2, l2

LEMMA SolventInit == Init => SolventInv
  <1> SUFFICES ASSUME Init PROVE SolventInv
      OBVIOUS
  <1>1. ASSUME NEW d \in Devs
        PROVE  wallet[d].balance >= 0 /\ \A i \in DOMAIN ledger[d] : ledger[d][i].after >= 0
    <2>1. CASE d \in Opened
      <3>1. wallet[d].balance = Opening[d].balance /\ Opening[d].balance \in Nat
        BY <2>1, OpeningType DEF Init, OpenedWallet
      <3>2. ASSUME NEW i \in DOMAIN ledger[d] PROVE ledger[d][i] = OpeningRow(d)
        BY <3>2 DEF Init
      <3>3. OpeningRow(d).after = 0 + Opening[d].balance
        BY DEF OpeningRow, Credit, NewWallet
      <3> QED BY <3>1, <3>2, <3>3
    <2>2. CASE d \notin Opened
      BY <2>2 DEF Init, NewWallet
    <2> QED BY <2>1, <2>2
  <1>2. NoOverdraft
    BY <1>1 DEF NoOverdraft
  <1>3. ReadsSolvent
    BY DEF Init, ReadsSolvent, NewWallet
  <1>4. ChecksHold
    BY DEF Init, ChecksHold
  <1> QED BY <1>2, <1>3, <1>4 DEF SolventInv

LEMMA SolventBooks == TypeInv /\ SolventInv /\ [Next]_vars => NoOverdraft'
  <1> SUFFICES ASSUME TypeInv, SolventInv, [Next]_vars PROVE NoOverdraft'
      OBVIOUS
  <1>0. /\ wallet \in [Devs -> WalletRow] /\ ledger \in [Devs -> Seq(LedgerRow)]
        /\ Solvent(wallet, ledger)
    BY DEF TypeInv, TypeOK, SolventInv, NoOverdraft, Solvent
  <1>1. CASE BooksUnchanged
    BY <1>1 DEF SolventInv, NoOverdraft, BooksUnchanged
  <1>2. ASSUME NEW r \in Reqs, Commits(r) PROVE Solvent(wallet', ledger')
    <2>0. /\ snap[r].balance \in Int /\ peer[r].balance \in Int /\ call[r].amount \in Nat
          /\ snap[r].balance >= 0 /\ peer[r].balance >= 0
      BY CallFields DEF TypeInv, TypeOK, WalletRow, SolventInv, ReadsSolvent
    <2>1. FundRow(r).after >= 0 /\ RecipientRow(r).after >= 0
      <3>1. /\ FundRow(r).after = snap[r].balance + call[r].amount
            /\ RecipientRow(r).after = peer[r].balance + call[r].amount
        BY DEF FundRow, RecipientRow, Credit
      <3> QED BY <2>0, <3>1
    <2>2. call[r].op # "fund" => DebitRow(r).after >= 0
      <3>1. DebitRow(r).after = snap[r].balance - call[r].amount
        BY DEF DebitRow, Debit
      <3>2. call[r].op # "fund" => call[r].amount <= snap[r].balance
        BY <1>2, CommitBooks DEF SolventInv, ChecksHold
      <3> QED BY <2>0, <3>1, <3>2
    <2>3. call[r].dev \in Devs /\ DebitRow(r) \in LedgerRow /\ RecipientRow(r) \in LedgerRow
      BY <1>2, CommitBooks
    <2>4. CASE \/ BooksOne(r, FundRow(r))
               \/ BooksOne(r, DebitRow(r)) /\ call[r].op = "withdraw"
      <3>1. PICK row \in LedgerRow : BooksOne(r, row) /\ row.after >= 0
        BY <1>2, <2>1, <2>2, <2>4, CommitBooks
      <3> QED BY <1>0, <2>3, <3>1, BookingKeepsSolvent DEF BooksOne
    <2>5. CASE BooksTwo(r) /\ call[r].op = "transfer"
      <3> DEFINE sent == SetBalance(wallet, call[r].dev, DebitRow(r))
                 logged == AddRow(ledger, call[r].dev, DebitRow(r))
      <3>1. call[r].to \in Devs /\ DebitRow(r).after >= 0
        BY <1>2, <2>2, <2>5, CommitBooks
      <3>2. /\ Solvent(sent, logged) /\ sent \in [Devs -> WalletRow]
            /\ logged \in [Devs -> Seq(LedgerRow)]
        BY <1>0, <2>3, <3>1, BookingKeepsSolvent, SetBalanceType, AddRowType
      <3>3. /\ wallet' = SetBalance(sent, call[r].to, RecipientRow(r))
            /\ ledger' = AddRow(logged, call[r].to, RecipientRow(r))
        BY <2>5 DEF BooksTwo
      <3> HIDE DEF sent, logged
      <3> QED BY <2>1, <2>3, <3>1, <3>2, <3>3, BookingKeepsSolvent
    <2> QED BY <1>2, <2>4, <2>5, CommitBooks
  <1>3. ASSUME Solvent(wallet', ledger') PROVE NoOverdraft'
    BY <1>3 DEF Solvent, NoOverdraft
  <1> QED BY <1>1, <1>2, <1>3, OnlyCommitsMoveMoney

(* What a request holds stays solvent, and the debits past their check     *)
(* stay covered: a wallet row is read once and its balance kept.           *)
LEMMA SolventReads == TypeInv /\ SolventInv /\ [Next]_vars => (ReadsSolvent /\ ChecksHold)'
  <1> SUFFICES ASSUME TypeInv, SolventInv, [Next]_vars PROVE (ReadsSolvent /\ ChecksHold)'
      OBVIOUS
  <1> USE DEF TypeInv, SolventInv
  <1>1. CASE UNCHANGED vars
    BY <1>1 DEF vars, ReadsSolvent, ChecksHold
  <1>2. CASE Next
    <2> PICK r \in Reqs : Arrive(r) \/ Handle(r) \/ Fail(r)
      BY <1>2 DEF Next
    <2>t. /\ call[r] \in CallType /\ call[r].dev \in Devs /\ NewWallet \in WalletRow
          /\ NewWallet.balance = 0 /\ \A d \in Devs : wallet[d] \in WalletRow
          /\ \A d \in Devs : wallet[d].balance >= 0
      BY CallFields, NewWalletType DEF TypeOK, NewWallet, NoOverdraft
    \* the requests other than r keep their rows and their labels
    <2>o. ASSUME NEW label, Goto(r, label), call' = call,
                 \A s \in Reqs \ {r} : snap'[s] = snap[s] /\ peer'[s] = peer[s],
                 snap'[r].balance >= 0, peer'[r].balance >= 0,
                 label \in {"findTo", "createTo", "commit"} /\ call[r].op # "fund"
                     => call[r].amount <= snap'[r].balance
          PROVE  (ReadsSolvent /\ ChecksHold)'
      BY <2>o DEF Goto, TypeOK, ReadsSolvent, ChecksHold
    <2>1. CASE FindWallet(r)
      <3>1. CASE call[r].dev \in created
        <4>1. AfterRead(call[r], wallet[call[r].dev]) \in {"findTo", "createTo", "commit"}
                => call[r].op = "fund"
          BY DEF AfterRead
        <4>2. /\ snap'[r] = wallet[call[r].dev] /\ peer' = peer /\ call' = call
              /\ \A s \in Reqs \ {r} : snap'[s] = snap[s]
              /\ Goto(r, AfterRead(call[r], wallet[call[r].dev]))
          BY <2>1, <3>1 DEF FindWallet, TypeOK
        <4> QED BY <2>t, <2>o, <4>1, <4>2 DEF ReadsSolvent
      <3>2. CASE call[r].dev \notin created
        BY <2>1, <3>2, <2>o DEF FindWallet, ReadsSolvent
      <3> QED BY <3>1, <3>2
    <2>2. CASE CreateWallet(r)
      <3>1. CASE call[r].dev \notin created
        <4>1. AfterRead(call[r], NewWallet) \in {"findTo", "createTo", "commit"}
                => call[r].op = "fund"
          BY DEF AfterRead
        <4>2. /\ snap'[r] = NewWallet /\ peer' = peer /\ call' = call
              /\ \A s \in Reqs \ {r} : snap'[s] = snap[s]
              /\ \E l \in {AfterRead(call[r], NewWallet), "failed"} : Goto(r, l)
          BY <2>2, <3>1 DEF CreateWallet, TypeOK, Lands
        <4> QED BY <2>t, <2>o, <4>1, <4>2 DEF ReadsSolvent
      <3>2. CASE call[r].dev \in created
        BY <2>2, <3>2, <2>o DEF CreateWallet, ReadsSolvent, Lands
      <3> QED BY <3>1, <3>2
    <2>3. CASE ResetAttempts(r)
      <3>1. snap[r].balance \in Int /\ call[r].amount \in Nat
        BY CallFields DEF TypeOK, WalletRow
      <3>2. AfterReset(call[r], snap[r]) # "insufficient" => call[r].amount <= snap[r].balance
        BY <3>1 DEF AfterReset
      <3>3. PICK l \in {AfterReset(call[r], snap[r]), "failed"} : Goto(r, l)
        BY <2>3 DEF ResetAttempts, Lands
      <3> QED BY <2>3, <2>o, <3>2, <3>3 DEF ResetAttempts, ReadsSolvent
    <2>4. CASE FindRecipient(r)
      <3>1. CASE call[r].to \in created
        <4>1. wallet[call[r].to].balance >= 0
          BY <3>1, <2>t DEF TypeOK
        <4>2. /\ peer'[r] = wallet[call[r].to] /\ snap' = snap /\ call' = call
              /\ \A s \in Reqs \ {r} : peer'[s] = peer[s]
              /\ Goto(r, "commit") /\ pc[r] = "findTo"
          BY <2>4, <3>1 DEF FindRecipient, TypeOK
        <4> QED BY <2>o, <4>1, <4>2 DEF ReadsSolvent, ChecksHold
      <3>2. CASE call[r].to \notin created
        BY <2>4, <3>2, <2>o DEF FindRecipient, ReadsSolvent, ChecksHold
      <3> QED BY <3>1, <3>2
    <2>5. CASE CreateRecipient(r)
      <3>1. CASE call[r].to \in Devs \ created
        <4>1. /\ peer'[r] = NewWallet /\ snap' = snap /\ call' = call
              /\ \A s \in Reqs \ {r} : peer'[s] = peer[s]
              /\ Goto(r, "commit") /\ pc[r] = "createTo"
          BY <2>5, <3>1 DEF CreateRecipient, TypeOK
        <4> QED BY <2>t, <2>o, <4>1 DEF ReadsSolvent, ChecksHold
      <3>2. CASE call[r].to \notin Devs \ created
        BY <2>5, <3>2, <2>o DEF CreateRecipient, ReadsSolvent
      <3> QED BY <3>1, <3>2
    <2>6. CASE \/ Arrive(r) \/ CheckKey(r) \/ HandleFailedPin(r) \/ Fund(r) \/ Withdraw(r)
               \/ Transfer(r) \/ KeyConflict(r) \/ SavePin(r) \/ Unlock(r)
               \/ WriteAudit(r) \/ Reply(r) \/ Fail(r)
      <3>1. PICK label \in {"idem", "find", "duplicate", "badPin", "reply", "failed",
                            "audit", "ok"} : Goto(r, label)
        BY <2>6 DEF Arrive, CheckKey, HandleFailedPin, Fund, Withdraw, Transfer, KeyConflict,
                    SavePin, Unlock, WriteAudit, Reply, Fail, Lands
      <3>2. UNCHANGED <<call, snap, peer>>
        BY <2>6 DEF Arrive, CheckKey, HandleFailedPin, Fund, Withdraw, Transfer, KeyConflict,
                    SavePin, Unlock, WriteAudit, Reply, Fail
      <3> QED BY <2>o, <3>1, <3>2 DEF ReadsSolvent
    <2> QED BY <2>1, <2>2, <2>3, <2>4, <2>5, <2>6 DEF Handle
  <1> QED BY <1>1, <1>2

(* No interleaving overdraws a wallet or records a negative balance.       *)
THEOREM NeverOverdrawn == Spec => []NoOverdraft
  <1>1. Init => TypeInv /\ SolventInv
    BY TypeInit, SolventInit
  <1>2. TypeInv /\ SolventInv /\ [Next]_vars => (TypeInv /\ SolventInv)'
    BY TypeNext, SolventBooks, SolventReads DEF SolventInv
  <1>3. SolventInv => NoOverdraft
    BY DEF SolventInv
  <1> QED BY <1>1, <1>2, <1>3, PTL DEF Spec

-----------------------------------------------------------------------------
(* Idempotency.  A request that moved money left its key in the ledger,    *)
(* where the unique index finds it when a second request commits.          *)
Holds(l, ref) == \E d \in Devs : \E i \in DOMAIN l[d] : l[d][i].ref = ref

HoldsKey(l, key) == \E d \in Devs : \E i \in DOMAIN l[d] : l[d][i].key = key

PostedKeyUsed == \A r \in Reqs : Posted(r) /\ call[r].key # NoKey => KeyUsed(call[r].key)

KeyInv == OncePerKey /\ PostedKeyUsed

LEMMA BookingKeepsRows ==
    ASSUME NEW l \in [Devs -> Seq(LedgerRow)], NEW d \in Devs, NEW row \in LedgerRow
    PROVE  /\ \A ref : Holds(AddRow(l, d, row), ref) <=> Holds(l, ref) \/ ref = row.ref
           /\ \A key : HoldsKey(AddRow(l, d, row), key) <=> HoldsKey(l, key) \/ key = row.key
  <1> DEFINE l2 == AddRow(l, d, row)
             n == Len(l[d])
  <1>1. /\ n \in Nat /\ DOMAIN l[d] = 1..n /\ DOMAIN l2[d] = 1..(n + 1)
        /\ l2[d][n + 1] = row /\ \A i \in 1..n : l2[d][i] = l[d][i]
        /\ \A e \in Devs : e # d => l2[e] = l[e]
    BY AddRowFacts
  <1>2. n + 1 \in 1..(n + 1) /\ \A i \in 1..(n + 1) : i \in 1..n \/ i = n + 1
    BY <1>1
  <1>3. \A i \in 1..n : i \in 1..(n + 1)
    BY <1>1
  <1> HIDE DEF l2, n
  <1>4. ASSUME NEW ref PROVE Holds(l2, ref) <=> Holds(l, ref) \/ ref = row.ref
    <2>1. ASSUME Holds(l, ref) PROVE Holds(l2, ref)
      <3>1. PICK e \in Devs : \E i \in DOMAIN l[e] : l[e][i].ref = ref
        BY <2>1 DEF Holds
      <3> QED BY <3>1, <1>1, <1>3 DEF Holds
    <2>2. Holds(l2, row.ref)
      BY <1>1, <1>2 DEF Holds
    <2>3. ASSUME Holds(l2, ref), ref # row.ref PROVE Holds(l, ref)
      <3>1. PICK e \in Devs : \E i \in DOMAIN l2[e] : l2[e][i].ref = ref
        BY <2>3 DEF Holds
      <3> QED BY <3>1, <2>3, <1>1, <1>2 DEF Holds
    <2> QED BY <2>1, <2>2, <2>3
  <1>5. ASSUME NEW key PROVE HoldsKey(l2, key) <=> HoldsKey(l, key) \/ key = row.key
    <2>1. ASSUME HoldsKey(l, key) PROVE HoldsKey(l2, key)
      <3>1. PICK e \in Devs : \E i \in DOMAIN l[e] : l[e][i].key = key
        BY <2>1 DEF HoldsKey
      <3> QED BY <3>1, <1>1, <1>3 DEF HoldsKey
    <2>2. HoldsKey(l2, row.key)
      BY <1>1, <1>2 DEF HoldsKey
    <2>3. ASSUME HoldsKey(l2, key), key # row.key PROVE HoldsKey(l, key)
      <3>1. PICK e \in Devs : \E i \in DOMAIN l2[e] : l2[e][i].key = key
        BY <2>3 DEF HoldsKey
      <3> QED BY <3>1, <2>3, <1>1, <1>2 DEF HoldsKey
    <2> QED BY <2>1, <2>2, <2>3
  <1> QED BY <1>4, <1>5 DEF l2

(* A commit adds rows of its request, and its key, and takes no row away.  *)
LEMMA CommitRows ==
    ASSUME TypeInv, NEW r \in Reqs, Commits(r)
    PROVE  /\ \A ref : Holds(ledger', ref) <=> Holds(ledger, ref) \/ ref = r
           /\ \A key : HoldsKey(ledger, key) => HoldsKey(ledger', key)
           /\ HoldsKey(ledger', call[r].key)
  <1>0. /\ ledger \in [Devs -> Seq(LedgerRow)] /\ call[r].dev \in Devs
        /\ FundRow(r).ref = r /\ DebitRow(r).ref = r /\ RecipientRow(r).ref = r
        /\ FundRow(r).key = call[r].key /\ DebitRow(r).key = call[r].key
        /\ DebitRow(r) \in LedgerRow /\ RecipientRow(r) \in LedgerRow
    BY CommitBooks
       DEF TypeInv, TypeOK, FundRow, DebitRow, RecipientRow, Credit, Debit
  <1>1. CASE BooksOne(r, FundRow(r)) \/ BooksOne(r, DebitRow(r))
    <2>1. PICK row \in LedgerRow :
            row.ref = r /\ row.key = call[r].key /\ ledger' = AddRow(ledger, call[r].dev, row)
      BY <1>0, <1>1, CommitBooks DEF BooksOne
    <2>2. /\ \A ref : Holds(ledger', ref) <=> Holds(ledger, ref) \/ ref = row.ref
          /\ \A key : HoldsKey(ledger', key) <=> HoldsKey(ledger, key) \/ key = row.key
      BY <1>0, <2>1, BookingKeepsRows
    <2> QED BY <2>1, <2>2
  <1>2. CASE BooksTwo(r) /\ call[r].op = "transfer"
    <2> DEFINE logged == AddRow(ledger, call[r].dev, DebitRow(r))
    <2>1. ledger' = AddRow(logged, call[r].to, RecipientRow(r)) /\ call[r].to \in Devs
      BY <1>2, CommitBooks DEF BooksTwo
    <2>2. /\ logged \in [Devs -> Seq(LedgerRow)]
          /\ \A ref : Holds(logged, ref) <=> Holds(ledger, ref) \/ ref = r
          /\ \A key : HoldsKey(logged, key) <=> HoldsKey(ledger, key) \/ key = call[r].key
      BY <1>0, BookingKeepsRows, AddRowType
    <2> HIDE DEF logged
    <2>3. /\ \A ref : Holds(AddRow(logged, call[r].to, RecipientRow(r)), ref)
                        <=> Holds(logged, ref) \/ ref = RecipientRow(r).ref
          /\ \A key : HoldsKey(logged, key)
                        => HoldsKey(AddRow(logged, call[r].to, RecipientRow(r)), key)
      <3>1. logged \in [Devs -> Seq(LedgerRow)] /\ call[r].to \in Devs
        BY <2>1, <2>2
      <3>2. RecipientRow(r) \in LedgerRow
        BY <1>0
      <3>3. \A row \in LedgerRow : \A ref :
              Holds(AddRow(logged, call[r].to, row), ref) <=> Holds(logged, ref) \/ ref = row.ref
        BY <3>1, BookingKeepsRows
      <3>4. \A row \in LedgerRow : \A key :
              HoldsKey(logged, key) => HoldsKey(AddRow(logged, call[r].to, row), key)
        BY <3>1, BookingKeepsRows
      <3> QED BY <3>2, <3>3, <3>4
    <2>4. /\ \A ref : Holds(ledger', ref) <=> Holds(logged, ref) \/ ref = r
          /\ \A key : HoldsKey(logged, key) => HoldsKey(ledger', key)
      BY <1>0, <2>1, <2>3
    <2> QED BY <2>2, <2>4
  <1> QED BY <1>1, <1>2, CommitBooks

LEMMA KeyInit == Init => KeyInv
  <1> SUFFICES ASSUME Init PROVE KeyInv
      OBVIOUS
  <1>1. ASSUME NEW d \in Devs, NEW i \in DOMAIN ledger[d] PROVE ledger[d][i].ref = OpeningRef
    <2>1. ledger[d][i] = OpeningRow(d)
      BY <1>1 DEF Init
    <2> QED BY <2>1 DEF OpeningRow, Credit
  <1>2. \A r \in Reqs : ~Posted(r)
    BY <1>1, WalletAssumption DEF Posted
  <1> QED BY <1>2 DEF KeyInv, OncePerKey, PostedKeyUsed

LEMMA KeyNext == TypeInv /\ KeyInv /\ [Next]_vars => KeyInv'
  <1> SUFFICES ASSUME TypeInv, KeyInv, [Next]_vars PROVE KeyInv'
      OBVIOUS
  <1>0. call' = call
    BY CallsStay
  <1>1. CASE BooksUnchanged
    BY <1>0, <1>1 DEF BooksUnchanged, KeyInv, OncePerKey, PostedKeyUsed, Posted, KeyUsed
  <1>2. ASSUME NEW r \in Reqs, Commits(r) PROVE KeyInv'
    <2>1. /\ \A ref : Holds(ledger', ref) <=> Holds(ledger, ref) \/ ref = r
          /\ \A key : HoldsKey(ledger, key) => HoldsKey(ledger', key)
          /\ HoldsKey(ledger', call[r].key)
      BY <1>2, CommitRows
    <2>2. /\ \A s \in Reqs : Posted(s) <=> Holds(ledger, s)
          /\ \A s \in Reqs : Posted(s)' <=> Holds(ledger', s)
          /\ \A key : KeyUsed(key) <=> HoldsKey(ledger, key)
          /\ \A key : KeyUsed(key)' <=> HoldsKey(ledger', key)
      BY DEF Posted, Holds, KeyUsed, HoldsKey
    <2>3. \A s \in Reqs : s # r /\ call[s].key = call[r].key /\ call[r].key # NoKey => ~Posted(s)
      BY <1>2, CommitBooks DEF KeyFree, KeyInv, PostedKeyUsed
    <2>4. OncePerKey'
      BY <1>0, <2>1, <2>2, <2>3 DEF KeyInv, OncePerKey
    <2>5. PostedKeyUsed'
      BY <1>0, <2>1, <2>2 DEF KeyInv, PostedKeyUsed
    <2> QED BY <2>4, <2>5 DEF KeyInv
  <1> QED BY <1>1, <1>2, OnlyCommitsMoveMoney

(* At most one of the requests that carry one idempotency key ever moves   *)
(* money, and the empty key, which the first check ignores, is no          *)
(* exception.                                                              *)
THEOREM KeysMoveMoneyOnce == Spec => []OncePerKey
  <1>1. Init => TypeInv /\ KeyInv
    BY TypeInit, KeyInit
  <1>2. TypeInv /\ KeyInv /\ [Next]_vars => (TypeInv /\ KeyInv)'
    BY TypeNext, KeyNext
  <1>3. KeyInv => OncePerKey
    BY DEF KeyInv
  <1> QED BY <1>1, <1>2, <1>3, PTL DEF Spec

-----------------------------------------------------------------------------
(* The lockout.  A request that counts a wrong PIN holds the row of an     *)
(* unlocked wallet, so the count it writes is at most the limit, and the   *)
(* same write sets the lock when it is the limit.                          *)
CountsBelowLimit ==
    \A r \in Reqs : pc[r] = "pinFail" => snap[r].failedPinAttempts < MaxPinAttempts

LockInv == UnlockedBelowLimit /\ CountsBelowLimit

LEMMA PinFailUnlocked ==
    ASSUME NEW c \in CallType, NEW row \in WalletRow, AfterRead(c, row) = "pinFail"
    PROVE  ~row.isLocked
  BY DEF AfterRead, CallType, Ops, MoneyOps

(* A commit writes balances and leaves the count and the lock of every     *)
(* wallet as they are.                                                     *)
LEMMA SetBalanceKeepsLock ==
    ASSUME NEW w \in [Devs -> WalletRow], NEW e, NEW row, NEW d \in Devs
    PROVE  /\ SetBalance(w, e, row)[d].failedPinAttempts = w[d].failedPinAttempts
           /\ SetBalance(w, e, row)[d].isLocked = w[d].isLocked
  <1>1. w[d] \in WalletRow
    OBVIOUS
  <1>2. CASE e = d
    <2>1. SetBalance(w, e, row)[d] = [w[d] EXCEPT !.balance = row.after]
      BY <1>2 DEF SetBalance
    <2> QED BY <1>1, <2>1 DEF WalletRow
  <1>3. CASE e # d
    <2>1. SetBalance(w, e, row)[d] = w[d]
      BY <1>3 DEF SetBalance
    <2> QED BY <2>1
  <1> QED BY <1>2, <1>3

LEMMA CommitsKeepLocks ==
    ASSUME TypeInv, NEW r \in Reqs, Commits(r), NEW d \in Devs
    PROVE  /\ wallet'[d].failedPinAttempts = wallet[d].failedPinAttempts
           /\ wallet'[d].isLocked = wallet[d].isLocked
  <1> USE DEF TypeInv
  <1>0. wallet \in [Devs -> WalletRow]
    BY DEF TypeOK
  <1>1. CASE \E row \in LedgerRow : BooksOne(r, row)
    BY <1>0, <1>1, SetBalanceKeepsLock DEF BooksOne
  <1>2. CASE BooksTwo(r)
    <2> DEFINE sent == SetBalance(wallet, call[r].dev, DebitRow(r))
    <2>1. /\ sent \in [Devs -> WalletRow]
          /\ sent[d].failedPinAttempts = wallet[d].failedPinAttempts
          /\ sent[d].isLocked = wallet[d].isLocked
      <3>1. DebitRow(r) \in LedgerRow
        BY RowType
      <3> QED BY <1>0, <3>1, SetBalanceType, SetBalanceKeepsLock
    <2>2. wallet' = SetBalance(sent, call[r].to, RecipientRow(r))
      BY <1>2 DEF BooksTwo
    <2> HIDE DEF sent
    <2> QED BY <2>1, <2>2, SetBalanceKeepsLock
  <1> QED BY <1>1, <1>2, CommitBooks

LEMMA LockInit == Init => LockInv
  <1> SUFFICES ASSUME Init PROVE LockInv
      OBVIOUS
  <1>1. ASSUME NEW d \in Devs PROVE wallet[d].failedPinAttempts = 0
    BY <1>1 DEF Init, OpenedWallet, NewWallet
  <1>2. MaxPinAttempts \in Nat /\ MaxPinAttempts > 0
    BY WalletAssumption
  <1>3. UnlockedBelowLimit
    BY <1>1, <1>2 DEF UnlockedBelowLimit
  <1>4. CountsBelowLimit
    BY DEF Init, CountsBelowLimit
  <1> QED BY <1>3, <1>4 DEF LockInv

LEMMA LockNext == TypeInv /\ LockInv /\ [Next]_vars => LockInv'
  <1> SUFFICES ASSUME TypeInv, LockInv, [Next]_vars PROVE LockInv'
      OBVIOUS
  <1> USE DEF TypeInv, LockInv
  <1>1. CASE UNCHANGED vars
    BY <1>1 DEF vars, UnlockedBelowLimit, CountsBelowLimit
  <1>2. CASE Next
    <2> PICK r \in Reqs : Arrive(r) \/ Handle(r) \/ Fail(r)
      BY <1>2 DEF Next
    <2> DEFINE d == call[r].dev
    <2>t. /\ call[r] \in CallType /\ d \in Devs /\ wallet[d] \in WalletRow
          /\ snap[r] \in WalletRow /\ NewWallet \in WalletRow
          /\ MaxPinAttempts \in Nat /\ MaxPinAttempts > 0
      BY CallFields, NewWalletType, WalletAssumption DEF TypeOK
    \* steps that leave the two columns alone, and r's move to a label
    <2>w. ASSUME \A e \in Devs : /\ wallet'[e].failedPinAttempts = wallet[e].failedPinAttempts
                                 /\ wallet'[e].isLocked = wallet[e].isLocked
          PROVE  UnlockedBelowLimit'
      BY <2>w DEF UnlockedBelowLimit
    <2>c. ASSUME NEW label, Goto(r, label), \A s \in Reqs \ {r} : snap'[s] = snap[s],
                 label = "pinFail" => snap'[r].failedPinAttempts < MaxPinAttempts
          PROVE  CountsBelowLimit'
      BY <2>c DEF Goto, TypeOK, CountsBelowLimit
    <2>1. CASE FindWallet(r)
      <3>1. UnlockedBelowLimit'
        BY <2>1, <2>w DEF FindWallet
      <3>2. CASE d \in created
        <4>1. AfterRead(call[r], wallet[d]) = "pinFail"
                => wallet[d].failedPinAttempts < MaxPinAttempts
          BY <2>t, PinFailUnlocked DEF UnlockedBelowLimit
        <4>2. /\ snap'[r] = wallet[d] /\ \A s \in Reqs \ {r} : snap'[s] = snap[s]
              /\ Goto(r, AfterRead(call[r], wallet[d]))
          BY <2>1, <3>2 DEF FindWallet, TypeOK
        <4> QED BY <3>1, <4>1, <4>2, <2>c
      <3>3. CASE d \notin created
        <4>1. PICK label \in {"notFound", "create"} : Goto(r, label)
          BY <2>1, <3>3 DEF FindWallet
        <4>2. snap' = snap
          BY <2>1, <3>3 DEF FindWallet
        <4> QED BY <3>1, <4>1, <4>2, <2>c
      <3> QED BY <3>2, <3>3
    <2>2. CASE CreateWallet(r)
      <3>1. UnlockedBelowLimit'
        BY <2>2, <2>w DEF CreateWallet, Lands
      <3>2. CASE d \notin created
        <4>1. /\ snap'[r] = NewWallet /\ \A s \in Reqs \ {r} : snap'[s] = snap[s]
              /\ \E l \in {AfterRead(call[r], NewWallet), "failed"} : Goto(r, l)
          BY <2>2, <3>2 DEF CreateWallet, TypeOK, Lands
        <4>2. NewWallet.failedPinAttempts < MaxPinAttempts
          BY <2>t DEF NewWallet
        <4> QED BY <3>1, <4>1, <4>2, <2>c
      <3>3. CASE d \in created
        BY <2>2, <3>1, <3>3, <2>c DEF CreateWallet, Lands
      <3> QED BY <3>2, <3>3
    <2>3. CASE HandleFailedPin(r)
      <3> DEFINE attempts == snap[r].failedPinAttempts + 1
      <3>1. attempts \in Nat /\ attempts <= MaxPinAttempts
        BY <2>3, <2>t DEF HandleFailedPin, CountsBelowLimit, WalletRow
      <3>2. /\ wallet'[d].failedPinAttempts = attempts
            /\ wallet'[d].isLocked = (wallet[d].isLocked \/ attempts >= MaxPinAttempts)
            /\ \A e \in Devs \ {d} : wallet'[e] = wallet[e]
        <4> DEFINE lock == wallet[d].isLocked \/ attempts >= MaxPinAttempts
                   row == [wallet[d] EXCEPT !.failedPinAttempts = attempts, !.isLocked = lock]
        <4>1. wallet' = [wallet EXCEPT ![d] = row]
          BY <2>3, <2>t DEF HandleFailedPin, TypeOK
        <4>2. lock \in BOOLEAN
          OBVIOUS
        <4> HIDE DEF attempts, lock
        <4>3. row.failedPinAttempts = attempts /\ row.isLocked = lock
          BY <2>t, <4>2 DEF WalletRow
        <4>4. wallet'[d] = row /\ \A e \in Devs \ {d} : wallet'[e] = wallet[e]
          BY <2>t, <4>1 DEF TypeOK
        <4> QED BY <4>3, <4>4 DEF lock
      <3>3. ~wallet'[d].isLocked => ~(attempts >= MaxPinAttempts)
        BY <3>2
      <3>4. UnlockedBelowLimit'
        <4> HIDE DEF attempts, d
        <4>1. ASSUME NEW e \in Devs
              PROVE  /\ wallet'[e].failedPinAttempts <= MaxPinAttempts
                     /\ ~wallet'[e].isLocked => wallet'[e].failedPinAttempts < MaxPinAttempts
          <5>1. CASE e = d
            <6>1. wallet'[e].failedPinAttempts = attempts
              BY <3>2, <5>1
            <6>2. ~wallet'[e].isLocked => ~(attempts >= MaxPinAttempts)
              BY <3>3, <5>1
            <6> QED BY <2>t, <3>1, <6>1, <6>2
          <5>2. CASE e # d
            BY <3>2, <5>2 DEF UnlockedBelowLimit
          <5> QED BY <5>1, <5>2
        <4> QED BY <4>1 DEF UnlockedBelowLimit
      <3>5. PICK l \in {"badPin", "failed"} : Goto(r, l)
        BY <2>3 DEF HandleFailedPin, Lands
      <3> QED BY <2>3, <3>4, <3>5, <2>c DEF HandleFailedPin
    <2>4. CASE ResetAttempts(r)
      <3>1. /\ wallet'[d].failedPinAttempts = 0
            /\ \A e \in Devs \ {d} : wallet'[e] = wallet[e]
        BY <2>4, <2>t DEF ResetAttempts, TypeOK, WalletRow
      <3>2. AfterReset(call[r], snap[r]) # "pinFail"
        BY DEF AfterReset
      <3>3. UnlockedBelowLimit'
        <4> HIDE DEF d
        <4> QED BY <2>t, <3>1 DEF UnlockedBelowLimit
      <3>4. PICK l \in {AfterReset(call[r], snap[r]), "failed"} : Goto(r, l)
        BY <2>4 DEF ResetAttempts, Lands
      <3> QED BY <2>4, <3>2, <3>3, <3>4, <2>c DEF ResetAttempts
    <2>5. CASE Unlock(r)
      <3>1. /\ wallet'[d].failedPinAttempts = 0
            /\ \A e \in Devs \ {d} : wallet'[e] = wallet[e]
        BY <2>5, <2>t DEF Unlock, TypeOK, WalletRow
      <3>2. UnlockedBelowLimit'
        <4> HIDE DEF d
        <4> QED BY <2>t, <3>1 DEF UnlockedBelowLimit
      <3> QED BY <2>5, <3>2, <2>c DEF Unlock
    <2>6. CASE SavePin(r)
      <3>1. \A e \in Devs : /\ wallet'[e].failedPinAttempts = wallet[e].failedPinAttempts
                            /\ wallet'[e].isLocked = wallet[e].isLocked
        BY <2>6, <2>t DEF SavePin, TypeOK, WalletRow
      <3>2. PICK label \in {"audit", "reply"} : Goto(r, label)
        BY <2>6 DEF SavePin
      <3> QED BY <2>6, <3>1, <3>2, <2>w, <2>c DEF SavePin
    <2>7. CASE Commits(r)
      <3>1. \A f \in Devs : /\ wallet'[f].failedPinAttempts = wallet[f].failedPinAttempts
                             /\ wallet'[f].isLocked = wallet[f].isLocked
        BY <2>7, CommitsKeepLocks
      <3> QED BY <2>7, <3>1, <2>w, <2>c, CommitBooks
    <2>8. CASE \/ Arrive(r) \/ CheckKey(r) \/ FindRecipient(r) \/ CreateRecipient(r)
               \/ KeyConflict(r) \/ WriteAudit(r) \/ Reply(r) \/ Fail(r)
      <3>1. PICK label \in {"idem", "find", "duplicate", "commit", "createTo", "reply",
                            "failed", "ok"} : Goto(r, label)
        BY <2>8 DEF Arrive, CheckKey, FindRecipient, CreateRecipient, KeyConflict, WriteAudit,
                    Reply, Fail
      <3>2. UNCHANGED <<wallet, snap>>
        BY <2>8 DEF Arrive, CheckKey, FindRecipient, CreateRecipient, KeyConflict, WriteAudit,
                    Reply, Fail
      <3> QED BY <3>1, <3>2, <2>w, <2>c
    <2> QED BY <2>1, <2>2, <2>3, <2>4, <2>5, <2>6, <2>7, <2>8 DEF Handle, Commits
  <1> QED BY <1>1, <1>2

-----------------------------------------------------------------------------
(* Only a request at the update of unlockWallet clears isLocked.           *)
UnlockLabel == \A r \in Reqs : pc[r] = "unlock" => call[r].op = "unlock"

LEMMA AfterReadUnlock ==
    ASSUME NEW c, NEW row, AfterRead(c, row) = "unlock"
    PROVE  c.op = "unlock"
  BY DEF AfterRead

LEMMA UnlockLabelNext == TypeInv /\ UnlockLabel /\ [Next]_vars => UnlockLabel'
  <1> SUFFICES ASSUME TypeInv, UnlockLabel, [Next]_vars PROVE UnlockLabel'
      OBVIOUS
  <1> USE DEF TypeInv
  <1>1. CASE UNCHANGED vars
    BY <1>1 DEF vars, UnlockLabel
  <1>2. CASE Next
    <2> PICK r \in Reqs : Arrive(r) \/ Handle(r) \/ Fail(r)
      BY <1>2 DEF Next
    <2>m. ASSUME NEW label, Goto(r, label), call' = call,
                 label = "unlock" => call[r].op = "unlock"
          PROVE  UnlockLabel'
      BY <2>m DEF Goto, TypeOK, UnlockLabel
    <2>1. CASE FindWallet(r) \/ CreateWallet(r)
      <3>1. PICK label : /\ Goto(r, label) /\ call' = call
                         /\ \/ label \in {"notFound", "create", "failed"}
                            \/ label = AfterRead(call[r], wallet[call[r].dev])
                            \/ label = AfterRead(call[r], NewWallet)
        <4>1. CASE FindWallet(r)
          BY <4>1 DEF FindWallet
        <4>2. CASE CreateWallet(r)
          BY <4>2 DEF CreateWallet, Lands
        <4> QED BY <2>1, <4>1, <4>2
      <3> QED BY <2>m, <3>1, AfterReadUnlock
    <2>2. CASE ResetAttempts(r)
      <3>1. AfterReset(call[r], snap[r]) # "unlock"
        BY DEF AfterReset
      <3> QED BY <2>2, <2>m, <3>1 DEF ResetAttempts, Lands
    <2>3. CASE \/ Arrive(r) \/ CheckKey(r) \/ HandleFailedPin(r) \/ FindRecipient(r)
               \/ CreateRecipient(r) \/ Fund(r) \/ Withdraw(r) \/ Transfer(r)
               \/ KeyConflict(r) \/ SavePin(r) \/ Unlock(r) \/ WriteAudit(r)
               \/ Reply(r) \/ Fail(r)
      BY <2>3, <2>m DEF Arrive, CheckKey, HandleFailedPin, FindRecipient, CreateRecipient, Fund,
         Withdraw, Transfer, KeyConflict, SavePin, Unlock, WriteAudit, Reply, Fail, Lands
    <2> QED BY <2>1, <2>2, <2>3 DEF Handle
  <1> QED BY <1>1, <1>2

LEMMA LockStep == TypeInv /\ UnlockLabel /\ [Next]_vars => [LockKept]_vars
  <1> SUFFICES ASSUME TypeInv, UnlockLabel, Next PROVE LockKept
      OBVIOUS
  <1> USE DEF TypeInv
  <1> SUFFICES ASSUME NEW d \in Devs, wallet[d].isLocked, ~wallet'[d].isLocked
               PROVE  \E r \in Reqs : /\ call[r].op = "unlock" /\ call[r].dev = d
                                      /\ pc[r] = "unlock"
      BY DEF LockKept
  <1> PICK r \in Reqs : Arrive(r) \/ Handle(r) \/ Fail(r)
      BY DEF Next
  <1>t. call[r].dev \in Devs /\ wallet[d] \in WalletRow /\ wallet[call[r].dev] \in WalletRow
    BY CallFields DEF TypeOK
  <1>1. CASE Unlock(r)
    <2>1. call[r].dev = d
      BY <1>1 DEF Unlock, TypeOK
    <2> QED BY <1>1, <2>1 DEF Unlock, UnlockLabel
  <1>2. CASE HandleFailedPin(r)
    <2> DEFINE e == call[r].dev
               attempts == snap[r].failedPinAttempts + 1
               lock == wallet[e].isLocked \/ attempts >= MaxPinAttempts
               row == [wallet[e] EXCEPT !.failedPinAttempts = attempts, !.isLocked = lock]
    <2>1. wallet' = [wallet EXCEPT ![e] = row]
      BY <1>2, <1>t DEF HandleFailedPin, TypeOK
    <2>2. lock \in BOOLEAN
      OBVIOUS
    <2> HIDE DEF attempts, lock
    <2>3. row.isLocked = lock
      BY <1>t, <2>2 DEF WalletRow
    <2>4. wallet'[e] = row /\ (d # e => wallet'[d] = wallet[d])
      BY <1>t, <2>1 DEF TypeOK
    <2> QED BY <2>3, <2>4 DEF lock
  <1>3. CASE ResetAttempts(r)
    BY <1>3, <1>t DEF ResetAttempts, TypeOK, WalletRow
  <1>4. CASE SavePin(r)
    BY <1>4, <1>t DEF SavePin, TypeOK, WalletRow
  <1>5. CASE Commits(r)
    BY <1>5, CommitsKeepLocks
  <1>6. CASE \/ Arrive(r) \/ CheckKey(r) \/ FindWallet(r) \/ CreateWallet(r)
             \/ FindRecipient(r) \/ CreateRecipient(r) \/ KeyConflict(r)
             \/ WriteAudit(r) \/ Reply(r) \/ Fail(r)
    BY <1>6 DEF Arrive, CheckKey, FindWallet, CreateWallet, FindRecipient, CreateRecipient,
                KeyConflict, WriteAudit, Reply, Fail, Lands
  <1> QED BY <1>1, <1>2, <1>3, <1>4, <1>5, <1>6 DEF Handle, Commits

(* A lock is only ever lifted by unlockWallet, for that wallet: no stale   *)
(* row that a racing request holds can undo it.                            *)
THEOREM LocksStick == Spec => LockSticks
  <1>1. Init => TypeInv /\ UnlockLabel
    BY TypeInit DEF Init, UnlockLabel
  <1>2. TypeInv /\ UnlockLabel /\ [Next]_vars => (TypeInv /\ UnlockLabel)'
    BY TypeNext, UnlockLabelNext
  <1> QED BY <1>1, <1>2, LockStep, PTL DEF Spec, LockSticks

-----------------------------------------------------------------------------
(* Strikes.  The requests that ended after a wrong PIN only get more, so a *)
(* row that was read has no more strikes than there are now; the request   *)
(* that adds one to that count is the next of them.                        *)
WrongPinsFinite == \A d \in Devs : IsFiniteSet(WrongPins(d))

SnapsEarned ==
    \A r \in Reqs :
        /\ snap[r].failedPinAttempts <= Cardinality(WrongPins(call[r].dev))
        /\ pc[r] = "pinFail" => PresentedWrongPin(r)

StrikesInv == WrongPinsFinite /\ StrikesEarned /\ SnapsEarned

(* A step ends at most one request, for good.                              *)
LEMMA WrongPinsStep ==
    ASSUME TypeInv, [Next]_vars, NEW d \in Devs
    PROVE  /\ \/ WrongPins(d)' = WrongPins(d)
              \/ \E r \in Reqs : /\ r \notin WrongPins(d)
                                 /\ WrongPins(d)' = WrongPins(d) \cup {r}
           /\ \A r \in Reqs :
                HandleFailedPin(r) /\ call[r].dev = d /\ PresentedWrongPin(r) =>
                  r \notin WrongPins(d) /\ WrongPins(d)' = WrongPins(d) \cup {r}
  <1> USE DEF TypeInv
  <1>0. call' = call
    BY CallsStay
  <1>1. CASE UNCHANGED vars
    <2>1. WrongPins(d)' = WrongPins(d)
      BY <1>1 DEF vars, WrongPins, PresentedWrongPin
    <2>2. \A r \in Reqs : ~HandleFailedPin(r)
      BY <1>1 DEF vars, HandleFailedPin, Goto, Lands, TypeOK
    <2> QED BY <2>1, <2>2
  <1>2. ASSUME NEW r \in Reqs, Arrive(r) \/ Handle(r) \/ Fail(r)
        PROVE  /\ \A s \in Reqs : s # r => pc'[s] = pc[s] /\ snap'[s] = snap[s]
               /\ pc[r] \notin {"badPin", "failed"} /\ pc'[r] # pc[r]
    <2>1. CASE FindWallet(r) \/ CreateWallet(r) \/ ResetAttempts(r)
      BY <2>1 DEF FindWallet, CreateWallet, ResetAttempts, Goto, AfterRead, AfterReset, TypeOK,
         Lands
    <2>2. CASE \/ Arrive(r) \/ CheckKey(r) \/ HandleFailedPin(r) \/ FindRecipient(r)
               \/ CreateRecipient(r) \/ Fund(r) \/ Withdraw(r) \/ Transfer(r)
               \/ KeyConflict(r) \/ SavePin(r) \/ Unlock(r) \/ WriteAudit(r)
               \/ Reply(r) \/ Fail(r)
      BY <2>2 DEF Arrive, CheckKey, HandleFailedPin, FindRecipient, CreateRecipient, Fund,
         Withdraw, Transfer, KeyConflict, SavePin, Unlock, WriteAudit, Reply, Fail, Goto,
         Waiting, TypeOK, Lands
    <2> QED BY <1>2, <2>1, <2>2 DEF Handle
  <1>3. CASE Next
    <2> PICK r \in Reqs : Arrive(r) \/ Handle(r) \/ Fail(r)
      BY <1>3 DEF Next
    <2>1. /\ \A s \in Reqs : s # r => pc'[s] = pc[s] /\ snap'[s] = snap[s]
          /\ pc[r] \notin {"badPin", "failed"} /\ pc'[r] # pc[r]
      BY <1>2
    <2>2. r \notin WrongPins(d)
      BY <2>1 DEF WrongPins
    <2>3. WrongPins(d)' \in {WrongPins(d), WrongPins(d) \cup {r}}
      <3>1. \A s \in Reqs : s # r => (s \in WrongPins(d)' <=> s \in WrongPins(d))
        BY <1>0, <2>1 DEF WrongPins, PresentedWrongPin
      <3>2. WrongPins(d) \subseteq Reqs /\ WrongPins(d)' \subseteq Reqs
        BY DEF WrongPins
      <3> QED BY <2>2, <3>1, <3>2
    <2>4. ASSUME NEW s \in Reqs, HandleFailedPin(s), call[s].dev = d, PresentedWrongPin(s)
          PROVE  s = r /\ r \in WrongPins(d)'
      <3>1. pc'[s] \in {"badPin", "failed"} /\ pc[s] = "pinFail" /\ snap' = snap
        BY <2>4 DEF HandleFailedPin, Goto, Lands, TypeOK
      <3>2. s = r
        BY <2>1, <3>1
      <3> QED BY <1>0, <2>4, <3>1, <3>2 DEF WrongPins, PresentedWrongPin
    <2> QED BY <2>2, <2>3, <2>4
  <1> QED BY <1>1, <1>3

LEMMA StrikesGrow ==
    ASSUME TypeInv, [Next]_vars, WrongPinsFinite, NEW d \in Devs
    PROVE  /\ IsFiniteSet(WrongPins(d)')
           /\ Cardinality(WrongPins(d)) \in Nat /\ Cardinality(WrongPins(d)') \in Nat
           /\ Cardinality(WrongPins(d)) <= Cardinality(WrongPins(d)')
           /\ \A r \in Reqs :
                HandleFailedPin(r) /\ call[r].dev = d /\ PresentedWrongPin(r) =>
                  Cardinality(WrongPins(d)') = Cardinality(WrongPins(d)) + 1
  <1>1. IsFiniteSet(WrongPins(d)) /\ Cardinality(WrongPins(d)) \in Nat
    BY FS_CardinalityType DEF WrongPinsFinite
  <1>2. ASSUME NEW r, r \notin WrongPins(d), WrongPins(d)' = WrongPins(d) \cup {r}
        PROVE  /\ IsFiniteSet(WrongPins(d)')
               /\ Cardinality(WrongPins(d)') = Cardinality(WrongPins(d)) + 1
    BY <1>1, <1>2, FS_AddElement
  <1>3. /\ \/ WrongPins(d)' = WrongPins(d)
           \/ \E r \in Reqs : /\ r \notin WrongPins(d)
                              /\ WrongPins(d)' = WrongPins(d) \cup {r}
        /\ \A r \in Reqs :
             HandleFailedPin(r) /\ call[r].dev = d /\ PresentedWrongPin(r) =>
               r \notin WrongPins(d) /\ WrongPins(d)' = WrongPins(d) \cup {r}
    BY WrongPinsStep
  <1> QED BY <1>1, <1>2, <1>3

(* A count is kept, cleared, or set by a failed PIN together with the      *)
(* lock; nothing else locks a wallet.                                      *)
LEMMA CountStep ==
    ASSUME TypeInv, [Next]_vars, NEW d \in Devs
    PROVE  \/ /\ wallet'[d].failedPinAttempts \in {0, wallet[d].failedPinAttempts}
              /\ wallet'[d].isLocked => wallet[d].isLocked
           \/ \E r \in Reqs :
                /\ HandleFailedPin(r) /\ call[r].dev = d
                /\ wallet'[d].failedPinAttempts = snap[r].failedPinAttempts + 1
                /\ wallet'[d].isLocked =>
                     wallet[d].isLocked \/ snap[r].failedPinAttempts + 1 >= MaxPinAttempts
  <1> USE DEF TypeInv
  <1>1. CASE UNCHANGED vars
    BY <1>1 DEF vars
  <1>2. CASE Next
    <2> PICK r \in Reqs : Arrive(r) \/ Handle(r) \/ Fail(r)
      BY <1>2 DEF Next
    <2>t. call[r].dev \in Devs /\ wallet[d] \in WalletRow /\ wallet[call[r].dev] \in WalletRow
      BY CallFields DEF TypeOK
    <2>1. CASE HandleFailedPin(r)
      <3> DEFINE e == call[r].dev
                 attempts == snap[r].failedPinAttempts + 1
                 lock == wallet[e].isLocked \/ attempts >= MaxPinAttempts
                 row == [wallet[e] EXCEPT !.failedPinAttempts = attempts, !.isLocked = lock]
      <3>1. wallet' = [wallet EXCEPT ![e] = row]
        BY <2>1, <2>t DEF HandleFailedPin, TypeOK
      <3>2. lock \in BOOLEAN
        OBVIOUS
      <3> HIDE DEF attempts, lock
      <3>3. row.isLocked = lock /\ row.failedPinAttempts = attempts
        BY <2>t, <3>2 DEF WalletRow
      <3>4. /\ wallet'[e] = row
            /\ d # e => wallet'[d] = wallet[d]
        BY <2>t, <3>1 DEF TypeOK
      <3>5. CASE d = e
        BY <2>1, <3>3, <3>4, <3>5 DEF lock, attempts
      <3>6. CASE d # e
        BY <3>4, <3>6
      <3> QED BY <3>5, <3>6
    <2>2. CASE ResetAttempts(r)
      BY <2>2, <2>t DEF ResetAttempts, TypeOK, WalletRow
    <2>3. CASE Unlock(r)
      BY <2>3, <2>t DEF Unlock, TypeOK, WalletRow
    <2>4. CASE SavePin(r)
      BY <2>4, <2>t DEF SavePin, TypeOK, WalletRow
    <2>5. CASE Commits(r)
      BY <2>5, CommitsKeepLocks
    <2>6. CASE \/ Arrive(r) \/ CheckKey(r) \/ FindWallet(r) \/ CreateWallet(r)
               \/ FindRecipient(r) \/ CreateRecipient(r) \/ KeyConflict(r)
               \/ WriteAudit(r) \/ Reply(r) \/ Fail(r)
      BY <2>6 DEF Arrive, CheckKey, FindWallet, CreateWallet, FindRecipient, CreateRecipient,
                  KeyConflict, WriteAudit, Reply, Fail, Lands
    <2> QED BY <2>1, <2>2, <2>3, <2>4, <2>5, <2>6 DEF Handle, Commits
  <1> QED BY <1>1, <1>2

LEMMA AfterReadPinFail ==
    ASSUME NEW c \in Calls, NEW row, AfterRead(c, row) = "pinFail"
    PROVE  /\ c.op \in {"transfer", "withdraw"}
           /\ row.pin \notin {NoPin, c.pin} /\ ~row.isLocked
  BY WalletAssumption DEF AfterRead, CallType, Ops, MoneyOps

(* A request holds the row it read, and counts only after a wrong PIN.     *)
LEMMA SnapStep ==
    ASSUME TypeInv, [Next]_vars, NEW r \in Reqs, pc[r] = "pinFail" => PresentedWrongPin(r)
    PROVE  /\ snap'[r] \in {snap[r], wallet[call[r].dev], NewWallet}
           /\ pc'[r] = "pinFail" => PresentedWrongPin(r)'
  <1> USE DEF TypeInv
  <1>0. call' = call
    BY CallsStay
  <1>1. CASE UNCHANGED vars
    BY <1>1 DEF vars, PresentedWrongPin
  <1>2. CASE Next
    <2> PICK s \in Reqs : Arrive(s) \/ Handle(s) \/ Fail(s)
      BY <1>2 DEF Next
    <2>1. CASE FindWallet(s) \/ CreateWallet(s)
      <3>1. snap'[r] \in {snap[r], wallet[call[r].dev], NewWallet}
        BY <2>1 DEF FindWallet, CreateWallet, TypeOK
      <3>2. CASE r # s
        BY <1>0, <2>1, <3>2 DEF FindWallet, CreateWallet, Goto, Lands, PresentedWrongPin, TypeOK
      <3>3. CASE r = s
        <4> SUFFICES ASSUME pc'[s] = "pinFail" PROVE PresentedWrongPin(s)'
          BY <3>1, <3>3
        <4>1. pc'[s] = AfterRead(call[s], snap'[s])
          BY <2>1 DEF FindWallet, CreateWallet, Goto, Lands, TypeOK
        <4> QED BY <1>0, <4>1, AfterReadPinFail DEF PresentedWrongPin, TypeOK
      <3> QED BY <3>1, <3>2, <3>3
    <2>2. CASE ResetAttempts(s)
      BY <1>0, <2>2 DEF ResetAttempts, AfterReset, Goto, Lands, PresentedWrongPin, TypeOK
    <2>3. CASE \/ Arrive(s) \/ CheckKey(s) \/ HandleFailedPin(s) \/ FindRecipient(s)
               \/ CreateRecipient(s) \/ Fund(s) \/ Withdraw(s) \/ Transfer(s)
               \/ KeyConflict(s) \/ SavePin(s) \/ Unlock(s) \/ WriteAudit(s)
               \/ Reply(s) \/ Fail(s)
      <3>1. snap' = snap /\ (pc'[r] = "pinFail" => pc[r] = "pinFail")
        BY <2>3 DEF Arrive, CheckKey, HandleFailedPin, FindRecipient, CreateRecipient, Fund,
           Withdraw, Transfer, KeyConflict, SavePin, Unlock, WriteAudit, Reply, Fail, Goto,
           Lands, TypeOK
      <3> QED BY <1>0, <3>1 DEF PresentedWrongPin
    <2> QED BY <2>1, <2>2, <2>3 DEF Handle
  <1> QED BY <1>1, <1>2

LEMMA StrikesInit == Init => StrikesInv
  <1> SUFFICES ASSUME Init PROVE StrikesInv
      OBVIOUS
  <1>1. ASSUME NEW d \in Devs PROVE WrongPins(d) = {}
    BY DEF Init, WrongPins
  <1>2. \A d \in Devs : IsFiniteSet(WrongPins(d)) /\ Cardinality(WrongPins(d)) = 0
    BY <1>1, FS_EmptySet
  <1>3. ASSUME NEW d \in Devs
        PROVE  wallet[d].failedPinAttempts = 0 /\ ~wallet[d].isLocked
    BY <1>3 DEF Init, OpenedWallet, NewWallet
  <1>4. ASSUME NEW r \in Reqs
        PROVE  snap[r].failedPinAttempts = 0 /\ pc[r] = "new" /\ call[r].dev \in Devs
    BY TypeInit, CallFields DEF Init, NewWallet, TypeInv, TypeOK
  <1> QED
    BY <1>2, <1>3, <1>4 DEF StrikesInv, WrongPinsFinite, StrikesEarned, SnapsEarned

LEMMA StrikesNext == TypeInv /\ StrikesInv /\ [Next]_vars => StrikesInv'
  <1> SUFFICES ASSUME TypeInv, StrikesInv, [Next]_vars PROVE StrikesInv'
      OBVIOUS
  <1> USE DEF TypeInv, StrikesInv
  <1>0. call' = call /\ MaxPinAttempts \in Nat
    BY CallsStay, WalletAssumption
  <1>1. ASSUME NEW d \in Devs
        PROVE  /\ IsFiniteSet(WrongPins(d)')
               /\ Cardinality(WrongPins(d)) \in Nat /\ Cardinality(WrongPins(d)') \in Nat
               /\ Cardinality(WrongPins(d)) <= Cardinality(WrongPins(d)')
    BY StrikesGrow
  <1>2. ASSUME NEW r \in Reqs
        PROVE  /\ call[r].dev \in Devs /\ snap[r].failedPinAttempts \in Nat
               /\ wallet[call[r].dev].failedPinAttempts \in Nat
    BY CallFields DEF TypeOK, WalletRow
  <1>3. ASSUME NEW d \in Devs
        PROVE  /\ wallet'[d].failedPinAttempts <= Cardinality(WrongPins(d)')
               /\ wallet'[d].isLocked => Cardinality(WrongPins(d)') >= MaxPinAttempts
    <2> DEFINE before == Cardinality(WrongPins(d))
               after == Cardinality(WrongPins(d)')
    <2>0. before \in Nat /\ after \in Nat /\ before <= after
      BY <1>1
    <2>1. /\ wallet[d].failedPinAttempts \in Nat /\ wallet[d].failedPinAttempts <= before
          /\ wallet[d].isLocked => before >= MaxPinAttempts
      BY DEF StrikesEarned, TypeOK, WalletRow
    <2>2. CASE /\ wallet'[d].failedPinAttempts \in {0, wallet[d].failedPinAttempts}
               /\ wallet'[d].isLocked => wallet[d].isLocked
      <3> HIDE DEF before, after
      <3>1. wallet'[d].failedPinAttempts <= after
        BY <2>0, <2>1, <2>2
      <3>2. wallet'[d].isLocked => after >= MaxPinAttempts
        BY <1>0, <2>0, <2>1, <2>2
      <3> QED BY <3>1, <3>2 DEF after
    <2>3. ASSUME NEW r \in Reqs, HandleFailedPin(r), call[r].dev = d,
                 wallet'[d].failedPinAttempts = snap[r].failedPinAttempts + 1,
                 wallet'[d].isLocked =>
                   wallet[d].isLocked \/ snap[r].failedPinAttempts + 1 >= MaxPinAttempts
          PROVE  wallet'[d].failedPinAttempts <= after
                 /\ (wallet'[d].isLocked => after >= MaxPinAttempts)
      <3>1. PresentedWrongPin(r) /\ snap[r].failedPinAttempts <= before
        BY <2>3 DEF SnapsEarned, HandleFailedPin
      <3>2. after = before + 1
        BY <2>3, <3>1, StrikesGrow
      <3>3. snap[r].failedPinAttempts \in Nat
        BY <1>2
      <3> HIDE DEF before, after
      <3>4. wallet'[d].failedPinAttempts <= after
        BY <2>0, <2>3, <3>1, <3>2, <3>3
      <3>5. snap[r].failedPinAttempts + 1 >= MaxPinAttempts => after >= MaxPinAttempts
        BY <1>0, <2>0, <3>1, <3>2, <3>3
      <3>6. wallet[d].isLocked => after >= MaxPinAttempts
        BY <1>0, <2>0, <2>1
      <3> QED BY <2>3, <3>4, <3>5, <3>6
    <2> QED BY <2>2, <2>3, CountStep
  <1>4. ASSUME NEW r \in Reqs, NEW d \in Devs, call[r].dev = d
        PROVE  /\ snap'[r].failedPinAttempts <= Cardinality(WrongPins(d)')
               /\ pc'[r] = "pinFail" => PresentedWrongPin(r)'
    <2> DEFINE before == Cardinality(WrongPins(d))
               after == Cardinality(WrongPins(d)')
    <2>0. before \in Nat /\ after \in Nat /\ before <= after
      BY <1>1
    <2>1. /\ snap[r].failedPinAttempts \in Nat /\ snap[r].failedPinAttempts <= before
          /\ wallet[d].failedPinAttempts \in Nat /\ wallet[d].failedPinAttempts <= before
      BY <1>2, <1>4 DEF SnapsEarned, StrikesEarned
    <2>2. /\ snap'[r] \in {snap[r], wallet[d], NewWallet}
          /\ pc'[r] = "pinFail" => PresentedWrongPin(r)'
      BY <1>4, SnapStep DEF SnapsEarned
    <2>3. NewWallet.failedPinAttempts = 0
      BY DEF NewWallet
    <2> HIDE DEF before, after
    <2>4. snap'[r].failedPinAttempts <= after
      BY <2>0, <2>1, <2>2, <2>3
    <2> QED BY <2>2, <2>4 DEF after
  <1>5. WrongPinsFinite'
    BY <1>1 DEF WrongPinsFinite
  <1>6. StrikesEarned'
    BY <1>3 DEF StrikesEarned
  <1>7. SnapsEarned'
    <2> SUFFICES ASSUME NEW r \in Reqs
                 PROVE  /\ snap'[r].failedPinAttempts <= Cardinality(WrongPins(call[r].dev))'
                        /\ pc'[r] = "pinFail" => PresentedWrongPin(r)'
      BY DEF SnapsEarned
    <2> QED BY <1>0, <1>2, <1>4
  <1> QED BY <1>5, <1>6, <1>7

(* An unlocked wallet has an attempt left, and a strike or a lock is never *)
(* more than the wrong PINs presented to it account for, whatever stale    *)
(* counts are written back, and whatever answers are lost.                 *)
THEOREM LockoutIsSound == Spec => []LockoutSound
  <1>1. Init => TypeInv /\ LockInv /\ StrikesInv
    BY TypeInit, LockInit, StrikesInit
  <1>2. /\ TypeInv /\ LockInv /\ StrikesInv
        /\ [Next]_vars
        => (TypeInv /\ LockInv /\ StrikesInv)'
    BY TypeNext, LockNext, StrikesNext
  <1>3. LockInv /\ StrikesInv => LockoutSound
    BY DEF LockInv, StrikesInv, LockoutSound
  <1> QED BY <1>1, <1>2, <1>3, PTL DEF Spec
=============================================================================
