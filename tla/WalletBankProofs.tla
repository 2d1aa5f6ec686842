-------------------------- MODULE WalletBankProofs --------------------------
(***************************************************************************)
(* One request at a time, the wallet service is the bank of module Bank,   *)
(* for every set of developers, requests, PINs, keys and calls.            *)
(***************************************************************************)
EXTENDS WalletBank, WalletMoneyProofs

(* Labels at which a request holds its caller's row and may write it.      *)
Holding == {"pinFail", "reset", "findTo", "createTo", "commit", "savePin", "unlock"}

MayWrite(r, d) ==
    /\ pc[r] \in Holding
    /\ \/ d = call[r].dev
       \/ d = call[r].to /\ pc[r] = "commit" /\ call[r].op = "transfer"

(* A row is written only where a wallet was found or made.                 *)
WritesExisting == \A r \in Reqs : \A d \in Devs : MayWrite(r, d) => d \in created

Uncreated == \A d \in Devs \ created : wallet[d] = NewWallet

CreatedInv == WritesExisting /\ Uncreated

-----------------------------------------------------------------------------
(* Where the checks after a read lead, as far as the row matters.          *)
LEMMA AfterReadHolds ==
    ASSUME NEW c \in CallType, NEW row
    PROVE  /\ AfterRead(c, row) \notin {"findTo", "createTo"}
           /\ AfterRead(c, row) \in {"pinFail", "reset", "commit"} => ~row.isLocked
           /\ AfterRead(c, row) = "commit" => c.op = "fund"
  BY DEF AfterRead, MoneyOps, CallType, Ops

LEMMA AfterResetHolds ==
    ASSUME NEW c, NEW row
    PROVE  /\ AfterReset(c, row) \in {"insufficient", "findTo", "commit"}
           /\ AfterReset(c, row) = "commit" => c.op # "transfer"
  BY DEF AfterReset

(* A step is a step of one request; the others stay where they are, and no *)
(* row changes but those the request may write.                            *)
LEMMA StepOf ==
    ASSUME TypeInv, NEW r \in Reqs, Arrive(r) \/ Handle(r) \/ Fail(r)
    PROVE  /\ call' = call /\ created \subseteq created'
           /\ \A s \in Reqs : s # r => /\ pc'[s] = pc[s] /\ snap'[s] = snap[s]
                                       /\ peer'[s] = peer[s]
           /\ \A d \in Devs : wallet'[d] = wallet[d] \/ MayWrite(r, d)
  <1> USE DEF TypeInv, TypeOK
  <1>1. CASE FindWallet(r) \/ CreateWallet(r) \/ FindRecipient(r) \/ CreateRecipient(r)
    BY <1>1 DEF FindWallet, CreateWallet, FindRecipient, CreateRecipient, Goto, Lands
  <1>2. CASE HandleFailedPin(r) \/ ResetAttempts(r) \/ SavePin(r) \/ Unlock(r)
    BY <1>2 DEF HandleFailedPin, ResetAttempts, SavePin, Unlock, Goto, MayWrite, Holding, Lands
  <1>3. CASE Fund(r) \/ Withdraw(r) \/ Transfer(r)
    BY <1>3 DEF Fund, Withdraw, Transfer, SetBalance, Goto, MayWrite, Holding
  <1>4. CASE \/ Arrive(r) \/ CheckKey(r) \/ KeyConflict(r) \/ WriteAudit(r) \/ Reply(r) \/ Fail(r)
    BY <1>4 DEF Arrive, CheckKey, KeyConflict, WriteAudit, Reply, Fail, Goto
  <1> QED BY <1>1, <1>2, <1>3, <1>4 DEF Handle

(* A request comes to write a wallet only by finding or making it.         *)
LEMMA WritesNext == TypeInv /\ CreatedInv /\ [Next]_vars => WritesExisting'
  <1> SUFFICES ASSUME TypeInv, CreatedInv, [Next]_vars, NEW s \in Reqs, NEW d \in Devs,
                      MayWrite(s, d)'
               PROVE  d \in created'
    BY DEF WritesExisting
  <1> USE DEF TypeInv
  <1>1. CASE UNCHANGED vars
    BY <1>1 DEF vars, CreatedInv, WritesExisting, MayWrite
  <1>2. ASSUME NEW r \in Reqs, Arrive(r) \/ Handle(r) \/ Fail(r) PROVE d \in created'
    <2>0. call' = call /\ created \subseteq created'
      BY <1>2, StepOf
    <2>1. CASE r # s
      BY <1>2, <2>0, <2>1, StepOf DEF MayWrite, CreatedInv, WritesExisting
    <2>2. CASE r = s
      <3>t. call[r] \in CallType /\ pc' [r] \in Holding
        BY <2>2, CallFields DEF MayWrite
      <3>1. CASE FindWallet(r)
        BY <2>0, <2>2, <3>1, <3>t, AfterReadHolds DEF FindWallet, Goto, MayWrite, Holding, TypeOK
      <3>2. CASE CreateWallet(r)
        BY <2>0, <2>2, <3>2, <3>t, AfterReadHolds
           DEF CreateWallet, Goto, MayWrite, Holding, TypeOK, Lands
      <3>3. CASE ResetAttempts(r)
        BY <2>0, <2>2, <3>3, AfterResetHolds
           DEF ResetAttempts, Goto, MayWrite, Holding, TypeOK, CreatedInv, WritesExisting, Lands
      <3>4. CASE FindRecipient(r) \/ CreateRecipient(r)
        BY <2>0, <2>2, <3>4
           DEF FindRecipient, CreateRecipient, Goto, MayWrite, Holding, TypeOK, CreatedInv,
               WritesExisting
      <3>5. CASE \/ Arrive(r) \/ CheckKey(r) \/ HandleFailedPin(r) \/ KeyConflict(r)
                 \/ Fund(r) \/ Withdraw(r) \/ Transfer(r)
                 \/ SavePin(r) \/ Unlock(r) \/ WriteAudit(r) \/ Reply(r) \/ Fail(r)
        BY <3>5, <3>t DEF Arrive, CheckKey, HandleFailedPin, KeyConflict, Fund, Withdraw,
           Transfer, SavePin, Unlock, WriteAudit, Reply, Fail, Goto, Holding, TypeOK, Lands
      <3> QED BY <1>2, <3>1, <3>2, <3>3, <3>4, <3>5 DEF Handle
    <2> QED BY <2>1, <2>2
  <1> QED BY <1>1, <1>2 DEF Next

LEMMA CreatedNext == TypeInv /\ CreatedInv /\ [Next]_vars => CreatedInv'
  <1> SUFFICES ASSUME TypeInv, CreatedInv, [Next]_vars PROVE Uncreated'
    BY WritesNext DEF CreatedInv
  <1>1. CASE UNCHANGED vars
    BY <1>1 DEF vars, CreatedInv, Uncreated
  <1>2. ASSUME NEW r \in Reqs, Arrive(r) \/ Handle(r) \/ Fail(r) PROVE Uncreated'
    BY <1>2, StepOf DEF CreatedInv, Uncreated, WritesExisting
  <1> QED BY <1>1, <1>2 DEF Next

LEMMA CreatedInit == Init => CreatedInv
  BY DEF Init, CreatedInv, WritesExisting, Uncreated, MayWrite, Holding

-----------------------------------------------------------------------------
(* One at a time, what a request holds is what the tables hold: the row it *)
(* read is still its wallet's in all that its next write depends on, and a *)
(* debit past its PIN check has left no strikes.                           *)
AtMostOne == \A r, s \in Reqs : pc[r] \in Waiting /\ pc[s] \in Waiting => r = s

Fresh(r) ==
    LET c == call[r]
        row == wallet[c.dev] IN
    /\ pc[r] = "pinFail" => snap[r] = row
    /\ pc[r] \in {"pinFail", "reset", "findTo", "createTo", "commit"} =>
         snap[r].balance = row.balance /\ ~row.isLocked
    /\ pc[r] \in {"findTo", "createTo", "commit"} /\ c.op # "fund" => row.failedPinAttempts = 0
    /\ pc[r] = "commit" /\ c.op = "transfer" => peer[r].balance = wallet[c.to].balance

FreshInv == AtMostOne /\ \A r \in Reqs : Fresh(r)

(* Who takes a step is alone in flight, before it and after.               *)
LEMMA Alone ==
    ASSUME OneAtATime, TypeInv, AtMostOne, NEW r \in Reqs, Arrive(r) \/ Handle(r) \/ Fail(r)
    PROVE  \A s \in Reqs : s # r => pc[s] \notin Waiting /\ pc'[s] \notin Waiting
  <1>1. pc[r] \in Waiting \/ InFlight = {}
    BY DEF OneAtATime, Waiting, Arrive, Fail, Handle, CheckKey, FindWallet, CreateWallet,
       HandleFailedPin, ResetAttempts, FindRecipient, CreateRecipient, Fund, Withdraw, Transfer,
       KeyConflict, SavePin, Unlock, WriteAudit, Reply, Lands
  <1>2. \A s \in Reqs : s # r => pc[s] \notin Waiting
    BY <1>1 DEF AtMostOne, InFlight
  <1> QED BY <1>2, StepOf

(* The request that takes the step holds what the tables hold after it.    *)
LEMMA FreshStep ==
    ASSUME TypeInv, CreatedInv, NEW r \in Reqs, Fresh(r), Handle(r)
    PROVE  Fresh(r)'
  <1> DEFINE c == call[r]
  <1>t. /\ call' = call /\ c \in CallType /\ c.dev \in Devs /\ wallet \in [Devs -> WalletRow]
        /\ pc \in [Reqs -> {"new"} \cup Waiting \cup Answers]
        /\ snap \in [Reqs -> WalletRow] /\ peer \in [Reqs -> WalletRow]
    BY CallFields, StepOf DEF TypeInv, TypeOK
  <1>m. ASSUME NEW label, Goto(r, label),
               label \notin {"pinFail", "reset", "findTo", "createTo", "commit"}
        PROVE  Fresh(r)'
    BY <1>m, <1>t DEF Goto, Fresh
  <1>1. CASE FindWallet(r)
    <2>1. CASE c.dev \in created
      <3>1. /\ snap'[r] = wallet[c.dev] /\ wallet' = wallet
            /\ pc'[r] = AfterRead(c, wallet[c.dev])
        BY <1>1, <1>t, <2>1 DEF FindWallet, Goto
      <3> QED BY <1>t, <3>1, AfterReadHolds DEF Fresh
    <2>2. CASE c.dev \notin created
      BY <1>1, <1>m, <2>2 DEF FindWallet
    <2> QED BY <2>1, <2>2
  <1>2. CASE CreateWallet(r)
    <2>1. CASE c.dev \notin created
      <3>1. /\ snap'[r] = NewWallet /\ wallet' = wallet /\ wallet[c.dev] = NewWallet
            /\ pc'[r] \in {AfterRead(c, NewWallet), "failed"}
        BY <1>2, <1>t, <2>1 DEF CreateWallet, Goto, CreatedInv, Uncreated, Lands
      <3> QED BY <1>t, <3>1, AfterReadHolds DEF Fresh
    <2>2. CASE c.dev \in created
      BY <1>2, <1>m, <2>2 DEF CreateWallet, Lands
    <2> QED BY <2>1, <2>2
  <1>3. CASE ResetAttempts(r)
    <2>1. /\ pc[r] = "reset" /\ pc'[r] \in {AfterReset(c, snap[r]), "failed"} /\ snap' = snap
          /\ wallet' = [wallet EXCEPT ![c.dev].failedPinAttempts = 0]
      BY <1>3, <1>t DEF ResetAttempts, Goto, Lands
    <2>2. /\ wallet'[c.dev].balance = wallet[c.dev].balance
          /\ wallet'[c.dev].isLocked = wallet[c.dev].isLocked
          /\ wallet'[c.dev].failedPinAttempts = 0
      BY <1>t, <2>1 DEF WalletRow
    <2> HIDE DEF c
    <2>3. ~(pc'[r] = "commit" /\ c.op = "transfer") /\ pc'[r] # "pinFail"
      BY <2>1, AfterResetHolds
    <2> QED BY <1>t, <2>1, <2>2, <2>3 DEF Fresh, c
  <1>4. CASE FindRecipient(r) \/ CreateRecipient(r)
    <2>1. /\ wallet' = wallet /\ snap' = snap /\ pc[r] \in {"findTo", "createTo"}
          /\ pc'[r] \in {"createTo", "commit", "failed"}
          /\ pc'[r] = "commit" => c.to \in Devs /\ peer'[r] = wallet[c.to]
      BY <1>4, <1>t DEF FindRecipient, CreateRecipient, Goto, CreatedInv, Uncreated, TypeInv, TypeOK
    <2> QED BY <1>t, <2>1 DEF Fresh
  <1>5. CASE \/ CheckKey(r) \/ HandleFailedPin(r) \/ Fund(r) \/ Withdraw(r) \/ Transfer(r)
             \/ KeyConflict(r) \/ SavePin(r) \/ Unlock(r) \/ WriteAudit(r) \/ Reply(r)
    <2>1. PICK label \in {"duplicate", "find", "badPin", "reply", "failed", "audit", "ok"} :
             Goto(r, label)
      BY <1>5 DEF CheckKey, HandleFailedPin, Fund, Withdraw, Transfer, KeyConflict, SavePin, Unlock,
         WriteAudit, Reply, Lands
    <2> QED BY <1>m, <2>1
  <1> QED BY <1>1, <1>2, <1>3, <1>4, <1>5 DEF Handle

LEMMA FreshNext ==
    ASSUME OneAtATime, TypeInv, CreatedInv, FreshInv, [Next]_vars
    PROVE  FreshInv'
  <1>1. CASE UNCHANGED vars
    BY <1>1 DEF vars, FreshInv, AtMostOne, Fresh
  <1>2. ASSUME NEW r \in Reqs, Arrive(r) \/ Handle(r) \/ Fail(r) PROVE FreshInv'
    <2>1. \A s \in Reqs : s # r => pc'[s] \notin Waiting
      BY <1>2, Alone DEF FreshInv
    <2>2. AtMostOne'
      BY <2>1 DEF AtMostOne
    <2>3. ASSUME NEW s \in Reqs, s # r PROVE Fresh(s)'
      BY <2>1, <2>3 DEF Fresh, Waiting
    <2>4. Fresh(r)'
      <3>1. CASE Arrive(r) \/ Fail(r)
        BY <3>1 DEF Arrive, Fail, Goto, Fresh, TypeInv, TypeOK
      <3>2. CASE Handle(r)
        BY <3>2, FreshStep DEF FreshInv
      <3> QED BY <1>2, <3>1, <3>2
    <2> QED BY <2>2, <2>3, <2>4 DEF FreshInv
  <1> QED BY <1>1, <1>2 DEF Next

LEMMA FreshInit == Init => FreshInv
  BY DEF Init, FreshInv, AtMostOne, Fresh, Waiting

-----------------------------------------------------------------------------
(* What the steps of the bank need to know of the state before them.       *)
BankInv == TypeInv /\ SolventInv /\ LockInv /\ CreatedInv /\ FreshInv

(* A wrong PIN: the count that is written is the table's, plus one.        *)
LEMMA WrongPinStep ==
    ASSUME BankInv, NEW r \in Reqs, HandleFailedPin(r)
    PROVE  B!WrongPin(call[r].dev)
  <1> DEFINE d == call[r].dev
             attempts == wallet[d].failedPinAttempts + 1
             lock == wallet[d].isLocked \/ attempts >= MaxPinAttempts
             row == [wallet[d] EXCEPT !.failedPinAttempts = attempts, !.isLocked = lock]
  <1>1. /\ d \in Devs /\ wallet \in [Devs -> WalletRow] /\ wallet[d] \in WalletRow
        /\ MaxPinAttempts \in Nat
    BY CallFields, WalletAssumption DEF BankInv, TypeInv, TypeOK
  <1>2. snap[r] = wallet[d] /\ ~wallet[d].isLocked
    BY DEF HandleFailedPin, BankInv, FreshInv, Fresh
  <1>3. attempts \in Nat /\ attempts <= MaxPinAttempts
    BY <1>1, <1>2 DEF BankInv, LockInv, UnlockedBelowLimit, WalletRow
  <1>4. wallet' = [wallet EXCEPT ![d] = row]
    BY <1>1, <1>2 DEF HandleFailedPin
  <1>5. lock \in BOOLEAN /\ (lock <=> attempts = MaxPinAttempts)
    BY <1>1, <1>2, <1>3
  <1> HIDE DEF attempts, lock
  <1>6. row.balance = wallet[d].balance /\ row.failedPinAttempts = attempts /\ row.isLocked = lock
    BY <1>1 DEF WalletRow
  <1> HIDE DEF row, d
  <1>7. /\ wallet'[d] = row /\ \A e \in Devs : e # d => wallet'[e] = wallet[e]
    BY <1>1, <1>4
  <1>8. d \notin Locked /\ Balances' = Balances
    BY <1>1, <1>2, <1>6, <1>7 DEF Locked, Balances
  <1>9. Strikes' = [Strikes EXCEPT ![d] = @ + 1]
    BY <1>1, <1>6, <1>7 DEF Strikes, attempts
  <1>10. Locked' = IF Strikes[d] + 1 = MaxPinAttempts THEN Locked \cup {d} ELSE Locked
    <2>1. Strikes[d] + 1 = attempts
      BY <1>1 DEF Strikes, attempts
    <2>2. d \in Locked' <=> attempts = MaxPinAttempts
      BY <1>1, <1>5, <1>6, <1>7 DEF Locked
    <2>3. \A e \in Devs : e # d => (e \in Locked' <=> e \in Locked)
      BY <1>7 DEF Locked
    <2>4. Locked \subseteq Devs /\ Locked' \subseteq Devs
      BY DEF Locked
    <2> QED BY <1>1, <1>8, <2>1, <2>2, <2>3, <2>4
  <1> QED BY <1>8, <1>9, <1>10 DEF B!WrongPin, d

(* The right PIN, and the admin's unlock.                                  *)
LEMMA RightPinStep ==
    ASSUME BankInv, NEW r \in Reqs, ResetAttempts(r)
    PROVE  B!RightPin(call[r].dev)
  <1> DEFINE d == call[r].dev
  <1>1. d \in Devs /\ wallet \in [Devs -> WalletRow]
    BY CallFields DEF BankInv, TypeInv, TypeOK
  <1>2. ~wallet[d].isLocked
    BY DEF ResetAttempts, BankInv, FreshInv, Fresh
  <1>3. wallet' = [wallet EXCEPT ![d].failedPinAttempts = 0]
    BY DEF ResetAttempts
  <1> HIDE DEF d
  <1>4. /\ wallet'[d].failedPinAttempts = 0
        /\ \A e \in Devs : /\ wallet'[e].balance = wallet[e].balance
                           /\ wallet'[e].isLocked = wallet[e].isLocked
                           /\ e # d => wallet'[e] = wallet[e]
    BY <1>1, <1>3 DEF WalletRow
  <1>5. d \notin Locked /\ Balances' = Balances /\ Locked' = Locked
    BY <1>2, <1>4 DEF Locked, Balances
  <1>6. Strikes' = [Strikes EXCEPT ![d] = 0]
    BY <1>1, <1>4 DEF Strikes
  <1> QED BY <1>5, <1>6 DEF B!RightPin, d

LEMMA ReleaseStep ==
    ASSUME BankInv, NEW r \in Reqs, Unlock(r)
    PROVE  B!Release(call[r].dev)
  <1> DEFINE d == call[r].dev
  <1>1. d \in Devs /\ wallet \in [Devs -> WalletRow]
    BY CallFields DEF BankInv, TypeInv, TypeOK
  <1>3. wallet' = [wallet EXCEPT ![d].isLocked = FALSE, ![d].failedPinAttempts = 0]
    BY DEF Unlock
  <1> HIDE DEF d
  <1>4. /\ wallet'[d].failedPinAttempts = 0 /\ ~wallet'[d].isLocked
        /\ \A e \in Devs : /\ wallet'[e].balance = wallet[e].balance
                           /\ e # d => wallet'[e] = wallet[e]
    BY <1>1, <1>3 DEF WalletRow
  <1>5. Balances' = Balances /\ Locked' = Locked \ {d}
    BY <1>4 DEF Locked, Balances
  <1>6. Strikes' = [Strikes EXCEPT ![d] = 0]
    BY <1>1, <1>4 DEF Strikes
  <1> QED BY <1>5, <1>6 DEF B!Release, d

(* What a commit is computed from: the balances the tables hold.           *)
LEMMA CommitReads ==
    ASSUME OneAtATime, BankInv, NEW r \in Reqs, Commits(r)
    PROVE  LET c == call[r] IN
           /\ c.dev \in Devs /\ c.amount \in BankAmounts /\ c.amount \in Nat
           /\ wallet \in [Devs -> WalletRow]
           /\ snap[r].balance = wallet[c.dev].balance /\ ~wallet[c.dev].isLocked
           /\ c.op # "fund" => /\ wallet[c.dev].failedPinAttempts = 0
                               /\ wallet[c.dev].balance >= c.amount
           /\ c.op = "transfer" => /\ c.to \in Devs /\ c.dev # c.to
                                   /\ peer[r].balance = wallet[c.to].balance
  <1> DEFINE c == call[r]
  <1>1. /\ pc[r] = "commit" /\ c.dev \in Devs /\ c.amount \in Nat /\ c \in Calls
        /\ wallet \in [Devs -> WalletRow] /\ (c.op = "transfer" => c.to \in Devs)
    BY CommitBooks, CallFields DEF BankInv, TypeInv, TypeOK
  <1>2. Fresh(r)
    BY DEF BankInv, FreshInv
  <1>3. c.op # "fund" => c.amount <= snap[r].balance
    BY <1>1 DEF BankInv, SolventInv, ChecksHold
  <1>4. c.amount \in BankAmounts /\ (c.op = "transfer" => c.dev # c.to)
    BY <1>1 DEF BankAmounts, OneAtATime
  <1>5. wallet[c.dev].balance \in Int
    BY <1>1 DEF WalletRow
  <1> QED BY <1>1, <1>2, <1>3, <1>4, <1>5 DEF Fresh

(* The bank's view of the tables after one balance was written.            *)
LEMMA SetBalanceView ==
    ASSUME NEW w \in [Devs -> WalletRow], NEW d \in Devs, NEW row \in LedgerRow
    PROVE  LET w2 == SetBalance(w, d, row) IN
           /\ w2 \in [Devs -> WalletRow] /\ w2[d].balance = row.after
           /\ \A e \in Devs : /\ e # d => w2[e] = w[e]
                              /\ w2[e].failedPinAttempts = w[e].failedPinAttempts
                              /\ w2[e].isLocked = w[e].isLocked
  BY DEF SetBalance, WalletRow, LedgerRow

(* A commit with one row is a deposit or a payment out.                    *)
LEMMA OneRowStep ==
    ASSUME OneAtATime, BankInv, NEW r \in Reqs, Fund(r) \/ Withdraw(r)
    PROVE  B!Deposit(call[r].dev, call[r].amount) \/ B!PayOut(call[r].dev, call[r].amount)
  <1> DEFINE c == call[r]
             row == IF c.op = "fund" THEN FundRow(r) ELSE DebitRow(r)
  <1>1. /\ c.dev \in Devs /\ wallet \in [Devs -> WalletRow] /\ c.amount \in Nat
        /\ snap[r].balance = wallet[c.dev].balance /\ ~wallet[c.dev].isLocked
        /\ c.op # "fund" => /\ wallet[c.dev].failedPinAttempts = 0
                            /\ wallet[c.dev].balance >= c.amount
    BY CommitReads DEF Commits
  <1>2. row \in LedgerRow /\ wallet' = SetBalance(wallet, c.dev, row)
    BY RowType DEF Fund, Withdraw, BankInv, TypeInv
  <1>3. row.after = IF c.op = "fund" THEN wallet[c.dev].balance + c.amount
                                     ELSE wallet[c.dev].balance - c.amount
    BY <1>1 DEF FundRow, DebitRow, Credit, Debit
  <1>4. /\ wallet'[c.dev].balance = row.after
        /\ \A e \in Devs : /\ e # c.dev => wallet'[e] = wallet[e]
                           /\ wallet'[e].failedPinAttempts = wallet[e].failedPinAttempts
                           /\ wallet'[e].isLocked = wallet[e].isLocked
    BY <1>1, <1>2, SetBalanceView
  <1> HIDE DEF row
  <1>5. Strikes' = Strikes /\ Locked' = Locked /\ c.dev \notin Locked
    BY <1>1, <1>4 DEF Strikes, Locked
  <1>6. CASE c.op = "fund"
    <2>1. Balances' = [Balances EXCEPT ![c.dev] = @ + c.amount]
      BY <1>1, <1>3, <1>4, <1>6 DEF Balances
    <2> QED BY <1>5, <2>1 DEF B!Deposit
  <1>7. CASE c.op # "fund"
    <2>1. Balances' = [Balances EXCEPT ![c.dev] = @ - c.amount]
      BY <1>1, <1>3, <1>4, <1>7 DEF Balances
    <2>2. Strikes[c.dev] = 0 /\ Balances[c.dev] >= c.amount
      BY <1>1, <1>7 DEF Strikes, Balances
    <2> QED BY <1>5, <2>1, <2>2 DEF B!PayOut, B!MayPay
  <1> QED BY <1>6, <1>7

(* A transfer's commit is a payment from one wallet to another.            *)
LEMMA TransferStep ==
    ASSUME OneAtATime, BankInv, NEW r \in Reqs, Transfer(r)
    PROVE  B!Pay(call[r].dev, call[r].to, call[r].amount)
  <1> DEFINE c == call[r]
             sent == SetBalance(wallet, c.dev, DebitRow(r))
  <1>1. /\ c.dev \in Devs /\ wallet \in [Devs -> WalletRow] /\ c.amount \in Nat
        /\ snap[r].balance = wallet[c.dev].balance /\ ~wallet[c.dev].isLocked
        /\ wallet[c.dev].failedPinAttempts = 0 /\ wallet[c.dev].balance >= c.amount
        /\ c.to \in Devs /\ c.dev # c.to /\ peer[r].balance = wallet[c.to].balance
    BY CommitReads DEF Commits, Transfer
  <1>2. /\ DebitRow(r) \in LedgerRow /\ RecipientRow(r) \in LedgerRow
        /\ wallet' = SetBalance(sent, c.to, RecipientRow(r))
    BY RowType DEF Transfer, BankInv, TypeInv
  <1>3. /\ DebitRow(r).after = wallet[c.dev].balance - c.amount
        /\ RecipientRow(r).after = wallet[c.to].balance + c.amount
    BY <1>1 DEF DebitRow, RecipientRow, Credit, Debit
  <1>4. /\ sent \in [Devs -> WalletRow] /\ sent[c.dev].balance = DebitRow(r).after
        /\ \A e \in Devs : /\ e # c.dev => sent[e] = wallet[e]
                           /\ sent[e].failedPinAttempts = wallet[e].failedPinAttempts
                           /\ sent[e].isLocked = wallet[e].isLocked
    BY <1>1, <1>2, SetBalanceView
  <1> HIDE DEF sent
  <1>5. /\ wallet'[c.to].balance = RecipientRow(r).after
        /\ \A e \in Devs : /\ e # c.to => wallet'[e] = sent[e]
                           /\ wallet'[e].failedPinAttempts = sent[e].failedPinAttempts
                           /\ wallet'[e].isLocked = sent[e].isLocked
    BY <1>1, <1>2, <1>4, SetBalanceView
  <1>6. Strikes' = Strikes /\ Locked' = Locked /\ c.dev \notin Locked
    BY <1>1, <1>4, <1>5 DEF Strikes, Locked
  <1>7. Balances' = [Balances EXCEPT ![c.dev] = @ - c.amount, ![c.to] = @ + c.amount]
    BY <1>1, <1>3, <1>4, <1>5 DEF Balances
  <1>8. Strikes[c.dev] = 0 /\ Balances[c.dev] >= c.amount
    BY <1>1 DEF Strikes, Balances
  <1> QED BY <1>1, <1>6, <1>7, <1>8 DEF B!Pay, B!MayPay

(* Every other step leaves the bank as it is.                              *)
LEMMA Stutter ==
    ASSUME TypeInv, NEW r \in Reqs,
           \/ Arrive(r) \/ CheckKey(r) \/ FindWallet(r) \/ CreateWallet(r) \/ FindRecipient(r)
           \/ CreateRecipient(r) \/ KeyConflict(r) \/ SavePin(r) \/ WriteAudit(r) \/ Reply(r)
           \/ Fail(r)
    PROVE  UNCHANGED <<Balances, Strikes, Locked>>
  <1>1. \A d \in Devs : /\ wallet'[d].balance = wallet[d].balance
                       /\ wallet'[d].failedPinAttempts = wallet[d].failedPinAttempts
                       /\ wallet'[d].isLocked = wallet[d].isLocked
    <2>1. CASE SavePin(r)
      BY <2>1 DEF SavePin, TypeInv, TypeOK, WalletRow
    <2>2. CASE wallet' = wallet
      BY <2>2
    <2> QED BY <2>1, <2>2 DEF Arrive, CheckKey, FindWallet, CreateWallet, FindRecipient,
               CreateRecipient, KeyConflict, WriteAudit, Reply, Fail, Lands
  <1> QED BY <1>1 DEF Balances, Strikes, Locked

LEMMA BankStep ==
    ASSUME OneAtATime, BankInv, [Next]_vars
    PROVE  [B!BankNext]_(B!bankVars)
  <1>1. CASE UNCHANGED vars
    BY <1>1 DEF vars, Balances, Strikes, Locked, B!bankVars
  <1>2. ASSUME NEW r \in Reqs, Arrive(r) \/ Handle(r) \/ Fail(r)
        PROVE  [B!BankNext]_(B!bankVars)
    <2>t. call[r].dev \in Devs
      BY CallFields DEF BankInv, TypeInv
    <2>1. CASE HandleFailedPin(r)
      BY <2>t, <2>1, WrongPinStep DEF B!BankNext
    <2>2. CASE ResetAttempts(r)
      BY <2>t, <2>2, RightPinStep DEF B!BankNext
    <2>3. CASE Unlock(r)
      BY <2>t, <2>3, ReleaseStep DEF B!BankNext
    <2>4. CASE Fund(r) \/ Withdraw(r)
      BY <2>t, <2>4, OneRowStep, CommitReads DEF B!BankNext, Commits
    <2>5. CASE Transfer(r)
      <3>1. call[r].amount \in BankAmounts /\ call[r].to \in Devs
        BY <2>5, CommitReads DEF Commits, Transfer
      <3> QED BY <2>t, <2>5, <3>1, TransferStep DEF B!BankNext
    <2>6. CASE \/ Arrive(r) \/ CheckKey(r) \/ FindWallet(r) \/ CreateWallet(r)
               \/ FindRecipient(r) \/ CreateRecipient(r) \/ KeyConflict(r) \/ SavePin(r)
               \/ WriteAudit(r) \/ Reply(r) \/ Fail(r)
      BY <2>6, Stutter DEF B!bankVars, BankInv
    <2> QED BY <1>2, <2>1, <2>2, <2>3, <2>4, <2>5, <2>6 DEF Handle
  <1> QED BY <1>1, <1>2 DEF Next

LEMMA BankStart == Init => B!BankInit
  <1> SUFFICES ASSUME Init PROVE B!BankInit
    OBVIOUS
  <1>1. ASSUME NEW d \in Devs
        PROVE  /\ wallet[d].balance \in BankAmounts \cup {0}
               /\ wallet[d].failedPinAttempts = 0 /\ ~wallet[d].isLocked
    BY <1>1 DEF Init, OpenedWallet, NewWallet, BankAmounts
  <1> QED BY <1>1 DEF B!BankInit, Balances, Strikes, Locked

(* While no two requests overlap and nobody pays himself, the handlers are *)
(* the bank the README promises, whatever fails at whatever await: money   *)
(* moves whole, only at the right PIN, and wrong PINs lock.                *)
THEOREM OneAtATimeIsTheBank ==
    ASSUME OneAtATime
    PROVE  Spec => ImplementsBank
  <1>1. Init => BankInv
    BY TypeInit, SolventInit, LockInit, CreatedInit, FreshInit DEF BankInv
  <1>2. BankInv /\ [Next]_vars => BankInv'
    BY TypeNext, SolventBooks, SolventReads, LockNext, CreatedNext, FreshNext
       DEF BankInv, SolventInv
  <1>3. BankInv /\ [Next]_vars => [B!BankNext]_(B!bankVars)
    BY BankStep
  <1> QED BY <1>1, <1>2, <1>3, BankStart, PTL DEF Spec, ImplementsBank, B!BankSpec

-----------------------------------------------------------------------------
(* The sum of all balances.                                                *)
LEMMA SettlingCommits ==
    ASSUME TypeInv, [Next]_vars, NEW r \in Reqs, Settles(r)
    PROVE  Commits(r)
  <1>1. Arrive(r) \/ Handle(r) \/ Fail(r)
    BY RequestStep DEF Settles
  <1> QED BY <1>1 DEF Settles, Commits, Handle, Arrive, Fail, CheckKey, FindWallet, CreateWallet,
             HandleFailedPin, ResetAttempts, FindRecipient, CreateRecipient, KeyConflict,
             SavePin, Unlock, WriteAudit, Reply, Goto, TypeInv, TypeOK, Lands

(* One balance, or two of different wallets, replaced.                     *)
LEMMA TotalOne ==
    ASSUME IsFiniteSet(Devs), NEW w \in [Devs -> Int], NEW d \in Devs, NEW b \in Int
    PROVE  SumFunction([w EXCEPT ![d] = b]) = SumFunction(w) - w[d] + b
  <1> DEFINE v == [w EXCEPT ![d] = b]
  <1>1. /\ v[d] = b /\ DOMAIN v = Devs /\ DOMAIN w = Devs
        /\ \A e \in Devs : w[e] \in Int /\ v[e] \in Int
        /\ \A e \in Devs \ {d} : v[e] = w[e]
    OBVIOUS
  <1>2. SumFunctionOnSet(v, Devs) = SumFunctionOnSet(w, Devs) - w[d] + v[d]
    <2> HIDE DEF v
    <2> QED BY <1>1, SumChange
  <1> QED BY <1>1, <1>2 DEF SumFunction

LEMMA TotalIsInt ==
    ASSUME IsFiniteSet(Devs), NEW w \in [Devs -> Int]
    PROVE  SumFunction(w) \in Int
  <1>1. DOMAIN w = Devs /\ \A e \in Devs : w[e] \in Int
    OBVIOUS
  <1> QED BY <1>1, SumTakeOut DEF SumFunction

LEMMA BalancesType == TypeInv => Balances \in [Devs -> Int]
  BY DEF TypeInv, TypeOK, WalletRow, Balances

LEMMA TotalOfCommit ==
    ASSUME IsFiniteSet(Devs), TypeInv, NEW r \in Reqs, Commits(r), ReadsCurrent(r)
    PROVE  TotalMoney' = TotalMoney + Turnover(call[r])
  <1> DEFINE c == call[r]
             sent == SetBalance(wallet, c.dev, DebitRow(r))
  <1>1. /\ c.dev \in Devs /\ c.amount \in Nat /\ wallet \in [Devs -> WalletRow]
        /\ FundRow(r) \in LedgerRow /\ DebitRow(r) \in LedgerRow /\ RecipientRow(r) \in LedgerRow
        /\ c.op = "transfer" => c.to \in Devs /\ c.dev # c.to
    BY CommitBooks, CallFields DEF TypeInv, TypeOK, ReadsCurrent
  <1>2. Balances \in [Devs -> Int] /\ TotalMoney \in Int
    BY BalancesType, TotalIsInt DEF TotalMoney
  <1>3. Balances[c.dev] = snap[r].balance
    BY <1>1 DEF ReadsCurrent, Balances
  <1>4. ASSUME NEW row \in LedgerRow, wallet' = SetBalance(wallet, c.dev, row)
        PROVE  TotalMoney' = TotalMoney - Balances[c.dev] + row.after
    <2>0. wallet'[c.dev].balance = row.after /\ \A e \in Devs : e # c.dev => wallet'[e] = wallet[e]
      BY <1>1, <1>4, SetBalanceView
    <2>1. Balances' = [Balances EXCEPT ![c.dev] = row.after]
      BY <1>1, <2>0 DEF Balances
    <2>2. row.after \in Int
      BY DEF LedgerRow
    <2> QED BY <1>1, <1>2, <2>1, <2>2, TotalOne DEF TotalMoney
  <1>5. CASE c.op = "fund"
    <2>1. wallet' = SetBalance(wallet, c.dev, FundRow(r))
      BY <1>5, CommitBooks DEF BooksOne
    <2>2. FundRow(r).after = snap[r].balance + c.amount
      BY DEF FundRow, Credit
    <2> QED BY <1>1, <1>2, <1>3, <1>4, <1>5, <2>1, <2>2 DEF Turnover
  <1>6. CASE c.op = "withdraw"
    <2>1. wallet' = SetBalance(wallet, c.dev, DebitRow(r))
      BY <1>6, CommitBooks DEF BooksOne
    <2>2. DebitRow(r).after = snap[r].balance - c.amount
      BY DEF DebitRow, Debit
    <2> QED BY <1>1, <1>2, <1>3, <1>4, <1>6, <2>1, <2>2 DEF Turnover
  <1>7. CASE c.op = "transfer"
    <2>1. wallet' = SetBalance(sent, c.to, RecipientRow(r))
      BY <1>7, CommitBooks DEF BooksTwo
    <2>2. /\ DebitRow(r).after = Balances[c.dev] - c.amount
          /\ RecipientRow(r).after = Balances[c.to] + c.amount
      BY <1>1, <1>3, <1>7 DEF DebitRow, RecipientRow, Debit, Credit, ReadsCurrent, Balances
    <2>3. /\ sent \in [Devs -> WalletRow] /\ sent[c.dev].balance = DebitRow(r).after
          /\ \A e \in Devs : e # c.dev => sent[e] = wallet[e]
      BY <1>1, SetBalanceView
    <2> HIDE DEF sent
    <2>4. /\ wallet'[c.to].balance = RecipientRow(r).after
          /\ \A e \in Devs : e # c.to => wallet'[e] = sent[e]
      BY <1>1, <1>7, <2>1, <2>3, SetBalanceView
    <2> DEFINE half == [Balances EXCEPT ![c.dev] = @ - c.amount]
    <2>5. half \in [Devs -> Int] /\ half[c.to] = Balances[c.to]
      BY <1>1, <1>2, <1>7
    <2>6. Balances' = [half EXCEPT ![c.to] = half[c.to] + c.amount]
      BY <1>1, <1>7, <2>2, <2>3, <2>4 DEF Balances
    <2>7. SumFunction(half) = TotalMoney - c.amount
      <3>1. Balances[c.dev] \in Int /\ Balances[c.dev] - c.amount \in Int
        BY <1>1, <1>2
      <3>2. SumFunction(half)
              = SumFunction(Balances) - Balances[c.dev] + (Balances[c.dev] - c.amount)
        BY <1>1, <1>2, <3>1, TotalOne
      <3> QED BY <1>1, <1>2, <3>1, <3>2 DEF TotalMoney
    <2> HIDE DEF half
    <2>8. half[c.to] \in Int /\ half[c.to] + c.amount \in Int
      BY <1>1, <1>7, <2>5
    <2>9. SumFunction(Balances') = SumFunction(half) - half[c.to] + (half[c.to] + c.amount)
      BY <1>1, <1>7, <2>5, <2>6, <2>8, TotalOne
    <2> QED BY <1>1, <1>2, <1>7, <2>7, <2>8, <2>9 DEF Turnover, TotalMoney
  <1> QED BY <1>5, <1>6, <1>7, CommitBooks

LEMMA ConservedStep ==
    ASSUME IsFiniteSet(Devs), TypeInv, [Next]_vars
    PROVE  /\ (\A r \in Reqs : ~Settles(r)) => TotalMoney' = TotalMoney
           /\ \A r \in Reqs : Settles(r) /\ ReadsCurrent(r)
                => TotalMoney' = TotalMoney + Turnover(call[r])
  <1>1. ASSUME \A r \in Reqs : ~Settles(r) PROVE TotalMoney' = TotalMoney
    <2>1. ASSUME NEW r \in Reqs, Commits(r) PROVE FALSE
      BY <1>1, <2>1, CommitBooks DEF Settles, Goto, TypeInv, TypeOK
    <2>2. Balances' = Balances
      BY <2>1, OnlyCommitsMoveMoney DEF BooksUnchanged, Balances
    <2> QED BY <2>2 DEF TotalMoney
  <1> QED BY <1>1, SettlingCommits, TotalOfCommit

(* With overlap, retries and failures: money enters and leaves the wallets *)
(* as it was asked for, but for commits whose balances were stale.         *)
THEOREM MoneyIsConserved ==
    ASSUME IsFiniteSet(Devs)
    PROVE  Spec => MoneyConserved
  <1> QED BY TypeInit, TypeNext, ConservedStep, PTL DEF Spec, MoneyConserved

(* One at a time no balance is stale: a transfer conserves the sum of the  *)
(* balances, as the README of the repository says.                         *)
THEOREM OneAtATimeConserves ==
    ASSUME OneAtATime, IsFiniteSet(Devs)
    PROVE  Spec => TransferConserves
  <1>1. Init => BankInv
    BY TypeInit, SolventInit, LockInit, CreatedInit, FreshInit DEF BankInv
  <1>2. BankInv /\ [Next]_vars => BankInv'
    BY TypeNext, SolventBooks, SolventReads, LockNext, CreatedNext, FreshNext
       DEF BankInv, SolventInv
  <1>3. BankInv /\ [Next]_vars
          => [\A r \in Reqs : call[r].op = "transfer" /\ Settles(r)
                => TotalMoney' = TotalMoney]_vars
    <2> SUFFICES ASSUME BankInv, [Next]_vars, NEW r \in Reqs,
                        call[r].op = "transfer", Settles(r)
                 PROVE  TotalMoney' = TotalMoney
      OBVIOUS
    <2>1. Commits(r)
      BY SettlingCommits DEF BankInv
    <2>2. ReadsCurrent(r)
      BY <2>1, CommitReads DEF ReadsCurrent
    <2>3. TotalMoney \in Int
      BY BalancesType, TotalIsInt DEF BankInv, TotalMoney
    <2> QED BY <2>1, <2>2, <2>3, TotalOfCommit DEF BankInv, Turnover
  <1> QED BY <1>1, <1>2, <1>3, PTL DEF Spec, TransferConserves

-----------------------------------------------------------------------------
(* One at a time, no balance is replaced that was not read.                *)
LEMMA NothingClobbered ==
    ASSUME OneAtATime, BankInv, clobbered = {}, [Next]_vars
    PROVE  clobbered' = {}
  <1>1. CASE BooksUnchanged
    BY <1>1 DEF BooksUnchanged
  <1>2. ASSUME NEW r \in Reqs, Commits(r) PROVE clobbered' = {}
    <2> DEFINE c == call[r]
               sent == SetBalance(wallet, c.dev, DebitRow(r))
    <2>1. /\ c.dev \in Devs /\ wallet \in [Devs -> WalletRow]
          /\ snap[r].balance = wallet[c.dev].balance
          /\ c.op = "transfer" => /\ c.to \in Devs /\ c.dev # c.to
                                  /\ peer[r].balance = wallet[c.to].balance
      BY <1>2, CommitReads
    <2>2. Clobbers(wallet, c.dev, FundRow(r)) = {} /\ Clobbers(wallet, c.dev, DebitRow(r)) = {}
      BY <2>1 DEF Clobbers, FundRow, DebitRow, Credit, Debit
    <2>3. ASSUME c.op = "transfer" PROVE Clobbers(sent, c.to, RecipientRow(r)) = {}
      <3>1. DebitRow(r) \in LedgerRow
        BY RowType DEF BankInv, TypeInv
      <3>2. sent[c.to] = wallet[c.to]
        BY <2>1, <2>3, <3>1, SetBalanceView
      <3> HIDE DEF sent
      <3> QED BY <2>1, <2>3, <3>2 DEF Clobbers, RecipientRow, Credit
    <2> QED BY <1>2, <2>2, <2>3, CommitBooks DEF BankInv, BooksOne, BooksTwo
  <1> QED BY <1>1, <1>2, OnlyCommitsMoveMoney DEF BankInv

(* And so every balance is the sum of its wallet's rows: the lost updates  *)
(* of overlapping requests and transfers to oneself are the only ways in   *)
(* which the ledger and the balance column come to differ.                 *)
THEOREM OneAtATimeAddsUp ==
    ASSUME OneAtATime
    PROVE  Spec => []BalanceMatchesLedger
  <1> DEFINE I == BankInv /\ clobbered = {}
  <1>1. Init => I
    BY TypeInit, SolventInit, LockInit, CreatedInit, FreshInit DEF BankInv, Init
  <1>2. I /\ [Next]_vars => I'
    BY TypeNext, SolventBooks, SolventReads, LockNext, CreatedNext, FreshNext, NothingClobbered
       DEF BankInv, SolventInv
  <1>3. I /\ (\A d \in Devs \ clobbered : AddsUp(d)) => BalanceMatchesLedger
    BY DEF BalanceMatchesLedger
  <1> QED BY <1>1, <1>2, <1>3, UnclobberedAddUp, PTL DEF Spec
=============================================================================
