------------------------- MODULE WalletMoneyProofs -------------------------
(***************************************************************************)
(* Theorems about what the rows of table WalletTransaction say of the      *)
(* requests that made them, for every set of developers, requests, PINs,   *)
(* keys and calls, and every interleaving: no step assumes Overlap.  The   *)
(* last one is that Wallet implements Commits.                             *)
(***************************************************************************)
EXTENDS WalletProofs, WalletCommits

(* A request past its commit, whatever it asked for.                       *)
Settled == {"reply", "ok", "failed"}

-----------------------------------------------------------------------------
(* What a step does to the request x.                                      *)
LEMMA RequestStep ==
    ASSUME TypeInv, [Next]_vars, NEW x \in Reqs
    PROVE  /\ call' = call
           /\ \/ Arrive(x) \/ Handle(x) \/ Fail(x)
              \/ pc'[x] = pc[x] /\ snap'[x] = snap[x] /\ peer'[x] = peer[x]
  <1> USE DEF TypeInv, TypeOK
  <1>1. CASE UNCHANGED vars
    BY <1>1 DEF vars
  <1>2. ASSUME NEW r \in Reqs, Arrive(r) \/ Handle(r) \/ Fail(r)
        PROVE  /\ call' = call
               /\ r # x => pc'[x] = pc[x] /\ snap'[x] = snap[x] /\ peer'[x] = peer[x]
    <2>1. CASE FindWallet(r) \/ CreateWallet(r) \/ FindRecipient(r) \/ CreateRecipient(r)
      BY <2>1 DEF FindWallet, CreateWallet, FindRecipient, CreateRecipient, Goto, Lands
    <2>2. CASE \/ Arrive(r) \/ CheckKey(r) \/ HandleFailedPin(r) \/ ResetAttempts(r) \/ Fund(r)
               \/ Withdraw(r) \/ Transfer(r) \/ KeyConflict(r) \/ SavePin(r) \/ Unlock(r)
               \/ WriteAudit(r) \/ Reply(r) \/ Fail(r)
      BY <2>2 DEF Arrive, CheckKey, HandleFailedPin, ResetAttempts, Fund, Withdraw, Transfer,
                  KeyConflict, SavePin, Unlock, WriteAudit, Reply, Fail, Goto, Lands
    <2> QED BY <1>2, <2>1, <2>2 DEF Handle
  <1> QED BY <1>1, <1>2 DEF Next

(* A settled request stays settled, with the rows it has read.             *)
LEMMA SettledStays ==
    ASSUME TypeInv, [Next]_vars, NEW r \in Reqs, pc[r] \in Settled
    PROVE  pc'[r] \in Settled /\ snap'[r] = snap[r] /\ peer'[r] = peer[r]
  <1>1. CASE Arrive(r) \/ Handle(r) \/ Fail(r)
    BY <1>1 DEF Settled, Handle, Arrive, Fail, CheckKey, FindWallet, CreateWallet,
       HandleFailedPin, ResetAttempts, FindRecipient, CreateRecipient, Fund, Withdraw, Transfer,
       KeyConflict, SavePin, Unlock, WriteAudit, Reply, Goto, TypeInv, TypeOK, Lands
  <1>2. CASE pc'[r] = pc[r] /\ snap'[r] = snap[r] /\ peer'[r] = peer[r]
    BY <1>2
  <1> QED BY <1>1, <1>2, RequestStep

(* A request posts with its commit, and settles.                           *)
LEMMA PostedStep ==
    ASSUME TypeInv, [Next]_vars, NEW r \in Reqs
    PROVE  /\ Posted(r)' <=> Posted(r) \/ Commits(r)
           /\ Commits(r) => /\ pc[r] = "commit" /\ pc'[r] = "reply"
                            /\ snap'[r] = snap[r] /\ peer'[r] = peer[r]
  <1>1. ASSUME Commits(r)
        PROVE  /\ pc[r] = "commit" /\ pc'[r] = "reply"
               /\ snap'[r] = snap[r] /\ peer'[r] = peer[r]
    BY <1>1, CommitBooks DEF Goto, TypeInv, TypeOK
  <1>2. (Posted(r) <=> Holds(ledger, r)) /\ (Posted(r)' <=> Holds(ledger', r))
    BY DEF Posted, Holds
  <1>3. CASE BooksUnchanged /\ ~Commits(r)
    BY <1>2, <1>3 DEF BooksUnchanged
  <1>4. ASSUME NEW q \in Reqs, Commits(q) PROVE Posted(r)' <=> Posted(r) \/ q = r
    BY <1>2, <1>4, CommitRows
  <1>5. ASSUME NEW q \in Reqs, Commits(q), q # r PROVE ~Commits(r)
    <2> SUFFICES ASSUME Commits(r) PROVE FALSE
      OBVIOUS
    <2>1. pc'[q] = "reply" /\ pc[r] = "commit" /\ pc' = [pc EXCEPT ![r] = "reply"]
      BY <1>5, CommitBooks DEF Goto, TypeInv, TypeOK
    <2>2. pc' = [pc EXCEPT ![q] = "reply"] /\ pc[q] = "commit"
      BY <1>5, CommitBooks DEF Goto
    <2> QED BY <1>5, <2>1, <2>2 DEF TypeInv, TypeOK
  <1> QED BY <1>1, <1>3, <1>4, <1>5, OnlyCommitsMoveMoney

-----------------------------------------------------------------------------
(* Where a row of the ledger comes from: it opened its wallet, or a        *)
(* request that has committed computed it from the rows it had read.       *)
Explained(d, row) ==
    \/ row = OpeningRow(d)
    \/ \E r \in Reqs :
         /\ pc[r] \in Settled
         /\ \/ call[r].op = "fund" /\ call[r].dev = d /\ row = FundRow(r)
            \/ call[r].op \in {"withdraw", "transfer"} /\ call[r].dev = d /\ row = DebitRow(r)
            \/ call[r].op = "transfer" /\ call[r].to = d /\ row = RecipientRow(r)

Justified == [d \in Devs |-> {row \in LedgerRow : Explained(d, row)}]

(* Every row of the tables l is one that A allows in its wallet.           *)
RowsIn(l, A) == \A d \in Devs : \A i \in DOMAIN l[d] : l[d][i] \in A[d]

(* Adding an allowed row leaves only allowed rows.                         *)
LEMMA AddAllowed ==
    ASSUME NEW l \in [Devs -> Seq(LedgerRow)], NEW A, NEW d \in Devs, NEW row \in LedgerRow,
           RowsIn(l, A), row \in A[d]
    PROVE  RowsIn(AddRow(l, d, row), A)
  <1> DEFINE l2 == AddRow(l, d, row)
             n == Len(l[d])
  <1>1. /\ n \in Nat /\ DOMAIN l[d] = 1..n /\ DOMAIN l2[d] = 1..(n + 1)
        /\ l2[d][n + 1] = row /\ \A i \in 1..n : l2[d][i] = l[d][i]
        /\ \A e \in Devs : e # d => l2[e] = l[e]
    BY AddRowFacts
  <1> HIDE DEF l2, n
  <1>2. ASSUME NEW e \in Devs, NEW i \in DOMAIN l2[e] PROVE l2[e][i] \in A[e]
    <2>1. CASE e # d
      BY <1>1, <1>2, <2>1 DEF RowsIn
    <2>2. CASE e = d /\ i \in 1..n
      BY <1>1, <1>2, <2>2 DEF RowsIn
    <2>3. CASE e = d /\ i = n + 1
      BY <1>1, <1>2, <2>3
    <2> QED BY <1>1, <1>2, <2>1, <2>2, <2>3
  <1> QED BY <1>2 DEF RowsIn, l2

(* A row stays explained: its request is settled, and keeps what it read.  *)
LEMMA ExplainedStays ==
    ASSUME TypeInv, [Next]_vars, NEW d \in Devs, NEW row, Explained(d, row)
    PROVE  Explained(d, row)'
  <1>1. call' = call
    <2> Reqs = {} => call' = call
      BY DEF TypeInv, TypeOK, Next, vars
    <2> QED BY RequestStep
  <1>2. ASSUME NEW r \in Reqs, pc[r] \in Settled
        PROVE  /\ pc'[r] \in Settled /\ FundRow(r)' = FundRow(r)
               /\ DebitRow(r)' = DebitRow(r) /\ RecipientRow(r)' = RecipientRow(r)
    BY <1>1, <1>2, SettledStays DEF FundRow, DebitRow, RecipientRow, Credit, Debit
  <1>3. OpeningRow(d)' = OpeningRow(d)
    BY DEF OpeningRow, Credit, NewWallet
  <1> QED BY <1>1, <1>2, <1>3 DEF Explained

LedgerInv == RowsIn(ledger, Justified)

(* At the start the ledger holds the opening rows.                         *)
LEMMA LedgerInit == Init => LedgerInv
  <1> SUFFICES ASSUME Init, NEW d \in Devs, NEW i \in DOMAIN ledger[d]
               PROVE  ledger[d][i] \in Justified[d]
    BY DEF LedgerInv, RowsIn
  <1>1. ledger[d][i] = OpeningRow(d) /\ d \in Opened
    BY DEF Init
  <1>2. OpeningRow(d) \in LedgerRow
    BY <1>1, OpeningType
  <1>3. Explained(d, OpeningRow(d))
    BY DEF Explained, OpeningRow, Credit
  <1> QED BY <1>1, <1>2, <1>3 DEF Justified

(* Every commit books rows that it explains.                               *)
LEMMA LedgerNext == TypeInv /\ LedgerInv /\ [Next]_vars => LedgerInv'
  <1> SUFFICES ASSUME TypeInv, LedgerInv, [Next]_vars PROVE RowsIn(ledger', Justified')
    BY DEF LedgerInv, RowsIn
  <1>1. \A d \in Devs : Justified[d] \subseteq Justified'[d]
    BY ExplainedStays DEF Justified
  <1>2. RowsIn(ledger, Justified')
    BY <1>1 DEF LedgerInv, RowsIn
  <1>3. ASSUME NEW r \in Reqs, Commits(r) PROVE RowsIn(ledger', Justified')
    <2>0. /\ ledger \in [Devs -> Seq(LedgerRow)] /\ call[r].dev \in Devs /\ call' = call
          /\ call[r].op = "transfer" => call[r].to \in Devs
          /\ FundRow(r) \in LedgerRow /\ DebitRow(r) \in LedgerRow /\ RecipientRow(r) \in LedgerRow
          /\ pc'[r] \in Settled /\ FundRow(r)' = FundRow(r)
          /\ DebitRow(r)' = DebitRow(r) /\ RecipientRow(r)' = RecipientRow(r)
      BY <1>3, CommitBooks DEF Goto, Settled, FundRow, DebitRow, RecipientRow, Credit, Debit,
         TypeInv, TypeOK
    <2>1. /\ call[r].op = "fund" => FundRow(r) \in Justified'[call[r].dev]
          /\ call[r].op \in {"withdraw", "transfer"} => DebitRow(r) \in Justified'[call[r].dev]
          /\ call[r].op = "transfer" => RecipientRow(r) \in Justified'[call[r].to]
      BY <2>0 DEF Justified, Explained
    <2>2. CASE BooksOne(r, FundRow(r)) /\ call[r].op = "fund"
      BY <1>2, <2>0, <2>1, <2>2, AddAllowed DEF BooksOne
    <2>3. CASE BooksOne(r, DebitRow(r)) /\ call[r].op = "withdraw"
      BY <1>2, <2>0, <2>1, <2>3, AddAllowed DEF BooksOne
    <2>4. CASE BooksTwo(r) /\ call[r].op = "transfer"
      <3> DEFINE logged == AddRow(ledger, call[r].dev, DebitRow(r))
      <3>1. ledger' = AddRow(logged, call[r].to, RecipientRow(r))
        BY <2>4 DEF BooksTwo
      <3>2. logged \in [Devs -> Seq(LedgerRow)] /\ RowsIn(logged, Justified')
        BY <1>2, <2>0, <2>1, <2>4, AddAllowed, AddRowType
      <3> HIDE DEF logged
      <3> QED BY <2>0, <2>1, <2>4, <3>1, <3>2, AddAllowed
    <2> QED BY <1>3, <2>2, <2>3, <2>4, CommitBooks
  <1>4. CASE BooksUnchanged
    BY <1>2, <1>4 DEF BooksUnchanged
  <1> QED BY <1>3, <1>4, OnlyCommitsMoveMoney

(* What a row says of its request.                                         *)
LEMMA RowFacts ==
    ASSUME TypeInv, LedgerInv, NEW d \in Devs, NEW i \in DOMAIN ledger[d]
    PROVE  LET row == ledger[d][i] IN
           /\ row.ref \in Reqs =>
                /\ pc[row.ref] \in Settled
                /\ row.key \in {NoKey, call[row.ref].key}
                /\ row.amount = call[row.ref].amount
           /\ row.type = "DEBIT" =>
                /\ row.ref \in Reqs /\ call[row.ref].dev = d
                /\ call[row.ref].op \in {"withdraw", "transfer"}
           /\ row.ref \notin Reqs => row.key = NoKey
  <1> DEFINE row == ledger[d][i]
  <1>1. Explained(d, row)
    BY DEF LedgerInv, RowsIn, Justified
  <1> HIDE DEF row
  <1>2. CASE row = OpeningRow(d)
    BY <1>2, WalletAssumption DEF OpeningRow, Credit, row
  <1>3. ASSUME NEW r \in Reqs, pc[r] \in Settled, call[r].op = "fund" /\ row = FundRow(r)
        PROVE  /\ row.ref = r /\ row.type = "CREDIT"
               /\ row.amount = call[r].amount /\ row.key = call[r].key
    BY <1>3 DEF FundRow, Credit
  <1>4. ASSUME NEW r \in Reqs, row = DebitRow(r)
        PROVE  row.ref = r /\ row.amount = call[r].amount /\ row.key = call[r].key
    BY <1>4 DEF DebitRow, Debit
  <1>5. ASSUME NEW r \in Reqs, row = RecipientRow(r)
        PROVE  row.ref = r /\ row.type = "CREDIT" /\ row.amount = call[r].amount /\ row.key = NoKey
    BY <1>5 DEF RecipientRow, Credit
  <1> QED BY <1>1, <1>2, <1>3, <1>4, <1>5 DEF Explained, row

-----------------------------------------------------------------------------
(* Answers.  A money operation never reaches the labels of the PIN and     *)
(* unlock handlers, its "reply" comes from its commit, and a "duplicate"   *)
(* has seen its key in the ledger, where rows never go away.               *)
AnswerOf(r) ==
    /\ pc[r] \notin {"savePin", "unlock", "audit"}
    /\ pc[r] \in {"reply", "ok"} => Posted(r)
    /\ pc[r] \in {"idem", "duplicate"} => call[r].key \in Keys
    /\ pc[r] = "duplicate" => KeyUsed(call[r].key)

AnswerInv == \A r \in Reqs : call[r].op \in MoneyOps => AnswerOf(r)

(* Where the checks after a read send a money operation.                   *)
LEMMA AfterReadMoney ==
    ASSUME NEW c, NEW row, c.op \in MoneyOps
    PROVE  AfterRead(c, row) \in {"locked", "commit", "noPin", "reset", "pinFail"}
  BY DEF AfterRead, MoneyOps

LEMMA AfterResetMoney ==
    ASSUME NEW c, NEW row
    PROVE  AfterReset(c, row) \in {"insufficient", "findTo", "commit"}
  BY DEF AfterReset

(* A key that is in the ledger stays there.                                *)
LEMMA KeyStays ==
    ASSUME TypeInv, [Next]_vars, NEW key, KeyUsed(key)
    PROVE  KeyUsed(key)'
  <1>1. KeyUsed(key) = HoldsKey(ledger, key) /\ KeyUsed(key)' = HoldsKey(ledger', key)
    BY DEF KeyUsed, HoldsKey
  <1>2. CASE BooksUnchanged
    BY <1>1, <1>2 DEF BooksUnchanged
  <1>3. ASSUME NEW r \in Reqs, Commits(r) PROVE HoldsKey(ledger', key)
    BY <1>1, <1>3, CommitRows
  <1> QED BY <1>1, <1>2, <1>3, OnlyCommitsMoveMoney

LEMMA AnswerNext == TypeInv /\ AnswerInv /\ [Next]_vars => AnswerInv'
  <1> SUFFICES ASSUME TypeInv, AnswerInv, [Next]_vars, NEW r \in Reqs, call'[r].op \in MoneyOps
               PROVE  AnswerOf(r)'
    BY DEF AnswerInv
  <1>c. call' = call /\ call[r].op \in MoneyOps
    BY RequestStep
  <1>o. AnswerOf(r)
    BY <1>c DEF AnswerInv
  <1>p. /\ Posted(r) => Posted(r)'
        /\ KeyUsed(call[r].key) => KeyUsed(call[r].key)'
    <2>1. \A key : KeyUsed(key) => KeyUsed(key)'
      BY KeyStays
    <2> QED BY <2>1, <1>c, PostedStep DEF KeyUsed
  <1>m. ASSUME NEW label, Goto(r, label),
               label \notin {"savePin", "unlock", "audit", "reply", "ok", "idem", "duplicate"}
        PROVE  AnswerOf(r)'
    BY <1>m, <1>c DEF Goto, AnswerOf, TypeInv, TypeOK
  <1>1. CASE pc'[r] = pc[r]
    BY <1>1, <1>c, <1>o, <1>p DEF AnswerOf
  <1>2. CASE Arrive(r)
    BY <1>2, <1>c DEF Arrive, Goto, AnswerOf, TypeInv, TypeOK
  <1>3. CASE CheckKey(r)
    <2>1. call[r].key \in Keys
      BY <1>3, <1>o DEF CheckKey, AnswerOf
    <2>2. \/ pc'[r] = "duplicate" /\ KeyUsed(call[r].key)
          \/ pc'[r] = "find"
      BY <1>3 DEF CheckKey, Goto, TypeInv, TypeOK
    <2> QED BY <2>1, <2>2, <1>c, <1>p DEF AnswerOf
  <1>4. CASE FindWallet(r) \/ CreateWallet(r)
    <2>1. PICK label : /\ Goto(r, label)
                       /\ \/ label \in {"notFound", "create", "failed"}
                          \/ \E row : label = AfterRead(call[r], row)
      BY <1>4 DEF FindWallet, CreateWallet, Lands
    <2> QED BY <2>1, <1>c, <1>m, AfterReadMoney
  <1>5. CASE ResetAttempts(r)
    <2>1. PICK label \in {AfterReset(call[r], snap[r]), "failed"} : Goto(r, label)
      BY <1>5 DEF ResetAttempts, Lands
    <2> QED BY <1>m, <2>1, AfterResetMoney
  <1>6. CASE Commits(r)
    BY <1>6, <1>c, PostedStep DEF AnswerOf
  <1>7. CASE \/ HandleFailedPin(r) \/ FindRecipient(r) \/ CreateRecipient(r) \/ KeyConflict(r)
             \/ Fail(r)
    <2>1. PICK label \in {"badPin", "failed", "commit", "createTo"} : Goto(r, label)
      BY <1>7 DEF HandleFailedPin, FindRecipient, CreateRecipient, KeyConflict, Fail, Lands
    <2> QED BY <1>m, <2>1
  <1>8. CASE Reply(r)
    BY <1>8, <1>c, <1>o, <1>p DEF Reply, Goto, AnswerOf, TypeInv, TypeOK
  <1>9. CASE SavePin(r) \/ Unlock(r) \/ WriteAudit(r)
    BY <1>9, <1>o DEF SavePin, Unlock, WriteAudit, AnswerOf
  <1> QED
    BY <1>1, <1>2, <1>3, <1>4, <1>5, <1>6, <1>7, <1>8, <1>9, RequestStep DEF Handle, Commits

LEMMA AnswerInit == Init => AnswerInv
  BY DEF Init, AnswerInv, AnswerOf

LEMMA AnswersAgree == TypeInv /\ LedgerInv /\ AnswerInv => AnswerMatchesLedger
  <1> SUFFICES ASSUME TypeInv, LedgerInv, AnswerInv, NEW r \in Reqs, call[r].op \in MoneyOps
               PROVE  /\ pc[r] \in {"reply", "ok"} => Posted(r)
                      /\ pc[r] \notin {"reply", "ok", "failed"} => ~Posted(r)
                      /\ pc[r] = "duplicate" =>
                           \E s \in Reqs : call[s].key = call[r].key /\ Posted(s)
    BY DEF AnswerMatchesLedger
  <1>1. AnswerOf(r)
    BY DEF AnswerInv
  <1>2. Posted(r) => pc[r] \in Settled
    BY RowFacts DEF Posted
  <1>3. ASSUME pc[r] = "duplicate"
        PROVE  \E s \in Reqs : call[s].key = call[r].key /\ Posted(s)
    <2>0. PICK d \in Devs : \E i \in DOMAIN ledger[d] : ledger[d][i].key = call[r].key
      BY <1>1, <1>3 DEF AnswerOf, KeyUsed
    <2>1. PICK i \in DOMAIN ledger[d] : ledger[d][i].key = call[r].key
      BY <2>0
    <2>2. call[r].key # NoKey
      BY <1>1, <1>3, WalletAssumption DEF AnswerOf
    <2>3. ledger[d][i].ref \in Reqs /\ call[ledger[d][i].ref].key = call[r].key
      BY <2>1, <2>2, RowFacts
    <2> QED BY <2>1, <2>3 DEF Posted
  <1> QED BY <1>1, <1>2, <1>3 DEF AnswerOf, Settled

(* The AuditLog.  A request at the audit call has made its change, and no  *)
(* other handler comes near that call: a request is in the log exactly     *)
(* when it passed it.                                                      *)
AuditOf(r) ==
    /\ pc[r] = "savePin" => call[r].op \in {"setPin", "changePin"}
    /\ pc[r] = "unlock" => call[r].op = "unlock"
    /\ pc[r] = "audit" => call[r].op \in Audited
    /\ call[r].op \in Audited /\ pc[r] \in {"reply", "ok"} => r \in audit
    /\ r \in audit => call[r].op \in Audited /\ pc[r] \in {"reply", "ok", "failed"}

AuditInv == \A r \in Reqs : AuditOf(r)

LEMMA AuditStep ==
    ASSUME TypeInv, [Next]_vars, NEW x \in Reqs
    PROVE  x \in audit' <=> x \in audit \/ WriteAudit(x)
  <1>1. CASE UNCHANGED vars
    BY <1>1 DEF vars, WriteAudit, Goto, TypeInv, TypeOK
  <1>2. ASSUME NEW r \in Reqs, WriteAudit(r)
        PROVE  x \in audit' <=> x \in audit \/ WriteAudit(x)
    BY <1>2 DEF WriteAudit
  <1>3. ASSUME NEW r \in Reqs, Arrive(r) \/ Fail(r) \/ Handle(r), ~WriteAudit(r)
        PROVE  audit' = audit
    BY <1>3 DEF Arrive, Fail, Handle, CheckKey, FindWallet, CreateWallet, HandleFailedPin,
       ResetAttempts, FindRecipient, CreateRecipient, Fund, Withdraw, Transfer, KeyConflict,
       SavePin, Unlock, Reply, Lands
  <1>4. WriteAudit(x) => x \in audit'
    BY DEF WriteAudit
  <1> QED BY <1>1, <1>2, <1>3, <1>4 DEF Next

(* Where the checks after a read send the handlers that audit.             *)
LEMMA AfterReadLabel ==
    ASSUME NEW c, NEW row
    PROVE  LET label == AfterRead(c, row) IN
           /\ label \notin {"audit", "reply"}
           /\ label = "savePin" => c.op \in {"setPin", "changePin"}
           /\ label = "unlock" => c.op = "unlock"
           /\ label = "ok" => c.op \notin Audited
  BY DEF AfterRead, Audited

LEMMA AuditNext == TypeInv /\ AuditInv /\ [Next]_vars => AuditInv'
  <1> SUFFICES ASSUME TypeInv, AuditInv, [Next]_vars, NEW r \in Reqs
               PROVE  AuditOf(r)'
    BY DEF AuditInv
  <1>o. call' = call /\ AuditOf(r)
    BY RequestStep DEF AuditInv
  <1>a. r \in audit' <=> r \in audit \/ WriteAudit(r)
    BY AuditStep
  <1>m. ASSUME NEW label, Goto(r, label), ~WriteAudit(r), pc[r] \notin {"reply", "ok", "failed"},
               label \notin {"audit", "reply"},
               label = "savePin" => call[r].op \in {"setPin", "changePin"},
               label = "unlock" => call[r].op = "unlock",
               label = "ok" => call[r].op \notin Audited
        PROVE  AuditOf(r)'
    <2>1. pc'[r] = label /\ r \notin audit'
      BY <1>m, <1>o, <1>a DEF Goto, AuditOf, TypeInv, TypeOK
    <2> QED BY <2>1, <1>m, <1>o DEF AuditOf
  <1>1. CASE pc'[r] = pc[r] /\ ~WriteAudit(r)
    BY <1>1, <1>o, <1>a DEF AuditOf
  <1>2. CASE FindWallet(r) \/ CreateWallet(r)
    <2>1. PICK label : /\ Goto(r, label) /\ pc[r] \in {"find", "create"}
                       /\ \/ label \in {"notFound", "create", "failed"}
                          \/ \E row : label = AfterRead(call[r], row)
      BY <1>2 DEF FindWallet, CreateWallet, Lands
    <2>2. /\ label \notin {"audit", "reply"}
          /\ label = "savePin" => call[r].op \in {"setPin", "changePin"}
          /\ label = "unlock" => call[r].op = "unlock"
          /\ label = "ok" => call[r].op \notin Audited
      BY <2>1, AfterReadLabel
    <2> QED BY <2>1, <2>2, <1>m DEF WriteAudit
  <1>3. CASE ResetAttempts(r)
    <2>1. AfterReset(call[r], snap[r]) \in {"insufficient", "findTo", "commit"}
      BY AfterResetMoney
    <2>2. PICK label \in {AfterReset(call[r], snap[r]), "failed"} : Goto(r, label)
      BY <1>3 DEF ResetAttempts, Lands
    <2> QED BY <1>3, <2>1, <2>2, <1>m DEF ResetAttempts, WriteAudit
  <1>4. CASE Commits(r)
    <2>1. pc[r] = "commit" /\ pc'[r] = "reply" /\ call[r].op \notin Audited
      BY <1>4, PostedStep DEF Commits, Fund, Withdraw, Transfer, Audited
    <2> QED BY <2>1, <1>o, <1>a DEF AuditOf, WriteAudit
  <1>5. CASE \/ Arrive(r) \/ CheckKey(r) \/ HandleFailedPin(r) \/ FindRecipient(r)
             \/ CreateRecipient(r) \/ KeyConflict(r)
    BY <1>5, <1>m DEF Arrive, CheckKey, HandleFailedPin, FindRecipient, CreateRecipient,
                      KeyConflict, WriteAudit, Lands
  <1>6. CASE SavePin(r) \/ Unlock(r)
    <2>1. /\ pc[r] \in {"savePin", "unlock"}
          /\ \/ pc'[r] = "audit" /\ call[r].op \in Audited
             \/ pc'[r] = "reply" /\ call[r].op \notin Audited
      BY <1>6, <1>o DEF SavePin, Unlock, Goto, AuditOf, Audited, TypeInv, TypeOK
    <2> QED BY <2>1, <1>o, <1>a DEF AuditOf, WriteAudit
  <1>7. CASE WriteAudit(r)
    <2>1. pc[r] = "audit" /\ pc'[r] = "reply" /\ r \in audit'
      BY <1>7 DEF WriteAudit, Goto, TypeInv, TypeOK
    <2> QED BY <2>1, <1>o DEF AuditOf
  <1>8. CASE Reply(r) \/ Fail(r)
    <2>1. /\ pc'[r] = "failed" \/ (pc[r] = "reply" /\ pc'[r] = "ok")
          /\ r \in audit' => r \in audit \/ pc[r] = "audit"
      BY <1>8, <1>a DEF Reply, Fail, WriteAudit, Goto, TypeInv, TypeOK
    <2>2. r \in audit => r \in audit'
      BY <1>a
    <2> QED BY <2>1, <2>2, <1>o DEF AuditOf
  <1> QED
    BY <1>1, <1>2, <1>3, <1>4, <1>5, <1>6, <1>7, <1>8, RequestStep DEF Handle, Commits

LEMMA AuditInit == Init => AuditInv
  BY DEF Init, AuditInv, AuditOf

(* The answer that a client reads agrees with the records: "ok" has its    *)
(* rows in the ledger and, for a PIN change or an unlock, in the AuditLog; *)
(* a refusal has none in either; and "Duplicate request" is said only when *)
(* a request with the same key moved the money.                            *)
THEOREM AnswersMatchRecords == Spec => []AnswerMatchesRecords
  <1>1. Init => TypeInv /\ LedgerInv /\ AnswerInv /\ AuditInv
    BY TypeInit, LedgerInit, AnswerInit, AuditInit
  <1>2. /\ TypeInv /\ LedgerInv /\ AnswerInv /\ AuditInv
        /\ [Next]_vars
        => (TypeInv /\ LedgerInv /\ AnswerInv /\ AuditInv)'
    BY TypeNext, LedgerNext, AnswerNext, AuditNext
  <1>3. AuditInv => AuditMatchesAnswer
    BY DEF AuditInv, AuditOf, AuditMatchesAnswer
  <1>4. TypeInv /\ LedgerInv /\ AnswerInv /\ AuditInv => AnswerMatchesRecords
    BY <1>3, AnswersAgree DEF AnswerMatchesRecords
  <1> QED BY <1>1, <1>2, <1>4, PTL DEF Spec

-----------------------------------------------------------------------------
(* Authorisation.  A debit past its PIN check holds the row it checked, of *)
(* an unlocked wallet with that PIN; past its balance check it asks for no *)
(* more than that row holds; and it keeps the row until it has posted.     *)
DebitOps == {"withdraw", "transfer"}

Checked(r) ==
    /\ snap[r].pin = call[r].pin /\ ~snap[r].isLocked
    /\ pc[r] # "reset" => call[r].amount <= snap[r].balance

Cleared == {"reset", "findTo", "createTo", "commit"}

AuthOf(r) == pc[r] \in Cleared \/ Posted(r) => Checked(r)

AuthInv == \A r \in Reqs : call[r].op \in DebitOps => AuthOf(r)

(* A posted request is past its commit.                                    *)
LEMMA PostedSettled ==
    ASSUME TypeInv, LedgerInv, NEW r \in Reqs, Posted(r)
    PROVE  pc[r] \in Settled
  BY RowFacts DEF Posted

(* The checks that a debit passes before its count is reset, and after.    *)
LEMMA AfterReadDebit ==
    ASSUME NEW c, NEW row, c.op \in DebitOps
    PROVE  /\ AfterRead(c, row) \in {"locked", "noPin", "reset", "pinFail"}
           /\ AfterRead(c, row) = "reset" => c.pin = row.pin /\ ~row.isLocked
  BY DEF AfterRead, MoneyOps, DebitOps

LEMMA AfterResetDebit ==
    ASSUME NEW c \in CallType, NEW row \in WalletRow, AfterReset(c, row) # "insufficient"
    PROVE  AfterReset(c, row) \in Cleared \ {"reset"} /\ c.amount <= row.balance
  BY DEF AfterReset, CallType, WalletRow, Cleared

LEMMA AuthNext == TypeInv /\ LedgerInv /\ AuthInv /\ [Next]_vars => AuthInv'
  <1> SUFFICES ASSUME TypeInv, LedgerInv, AuthInv, [Next]_vars, NEW r \in Reqs,
                      call'[r].op \in DebitOps, pc'[r] \in Cleared \/ Posted(r)'
               PROVE  Checked(r)'
    BY DEF AuthInv, AuthOf
  <1>c. call' = call /\ call[r].op \in DebitOps
    BY RequestStep
  <1>o. AuthOf(r)
    BY <1>c DEF AuthInv
  <1>t. /\ call[r] \in CallType /\ snap[r] \in WalletRow
        /\ pc \in [Reqs -> {"new"} \cup Waiting \cup Answers]
    BY CallFields DEF TypeInv, TypeOK
  <1>1. CASE Posted(r)
    <2>1. pc[r] \in Settled /\ pc'[r] \in Settled /\ snap'[r] = snap[r]
      BY <1>1, PostedSettled, SettledStays
    <2> QED BY <1>1, <1>c, <1>o, <2>1 DEF AuthOf, Checked, Settled
  <1>2. CASE Commits(r)
    <2>1. pc[r] = "commit" /\ pc'[r] = "reply" /\ snap'[r] = snap[r]
      BY <1>2, PostedStep
    <2> QED BY <1>c, <1>o, <2>1 DEF AuthOf, Checked, Cleared
  <1>3. CASE ~Posted(r) /\ ~Commits(r)
    <2>1. pc'[r] \in Cleared
      BY <1>3, PostedStep
    <2>2. CASE pc'[r] = pc[r] /\ snap'[r] = snap[r]
      BY <1>c, <1>o, <2>1, <2>2 DEF AuthOf, Checked
    <2>3. CASE FindWallet(r)
      <3>1. CASE call[r].dev \in created
        <4>1. /\ snap'[r] = wallet[call[r].dev]
              /\ pc'[r] = AfterRead(call[r], wallet[call[r].dev])
          BY <2>3, <3>1 DEF FindWallet, Goto, TypeInv, TypeOK
        <4> QED BY <1>c, <2>1, <4>1, AfterReadDebit DEF Checked, Cleared
      <3>2. CASE call[r].dev \notin created
        BY <1>t, <2>1, <2>3, <3>2 DEF FindWallet, Goto, Cleared
      <3> QED BY <3>1, <3>2
    <2>4. CASE CreateWallet(r)
      <3>1. CASE call[r].dev \notin created
        <4>1. snap'[r] = NewWallet /\ pc'[r] \in {AfterRead(call[r], NewWallet), "failed"}
          BY <2>4, <3>1 DEF CreateWallet, Goto, TypeInv, TypeOK, Lands
        <4> QED BY <1>c, <2>1, <4>1, AfterReadDebit DEF Checked, Cleared
      <3>2. CASE call[r].dev \in created
        BY <1>t, <2>1, <2>4, <3>2 DEF CreateWallet, Goto, Cleared, Lands
      <3> QED BY <3>1, <3>2
    <2>5. CASE ResetAttempts(r)
      <3>1. /\ pc[r] = "reset" /\ snap'[r] = snap[r]
            /\ pc'[r] \in {AfterReset(call[r], snap[r]), "failed"}
        BY <2>5, <1>t DEF ResetAttempts, Goto, Lands
      <3> QED BY <1>c, <1>o, <1>t, <2>1, <3>1, AfterResetDebit DEF AuthOf, Checked, Cleared
    <2>6. CASE FindRecipient(r) \/ CreateRecipient(r)
      <3>1. /\ pc[r] \in {"findTo", "createTo"} /\ snap'[r] = snap[r]
            /\ pc'[r] # "reset"
        BY <2>6, <1>t DEF FindRecipient, CreateRecipient, Goto
      <3> QED BY <1>c, <1>o, <3>1 DEF AuthOf, Checked, Cleared
    <2>7. CASE \/ Arrive(r) \/ CheckKey(r) \/ HandleFailedPin(r) \/ KeyConflict(r)
               \/ SavePin(r) \/ Unlock(r) \/ WriteAudit(r) \/ Reply(r) \/ Fail(r)
      BY <1>t, <2>1, <2>7 DEF Arrive, CheckKey, HandleFailedPin, KeyConflict, SavePin, Unlock,
         WriteAudit, Reply, Fail, Goto, Cleared, Lands
    <2> QED
      BY <1>3, <2>2, <2>3, <2>4, <2>5, <2>6, <2>7, RequestStep DEF Handle, Commits
  <1> QED BY <1>1, <1>2, <1>3

(* At the start the ledger holds no row of a request.                      *)
LEMMA NothingPosted == Init => \A r \in Reqs : ~Posted(r)
  <1> SUFFICES ASSUME Init, NEW r \in Reqs PROVE ~Posted(r)
    OBVIOUS
  <1>1. ASSUME NEW d \in Devs, NEW i \in DOMAIN ledger[d] PROVE ledger[d][i].ref = OpeningRef
    <2>1. ledger[d][i] = OpeningRow(d)
      BY <1>1 DEF Init
    <2> QED BY <2>1 DEF OpeningRow, Credit
  <1> QED BY <1>1, WalletAssumption DEF Posted

LEMMA AuthInit == Init => AuthInv
  BY NothingPosted DEF Init, AuthInv, AuthOf, Cleared

(* Whatever interleaves, a debit row is its owner's request, made with the *)
(* PIN of an unlocked wallet, for no more than the row that was read held. *)
THEOREM DebitsAreAuthorised == Spec => []DebitsAuthorised
  <1>1. Init => TypeInv /\ LedgerInv /\ AuthInv
    BY TypeInit, LedgerInit, AuthInit
  <1>2. TypeInv /\ LedgerInv /\ AuthInv /\ [Next]_vars => (TypeInv /\ LedgerInv /\ AuthInv)'
    BY TypeNext, LedgerNext, AuthNext
  <1>3. TypeInv /\ LedgerInv /\ AuthInv => DebitsAuthorised
    <2> SUFFICES ASSUME TypeInv, LedgerInv, AuthInv, NEW d \in Devs, NEW i \in DOMAIN ledger[d],
                        ledger[d][i].type = "DEBIT"
                 PROVE  LET row == ledger[d][i] IN
                        /\ row.ref \in Reqs
                        /\ call[row.ref].dev = d /\ call[row.ref].op \in {"withdraw", "transfer"}
                        /\ snap[row.ref].pin = call[row.ref].pin /\ ~snap[row.ref].isLocked
                        /\ row.amount <= snap[row.ref].balance
      BY DEF DebitsAuthorised
    <2> DEFINE r == ledger[d][i].ref
    <2>1. /\ r \in Reqs /\ call[r].dev = d /\ call[r].op \in {"withdraw", "transfer"}
          /\ ledger[d][i].amount = call[r].amount /\ pc[r] \in Settled /\ Posted(r)
      BY RowFacts DEF Posted
    <2> HIDE DEF r
    <2>2. Checked(r) /\ pc[r] # "reset"
      BY <2>1 DEF AuthInv, AuthOf, DebitOps, Settled
    <2> QED BY <2>1, <2>2 DEF Checked, r
  <1> QED BY <1>1, <1>2, <1>3, PTL DEF Spec

-----------------------------------------------------------------------------
(* The legs of a request, counted in the tables l: where its rows of one   *)
(* type stand in a wallet, and that there is one, of the given amount.     *)
LegsAt(l, d, r, type) == {i \in DOMAIN l[d] : l[d][i].ref = r /\ l[d][i].type = type}

OneLeg(l, d, r, type, amount) ==
    \E i \in DOMAIN l[d] : LegsAt(l, d, r, type) = {i} /\ l[d][i].amount = amount

(* A new row moves no row that is there.                                   *)
LEMMA AddKeeps ==
    ASSUME NEW l \in [Devs -> Seq(LedgerRow)], NEW e \in Devs, NEW row \in LedgerRow,
           NEW d \in Devs, NEW i \in DOMAIN l[d]
    PROVE  i \in DOMAIN AddRow(l, e, row)[d] /\ AddRow(l, e, row)[d][i] = l[d][i]
  <1> DEFINE l2 == AddRow(l, e, row)
             n == Len(l[e])
  <1>1. /\ n \in Nat /\ DOMAIN l[e] = 1..n /\ DOMAIN l2[e] = 1..(n + 1)
        /\ \A j \in 1..n : l2[e][j] = l[e][j]
        /\ \A f \in Devs : f # e => l2[f] = l[f]
    BY AddRowFacts
  <1>2. 1..n \subseteq 1..(n + 1)
    BY <1>1
  <1> HIDE DEF l2, n
  <1> QED BY <1>1, <1>2 DEF l2

(* It is one more leg of its request and type, in its wallet.              *)
LEMMA AddLeg ==
    ASSUME NEW l \in [Devs -> Seq(LedgerRow)], NEW e \in Devs, NEW row \in LedgerRow,
           NEW d \in Devs, NEW r, NEW type
    PROVE  LegsAt(AddRow(l, e, row), d, r, type) =
                IF d = e /\ row.ref = r /\ row.type = type
                THEN LegsAt(l, d, r, type) \cup {Len(l[d]) + 1} ELSE LegsAt(l, d, r, type)
  <1> DEFINE l2 == AddRow(l, e, row)
             n == Len(l[e])
  <1>1. /\ n \in Nat /\ DOMAIN l[e] = 1..n /\ DOMAIN l2[e] = 1..(n + 1)
        /\ l2[e][n + 1] = row /\ \A i \in 1..n : l2[e][i] = l[e][i]
        /\ \A f \in Devs : f # e => l2[f] = l[f]
    <2>1. n \in Nat /\ DOMAIN l[e] = 1..n /\ DOMAIN l2[e] = 1..(n + 1)
      BY AddRowFacts
    <2>2. l2[e][n + 1] = row
      BY AddRowFacts
    <2>3. \A i \in 1..n : l2[e][i] = l[e][i]
      BY AddRowFacts
    <2>4. \A f \in Devs : f # e => l2[f] = l[f]
      BY DEF AddRow
    <2> QED BY <2>1, <2>2, <2>3, <2>4
  <1>2. 1..n \subseteq 1..(n + 1) /\ \A i \in 1..(n + 1) : i \in 1..n \/ i = n + 1
    BY <1>1
  <1>3. n + 1 \in 1..(n + 1)
    BY <1>1
  <1> HIDE DEF l2
  <1>4. CASE d # e
    BY <1>1, <1>4 DEF LegsAt, l2
  <1>5. CASE d = e
    <2> HIDE DEF n
    <2>1. LegsAt(l2, d, r, type) = IF row.ref = r /\ row.type = type
                                   THEN LegsAt(l, d, r, type) \cup {n + 1}
                                   ELSE LegsAt(l, d, r, type)
      BY <1>1, <1>2, <1>3, <1>5 DEF LegsAt
    <2> QED BY <1>5, <2>1 DEF l2, n
  <1> QED BY <1>4, <1>5

(* The first row of its request and type in a wallet is that leg.          *)
LEMMA NewLeg ==
    ASSUME NEW l \in [Devs -> Seq(LedgerRow)], NEW d \in Devs, NEW row \in LedgerRow,
           LegsAt(l, d, row.ref, row.type) = {}
    PROVE  OneLeg(AddRow(l, d, row), d, row.ref, row.type, row.amount)
  <1>1. LegsAt(AddRow(l, d, row), d, row.ref, row.type) = {Len(l[d]) + 1}
    BY AddLeg
  <1>2. /\ AddRow(l, d, row)[d][Len(l[d]) + 1] = row
        /\ Len(l[d]) + 1 \in DOMAIN AddRow(l, d, row)[d]
    BY AddRowFacts
  <1> QED BY <1>1, <1>2 DEF OneLeg

(* A row of another request, or of the other type, disturbs no leg.        *)
LEMMA OtherLeg ==
    ASSUME NEW l \in [Devs -> Seq(LedgerRow)], NEW e \in Devs, NEW row \in LedgerRow,
           NEW d \in Devs, NEW r, NEW type, NEW amount, OneLeg(l, d, r, type, amount),
           row.ref # r \/ row.type # type
    PROVE  OneLeg(AddRow(l, e, row), d, r, type, amount)
  <1>1. PICK i \in DOMAIN l[d] : LegsAt(l, d, r, type) = {i} /\ l[d][i].amount = amount
    BY DEF OneLeg
  <1>2. LegsAt(AddRow(l, e, row), d, r, type) = {i}
    BY <1>1, AddLeg
  <1>3. i \in DOMAIN AddRow(l, e, row)[d] /\ AddRow(l, e, row)[d][i] = l[d][i]
    BY AddKeeps
  <1> QED BY <1>1, <1>2, <1>3 DEF OneLeg

TwoLegs(l, r) ==
    /\ OneLeg(l, call[r].dev, r, "DEBIT", call[r].amount)
    /\ OneLeg(l, call[r].to, r, "CREDIT", call[r].amount)

LegsInv == \A r \in Reqs :
    call[r].op = "transfer" /\ Posted(r) => call[r].to \in Devs /\ TwoLegs(ledger, r)

(* A transfer's own commit books its two legs, in one wallet or in two.    *)
LEMMA TransferBooksLegs ==
    ASSUME TypeInv, NEW r \in Reqs, Commits(r), call[r].op = "transfer", ~Posted(r)
    PROVE  call[r].to \in Devs /\ TwoLegs(ledger', r)
  <1> DEFINE c == call[r]
             logged == AddRow(ledger, c.dev, DebitRow(r))
  <1>1. /\ ledger \in [Devs -> Seq(LedgerRow)] /\ c.dev \in Devs /\ c.to \in Devs
        /\ DebitRow(r) \in LedgerRow /\ RecipientRow(r) \in LedgerRow
        /\ ledger' = AddRow(logged, c.to, RecipientRow(r))
    BY CommitBooks DEF BooksTwo, TypeInv, TypeOK
  <1>2. /\ DebitRow(r).ref = r /\ DebitRow(r).type = "DEBIT" /\ DebitRow(r).amount = c.amount
        /\ RecipientRow(r).ref = r /\ RecipientRow(r).type = "CREDIT"
        /\ RecipientRow(r).amount = c.amount
    BY DEF DebitRow, Debit, RecipientRow, Credit
  <1>3. \A d \in Devs, type \in {"DEBIT", "CREDIT"} : LegsAt(ledger, d, r, type) = {}
    BY DEF LegsAt, Posted
  <1>4. logged \in [Devs -> Seq(LedgerRow)]
    BY <1>1, AddRowType
  <1>5. OneLeg(logged, c.dev, r, "DEBIT", c.amount)
    BY <1>1, <1>2, <1>3, NewLeg
  <1>6. LegsAt(logged, c.to, r, "CREDIT") = {}
    BY <1>1, <1>2, <1>3, AddLeg
  <1> HIDE DEF logged, c
  <1>7. OneLeg(ledger', c.dev, r, "DEBIT", c.amount)
    BY <1>1, <1>2, <1>4, <1>5, OtherLeg
  <1>8. OneLeg(ledger', c.to, r, "CREDIT", c.amount)
    BY <1>1, <1>2, <1>4, <1>6, NewLeg
  <1> QED BY <1>1, <1>7, <1>8 DEF TwoLegs, c

(* Another request's commit leaves the legs of r as they are.              *)
LEMMA OthersKeepLegs ==
    ASSUME TypeInv, NEW r \in Reqs, NEW q \in Reqs, q # r, Commits(q),
           call[r].to \in Devs, TwoLegs(ledger, r)
    PROVE  TwoLegs(ledger', r)
  <1>1. /\ ledger \in [Devs -> Seq(LedgerRow)] /\ call[q].dev \in Devs /\ call[r].dev \in Devs
        /\ FundRow(q) \in LedgerRow /\ DebitRow(q) \in LedgerRow /\ RecipientRow(q) \in LedgerRow
        /\ FundRow(q).ref = q /\ DebitRow(q).ref = q /\ RecipientRow(q).ref = q
    BY CommitBooks, CallFields
       DEF TypeInv, TypeOK, FundRow, DebitRow, RecipientRow, Credit, Debit
  <1>2. ASSUME NEW l \in [Devs -> Seq(LedgerRow)], NEW e \in Devs, NEW row \in LedgerRow,
               row.ref = q, TwoLegs(l, r)
        PROVE  TwoLegs(AddRow(l, e, row), r)
    BY <1>1, <1>2, OtherLeg DEF TwoLegs
  <1>3. CASE BooksOne(q, FundRow(q)) \/ BooksOne(q, DebitRow(q))
    BY <1>1, <1>2, <1>3 DEF BooksOne
  <1>4. CASE BooksTwo(q) /\ call[q].op = "transfer"
    <2> DEFINE logged == AddRow(ledger, call[q].dev, DebitRow(q))
    <2>1. logged \in [Devs -> Seq(LedgerRow)] /\ TwoLegs(logged, r)
      BY <1>1, <1>2, AddRowType
    <2>2. ledger' = AddRow(logged, call[q].to, RecipientRow(q)) /\ call[q].to \in Devs
      BY <1>4, CommitBooks DEF BooksTwo
    <2> HIDE DEF logged
    <2> QED BY <1>1, <1>2, <2>1, <2>2
  <1> QED BY <1>3, <1>4, CommitBooks

LEMMA LegsNext == TypeInv /\ LedgerInv /\ LegsInv /\ [Next]_vars => LegsInv'
  <1> SUFFICES ASSUME TypeInv, LedgerInv, LegsInv, [Next]_vars, NEW r \in Reqs,
                      call'[r].op = "transfer", Posted(r)'
               PROVE  call'[r].to \in Devs /\ TwoLegs(ledger, r)'
    BY DEF LegsInv
  <1>c. call' = call
    BY RequestStep
  <1>d. TwoLegs(ledger, r)' = TwoLegs(ledger', r)
    BY <1>c DEF TwoLegs
  <1>1. CASE Posted(r)
    <2>1. call[r].to \in Devs /\ TwoLegs(ledger, r)
      BY <1>1, <1>c DEF LegsInv
    <2>2. ~Commits(r)
      BY <1>1, PostedSettled, PostedStep DEF Settled
    <2>3. CASE BooksUnchanged
      BY <1>c, <1>d, <2>1, <2>3 DEF BooksUnchanged
    <2> QED BY <1>c, <1>d, <2>1, <2>2, <2>3, OthersKeepLegs, OnlyCommitsMoveMoney
  <1>2. CASE ~Posted(r)
    BY <1>2, <1>c, <1>d, PostedStep, TransferBooksLegs
  <1> QED BY <1>1, <1>2

LEMMA LegsInit == Init => LegsInv
  BY NothingPosted DEF LegsInv

(* A transfer is booked on both sides or on neither, whatever runs beside  *)
(* it, also when sender and recipient are one wallet.                      *)
THEOREM TransfersBookBothLegs == Spec => []BothLegs
  <1>1. Init => TypeInv /\ LedgerInv /\ LegsInv
    BY TypeInit, LedgerInit, LegsInit
  <1>2. TypeInv /\ LedgerInv /\ LegsInv /\ [Next]_vars => (TypeInv /\ LedgerInv /\ LegsInv)'
    BY TypeNext, LedgerNext, LegsNext
  <1>3. LegsInv => BothLegs
    BY DEF LegsInv, BothLegs, TwoLegs, OneLeg, LegsAt, RowsOf
  <1> QED BY <1>1, <1>2, <1>3, PTL DEF Spec

-----------------------------------------------------------------------------
(* Where a row starts.  A balance that a request holds is one its wallet   *)
(* had, and the ledger still shows it: rows are never taken away.          *)
HadIn(l, d, b) == b = 0 \/ \E j \in DOMAIN l[d] : l[d][j].after = b

SourcedIn(l, d) ==
    \A i \in DOMAIN l[d] : \/ l[d][i].before = 0
                           \/ \E j \in 1 .. i - 1 : l[d][j].after = l[d][i].before

OriginOf(r) ==
    /\ HadIn(ledger, call[r].dev, snap[r].balance)
    /\ call[r].to \in Devs => HadIn(ledger, call[r].to, peer[r].balance)

OriginInv ==
    /\ \A r \in Reqs : OriginOf(r)
    /\ \A d \in Devs : SourcedIn(ledger, d)

LEMMA AddHad ==
    ASSUME NEW l \in [Devs -> Seq(LedgerRow)], NEW e \in Devs, NEW row \in LedgerRow,
           NEW d \in Devs, NEW b, HadIn(l, d, b)
    PROVE  HadIn(AddRow(l, e, row), d, b)
  BY AddKeeps DEF HadIn

LEMMA AddSourced ==
    ASSUME NEW l \in [Devs -> Seq(LedgerRow)], NEW e \in Devs, NEW row \in LedgerRow,
           HadIn(l, e, row.before), NEW d \in Devs, SourcedIn(l, d)
    PROVE  SourcedIn(AddRow(l, e, row), d)
  <1> DEFINE l2 == AddRow(l, e, row)
             n == Len(l[e])
  <1>1. /\ n \in Nat /\ DOMAIN l[e] = 1..n /\ DOMAIN l2[e] = 1..(n + 1)
        /\ l2[e][n + 1] = row /\ \A i \in 1..n : l2[e][i] = l[e][i]
        /\ \A f \in Devs : f # e => l2[f] = l[f]
    BY AddRowFacts
  <1> HIDE DEF l2, n
  <1>2. CASE d # e
    BY <1>1, <1>2 DEF SourcedIn, l2
  <1>3. CASE d = e
    <2> SUFFICES ASSUME NEW i \in 1..(n + 1), l2[e][i].before # 0
                 PROVE  \E j \in 1 .. i - 1 : l2[e][j].after = l2[e][i].before
      BY <1>1, <1>3 DEF SourcedIn, l2
    <2>1. CASE i = n + 1
      <3>1. PICK j \in 1..n : l[e][j].after = row.before
        BY <1>1, <2>1 DEF HadIn
      <3> QED BY <1>1, <2>1, <3>1
    <2>2. CASE i \in 1..n
      <3>1. PICK j \in 1 .. i - 1 : l[e][j].after = l[e][i].before
        BY <1>1, <1>3, <2>2 DEF SourcedIn
      <3>2. j \in 1..n
        BY <1>1, <2>2
      <3> QED BY <1>1, <2>2, <3>1, <3>2
    <2> QED BY <1>1, <2>1, <2>2
  <1> QED BY <1>2, <1>3

(* What a commit appends was computed from balances that were had.         *)
LEMMA CommitSourced ==
    ASSUME TypeInv, OriginInv, NEW r \in Reqs, Commits(r), NEW d \in Devs
    PROVE  /\ SourcedIn(ledger', d)
           /\ \A b : HadIn(ledger, d, b) => HadIn(ledger', d, b)
  <1> DEFINE c == call[r]
             logged == AddRow(ledger, c.dev, DebitRow(r))
  <1>1. /\ ledger \in [Devs -> Seq(LedgerRow)] /\ c.dev \in Devs
        /\ FundRow(r) \in LedgerRow /\ DebitRow(r) \in LedgerRow /\ RecipientRow(r) \in LedgerRow
        /\ FundRow(r).before = snap[r].balance /\ DebitRow(r).before = snap[r].balance
        /\ RecipientRow(r).before = peer[r].balance
    BY CommitBooks DEF TypeInv, TypeOK, FundRow, DebitRow, RecipientRow, Credit, Debit
  <1>2. /\ HadIn(ledger, c.dev, snap[r].balance) /\ SourcedIn(ledger, d)
        /\ c.to \in Devs => HadIn(ledger, c.to, peer[r].balance)
    BY DEF OriginInv, OriginOf
  <1>3. ASSUME NEW row \in LedgerRow, row.before = snap[r].balance
        PROVE  /\ SourcedIn(AddRow(ledger, c.dev, row), d)
               /\ \A e \in Devs : \A b : HadIn(ledger, e, b)
                                          => HadIn(AddRow(ledger, c.dev, row), e, b)
    BY <1>1, <1>2, <1>3, AddSourced, AddHad
  <1>4. CASE c.op # "transfer"
    <2>1. PICK row \in {FundRow(r), DebitRow(r)} : ledger' = AddRow(ledger, c.dev, row)
      BY <1>4, CommitBooks DEF BooksOne
    <2>2. row \in LedgerRow /\ row.before = snap[r].balance
      BY <1>1
    <2> QED BY <1>3, <2>1, <2>2
  <1>5. CASE c.op = "transfer"
    <2>1. ledger' = AddRow(logged, c.to, RecipientRow(r)) /\ c.to \in Devs
      BY <1>5, CommitBooks DEF BooksTwo
    <2>2. logged \in [Devs -> Seq(LedgerRow)]
      BY <1>1, AddRowType
    <2>3. /\ SourcedIn(logged, d) /\ HadIn(logged, c.to, RecipientRow(r).before)
          /\ \A b : HadIn(ledger, d, b) => HadIn(logged, d, b)
      BY <1>1, <1>2, <1>3, <2>1
    <2> HIDE DEF logged
    <2> QED BY <1>1, <2>1, <2>2, <2>3, AddSourced, AddHad
  <1> QED BY <1>4, <1>5

(* The balance of a wallet is had: it is that of the newest row.           *)
LEMMA BalanceHad ==
    ASSUME TypeInv, BalanceIsNewestRow, NEW d \in Devs
    PROVE  HadIn(ledger, d, wallet[d].balance)
  <1>1. ledger[d] \in Seq(LedgerRow)
    BY DEF TypeInv, TypeOK
  <1>2. ledger[d] # <<>> => Len(ledger[d]) \in DOMAIN ledger[d]
    BY <1>1
  <1> QED BY <1>2 DEF HadIn, BalanceIsNewestRow

LEMMA OriginNext ==
    TypeInv /\ BalanceIsNewestRow /\ OriginInv /\ [Next]_vars => OriginInv'
  <1> SUFFICES ASSUME TypeInv, BalanceIsNewestRow, OriginInv, [Next]_vars PROVE OriginInv'
    OBVIOUS
  <1>1. ASSUME NEW d \in Devs
        PROVE  /\ SourcedIn(ledger', d)
               /\ \A b : HadIn(ledger, d, b) => HadIn(ledger', d, b)
    BY CommitSourced, OnlyCommitsMoveMoney DEF BooksUnchanged, OriginInv
  <1>2. ASSUME NEW r \in Reqs PROVE OriginOf(r)'
    <2>1. call' = call /\ call[r].dev \in Devs /\ OriginOf(r)
      BY RequestStep, CallFields DEF OriginInv, TypeInv
    <2>2. /\ snap'[r] = snap[r] \/ HadIn(ledger, call[r].dev, snap'[r].balance)
          /\ call[r].to \in Devs
               => peer'[r] = peer[r] \/ HadIn(ledger, call[r].to, peer'[r].balance)
      <3>0. \A d \in Devs : /\ HadIn(ledger, d, wallet[d].balance)
                           /\ HadIn(ledger, d, NewWallet.balance)
        BY BalanceHad DEF NewWallet, HadIn
      <3>1. CASE FindWallet(r) \/ CreateWallet(r)
        <4>1. peer' = peer /\ (\/ snap' = snap
                               \/ snap' = [snap EXCEPT ![r] = wallet[call[r].dev]]
                               \/ snap' = [snap EXCEPT ![r] = NewWallet])
          BY <3>1 DEF FindWallet, CreateWallet, Lands
        <4> QED BY <2>1, <3>0, <4>1 DEF TypeInv, TypeOK
      <3>2. CASE FindRecipient(r) \/ CreateRecipient(r)
        <4>1. snap' = snap /\ (\/ peer' = peer
                               \/ peer' = [peer EXCEPT ![r] = wallet[call[r].to]]
                               \/ peer' = [peer EXCEPT ![r] = NewWallet])
          BY <3>2 DEF FindRecipient, CreateRecipient
        <4> QED BY <3>0, <4>1 DEF TypeInv, TypeOK
      <3>3. CASE \/ Arrive(r) \/ CheckKey(r) \/ HandleFailedPin(r) \/ ResetAttempts(r) \/ Fund(r)
                 \/ Withdraw(r) \/ Transfer(r) \/ KeyConflict(r) \/ SavePin(r) \/ Unlock(r)
                 \/ WriteAudit(r) \/ Reply(r) \/ Fail(r)
        BY <3>3 DEF Arrive, CheckKey, HandleFailedPin, ResetAttempts, Fund, Withdraw, Transfer,
           KeyConflict, SavePin, Unlock, WriteAudit, Reply, Fail
      <3> QED BY <3>1, <3>2, <3>3, RequestStep DEF Handle
    <2>3. /\ HadIn(ledger', call[r].dev, snap'[r].balance)
          /\ call[r].to \in Devs => HadIn(ledger', call[r].to, peer'[r].balance)
      BY <1>1, <2>1, <2>2 DEF OriginOf
    <2> QED BY <2>1, <2>3 DEF OriginOf, HadIn
  <1> QED BY <1>1, <1>2 DEF OriginInv, SourcedIn

LEMMA OriginInit == Init => OriginInv
  <1> SUFFICES ASSUME Init PROVE OriginInv
    OBVIOUS
  <1>1. ASSUME NEW d \in Devs, NEW i \in DOMAIN ledger[d] PROVE ledger[d][i].before = 0
    <2>1. ledger[d][i] = OpeningRow(d)
      BY <1>1 DEF Init
    <2> QED BY <2>1 DEF OpeningRow, Credit, NewWallet
  <1> QED BY <1>1 DEF Init, OriginInv, OriginOf, SourcedIn, HadIn, NewWallet

(* The newest row shows the balance.  Rows continue each other unless a    *)
(* balance was clobbered, and even then each starts from a balance the     *)
(* same wallet had: every stale row was true once (wallet.service.ts:75,   *)
(* 134, 139, 207).                                                         *)
THEOREM LedgersAreHistories == Spec => []LedgerIsHistory
  <1> DEFINE I == TypeInv /\ BalanceIsNewestRow /\ ChainUnlessClobbered /\ OriginInv
  <1>1. Init => I
    BY TypeInit, NewestInit, ChainInit, OriginInit
  <1>2. I /\ [Next]_vars => I'
    BY TypeNext, NewestNext, ChainNext, OriginNext
  <1>3. I => LedgerIsHistory
    BY DEF OriginInv, SourcedIn, LedgerIsHistory, RowsChain, StartsFrom
  <1> QED BY <1>1, <1>2, <1>3, PTL DEF Spec

-----------------------------------------------------------------------------
(* Sums.  SumFunctionOnSet takes the elements of a set out one by one, by  *)
(* a recursive function on its subsets; what it computes follows by        *)
(* induction on finite sets, here in the form that a nonempty set of them  *)
(* has a smallest member.                                                  *)

(* A measure gives every subset of S its sum, whatever element is taken    *)
(* out first.                                                              *)
Measure(h, f, S) ==
    /\ h \in [SUBSET S -> Int]
    /\ h[{}] = 0
    /\ \A s \in SUBSET S : \A x \in s : h[s] = f[x] + h[s \ {x}]

(* Of a set of finite sets, one contains no other.                         *)
LEMMA Smallest ==
    ASSUME NEW S, IsFiniteSet(S), NEW F \in SUBSET SUBSET S, F # {}
    PROVE  \E t \in F : \A s \in F : s \subseteq t => s = t
  <1> DEFINE R == StrictSubsetOrdering(S)
  <1>1. IsWellFoundedOn(R, FiniteSubsetsOf(S))
    BY FS_StrictSubsetOrderingWellFounded
  <1>2. F \subseteq FiniteSubsetsOf(S)
    BY FS_Subset DEF FiniteSubsetsOf
  <1>3. PICK t \in F : \A s \in F : <<s, t>> \notin R
    <2> HIDE DEF R
    <2> QED BY <1>1, <1>2, WFMin
  <1> QED BY <1>3 DEF StrictSubsetOrdering

LEMMA MeasureExists ==
    ASSUME NEW S, IsFiniteSet(S), NEW f, \A x \in S : f[x] \in Int
    PROVE  \E h : Measure(h, f, S)
  <1> DEFINE F == {s \in SUBSET S : ~ \E h : Measure(h, f, s)}
  <1> SUFFICES ASSUME F # {} PROVE FALSE
    OBVIOUS
  <1>1. PICK t \in F : \A s \in F : s \subseteq t => s = t
    <2> F \in SUBSET SUBSET S
      OBVIOUS
    <2> HIDE DEF F
    <2> QED BY Smallest
  <1>2. CASE t = {}
    <2> DEFINE h == [s \in SUBSET {} |-> 0]
    <2>1. Measure(h, f, t)
      BY <1>2 DEF Measure
    <2> QED BY <2>1
  <1>3. ASSUME NEW x \in t PROVE FALSE
    <2>1. PICK h : Measure(h, f, t \ {x})
      BY <1>1
    <2> DEFINE g == [s \in SUBSET t |-> IF x \in s THEN f[x] + h[s \ {x}] ELSE h[s]]
    <2>2. f[x] \in Int
      OBVIOUS
    <2>3. g \in [SUBSET t -> Int]
      BY <2>1, <2>2 DEF Measure
    <2>4. g[{}] = 0
      BY <2>1 DEF Measure
    <2>5. ASSUME NEW s \in SUBSET t, NEW y \in s PROVE g[s] = f[y] + g[s \ {y}]
      <3>1. CASE y = x
        BY <3>1
      <3>2. CASE y # x /\ x \notin s
        BY <2>1, <3>2 DEF Measure
      <3>3. CASE y # x /\ x \in s
        <4>1. /\ s \ {x} \in SUBSET (t \ {x}) /\ y \in s \ {x}
              /\ (s \ {x}) \ {y} = (s \ {y}) \ {x} /\ x \in s \ {y} /\ s \ {y} \in SUBSET t
          BY <3>3
        <4>0. \A u \in SUBSET (t \ {x}) : \A z \in u : h[u] = f[z] + h[u \ {z}]
          BY <2>1 DEF Measure
        <4>2. h[s \ {x}] = f[y] + h[(s \ {y}) \ {x}]
          <5>1. h[s \ {x}] = f[y] + h[(s \ {x}) \ {y}]
            BY <4>0, <4>1
          <5> QED BY <4>1, <5>1
        <4>3. h[(s \ {y}) \ {x}] \in Int /\ f[y] \in Int
          BY <2>1, <4>1 DEF Measure
        <4>4. g[s] = f[x] + h[s \ {x}] /\ g[s \ {y}] = f[x] + h[(s \ {y}) \ {x}]
          BY <3>3, <4>1
        <4> QED BY <2>2, <4>2, <4>3, <4>4
      <3> QED BY <3>1, <3>2, <3>3
    <2>6. Measure(g, f, t)
      <3> HIDE DEF g
      <3> QED BY <2>3, <2>4, <2>5 DEF Measure
    <2> QED BY <2>6
  <1> QED BY <1>2, <1>3

(* The sum of the community modules is what any measure says it is.        *)
LEMMA SumIs ==
    ASSUME NEW S, IsFiniteSet(S), NEW f, NEW h, Measure(h, f, S)
    PROVE  SumFunctionOnSet(f, S) = h[S]
  <1> DEFINE Taken(s) == CHOOSE x \in s : TRUE
             Step(g) == [s \in SUBSET S |->
                           IF s = {} THEN 0 ELSE f[Taken(s)] + g[s \ {Taken(s)}]]
             it == CHOOSE g : g = Step(g)
  <1>1. SumFunctionOnSet(f, S) = it[S]
    BY DEF SumFunctionOnSet, FoldFunctionOnSet, MapThenFoldSet
  <1>2. h = Step(h)
    <2>1. \A s \in SUBSET S : h[s] = IF s = {} THEN 0 ELSE f[Taken(s)] + h[s \ {Taken(s)}]
      BY DEF Measure
    <2> HIDE DEF Taken
    <2> QED BY <2>1 DEF Measure
  <1>3. it = Step(it)
    <2> HIDE DEF Step
    <2> QED BY <1>2
  <1>4. \A s \in SUBSET S : it[s] = IF s = {} THEN 0 ELSE f[Taken(s)] + it[s \ {Taken(s)}]
    <2> HIDE DEF it, Taken
    <2> QED BY <1>3
  <1> HIDE DEF it
  <1> DEFINE F == {s \in SUBSET S : it[s] # h[s]}
  <1>5. ASSUME F # {} PROVE FALSE
    <2>1. PICK t \in F : \A s \in F : s \subseteq t => s = t
      <3> F \in SUBSET SUBSET S
        OBVIOUS
      <3> HIDE DEF F
      <3> QED BY <1>5, Smallest
    <2>2. t # {}
      BY <1>4 DEF Measure
    <2> DEFINE x == Taken(t)
    <2>3. x \in t
      BY <2>2
    <2>4. it[t] = f[x] + it[t \ {x}]
      BY <1>4, <2>2
    <2> HIDE DEF x
    <2>5. h[t] = f[x] + h[t \ {x}]
      BY <2>3 DEF Measure
    <2>6. t \ {x} \notin F /\ t \ {x} \in SUBSET S
      BY <2>1, <2>3
    <2> QED BY <2>4, <2>5, <2>6
  <1> QED BY <1>1, <1>5

(* A sum is an integer, and any element may be taken out of it.            *)
LEMMA SumTakeOut ==
    ASSUME NEW S, IsFiniteSet(S), NEW f, \A x \in S : f[x] \in Int
    PROVE  /\ SumFunctionOnSet(f, S) \in Int
           /\ S = {} => SumFunctionOnSet(f, S) = 0
           /\ \A x \in S : SumFunctionOnSet(f, S) = f[x] + SumFunctionOnSet(f, S \ {x})
  <1>1. PICK h : Measure(h, f, S)
    BY MeasureExists
  <1>2. SumFunctionOnSet(f, S) = h[S]
    BY <1>1, SumIs
  <1>3. ASSUME NEW x \in S
        PROVE  SumFunctionOnSet(f, S) = f[x] + SumFunctionOnSet(f, S \ {x})
    <2> DEFINE g == [s \in SUBSET (S \ {x}) |-> h[s]]
    <2>1. Measure(g, f, S \ {x}) /\ g[S \ {x}] = h[S \ {x}]
      BY <1>1 DEF Measure
    <2>2. IsFiniteSet(S \ {x})
      BY FS_RemoveElement
    <2>3. SumFunctionOnSet(f, S \ {x}) = h[S \ {x}]
      <3> HIDE DEF g
      <3> QED BY <2>1, <2>2, SumIs
    <2> QED BY <1>1, <1>2, <2>3 DEF Measure
  <1> QED BY <1>1, <1>2, <1>3 DEF Measure

LEMMA SumSame ==
    ASSUME NEW S, IsFiniteSet(S), NEW f, NEW g,
           \A x \in S : f[x] \in Int /\ g[x] = f[x]
    PROVE  SumFunctionOnSet(g, S) = SumFunctionOnSet(f, S)
  <1>1. PICK h : Measure(h, f, S)
    BY MeasureExists
  <1>2. Measure(h, g, S)
    BY <1>1 DEF Measure
  <1> QED BY <1>1, <1>2, SumIs

(* A sum differs from another as the values of one element do.             *)
LEMMA SumChange ==
    ASSUME NEW S, IsFiniteSet(S), NEW f, NEW g, NEW x \in S,
           \A y \in S : f[y] \in Int /\ g[y] \in Int,
           \A y \in S \ {x} : g[y] = f[y]
    PROVE  SumFunctionOnSet(g, S) = SumFunctionOnSet(f, S) - f[x] + g[x]
  <1> DEFINE R == S \ {x}
  <1>1. IsFiniteSet(R)
    BY FS_RemoveElement
  <1>2. SumFunctionOnSet(g, R) = SumFunctionOnSet(f, R) /\ SumFunctionOnSet(f, R) \in Int
    <2> HIDE DEF R
    <2>1. \A y \in R : f[y] \in Int /\ g[y] = f[y]
      BY DEF R
    <2> QED BY <1>1, <2>1, SumSame, SumTakeOut
  <1>3. /\ SumFunctionOnSet(f, S) = f[x] + SumFunctionOnSet(f, R)
        /\ SumFunctionOnSet(g, S) = g[x] + SumFunctionOnSet(g, R)
    BY SumTakeOut
  <1> QED BY <1>2, <1>3

(* The sum of increments is where they lead.                               *)
LEMMA SumOfSteps ==
    ASSUME NEW n \in Nat, NEW f, NEW s \in [0 .. n -> Int], s[0] = 0,
           \A i \in 1 .. n : f[i] \in Int /\ s[i] = s[i - 1] + f[i]
    PROVE  SumFunctionOnSet(f, 1 .. n) = s[n]
  <1> DEFINE F == {1 .. k : k \in {k \in 0 .. n : SumFunctionOnSet(f, 1 .. k) # s[k]}}
  <1>0. ASSUME NEW k \in 0 .. n PROVE IsFiniteSet(1 .. k) /\ 1 .. k \subseteq 1 .. n
    <2>1. IsFiniteSet(1 .. k)
      BY FS_Interval
    <2> QED BY <2>1
  <1>1. ASSUME F # {} PROVE FALSE
    <2>1. PICK t \in F : \A u \in F : u \subseteq t => u = t
      <3> DEFINE N == 1 .. n
      <3>1. IsFiniteSet(N)
        BY FS_Interval
      <3>2. ASSUME NEW u \in F PROVE u \in SUBSET N
        <4>1. PICK k \in 0 .. n : u = 1 .. k
          BY <3>2
        <4> QED BY <1>0, <4>1
      <3> HIDE DEF F, N
      <3>3. F \in SUBSET SUBSET N
        BY <3>2
      <3> QED BY <1>1, <3>1, <3>3, Smallest
    <2>2. PICK k \in 0 .. n : t = 1 .. k /\ SumFunctionOnSet(f, 1 .. k) # s[k]
      OBVIOUS
    <2>3. CASE k = 0
      <3>1. 1 .. k = {}
        BY <2>3
      <3> QED BY <1>0, <2>2, <2>3, <3>1, SumTakeOut
    <2>4. CASE k # 0
      <3> DEFINE u == 1 .. (k - 1)
      <3>1. k \in t /\ k \in 1 .. n /\ k - 1 \in 0 .. n
        BY <2>2, <2>4
      <3>2. ASSUME NEW i PROVE i \in u <=> i \in t /\ i # k
        <4>1. t = 1 .. k /\ k \in Nat
          BY <2>2
        <4> HIDE DEF F
        <4>2. CASE i \in Int
          BY <4>1, <4>2
        <4>3. CASE i \notin Int
          BY <4>1, <4>3
        <4> QED BY <4>2, <4>3
      <3>3. IsFiniteSet(t) /\ \A i \in t : f[i] \in Int
        BY <1>0, <2>2
      <3>4. SumFunctionOnSet(f, u) = s[k - 1]
        <4>1. u \notin F
          <5> HIDE DEF u, F
          <5> QED BY <2>1, <3>1, <3>2
        <4> QED BY <3>1, <4>1
      <3> HIDE DEF F, u
      <3>5. t \ {k} = u
        BY <3>2
      <3>6. SumFunctionOnSet(f, t) = f[k] + SumFunctionOnSet(f, u)
        <4>1. SumFunctionOnSet(f, t) = f[k] + SumFunctionOnSet(f, t \ {k})
          BY <3>1, <3>3, SumTakeOut
        <4> QED BY <3>5, <4>1
      <3>7. s[k] = s[k - 1] + f[k] /\ s[k - 1] \in Int /\ f[k] \in Int
        BY <3>1
      <3> QED BY <2>2, <3>4, <3>6, <3>7
    <2> QED BY <2>3, <2>4
  <1>2. n \in 0 .. n
    OBVIOUS
  <1> QED BY <1>1, <1>2

-----------------------------------------------------------------------------
(* A row's two balances differ by its amount.                              *)
LEMMA RowsCount ==
    ASSUME TypeInv, LedgerInv, NEW d \in Devs, NEW i \in DOMAIN ledger[d]
    PROVE  ledger[d][i].after = ledger[d][i].before + SignedAmount(ledger[d][i])
  <1> DEFINE row == ledger[d][i]
  <1>1. Explained(d, row) /\ row \in LedgerRow
    BY DEF LedgerInv, RowsIn, Justified
  <1> HIDE DEF row
  <1>2. row.before \in Int /\ row.after \in Int /\ row.amount \in Nat
    BY <1>1 DEF LedgerRow
  <1>3. ASSUME NEW r, NEW amount, NEW from, NEW key, row = Credit(r, amount, from, key)
        PROVE  row.after = row.before + SignedAmount(row)
    BY <1>2, <1>3 DEF Credit, SignedAmount
  <1>4. ASSUME NEW r, NEW amount, NEW from, NEW key, row = Debit(r, amount, from, key)
        PROVE  row.after = row.before + SignedAmount(row)
    <2>1. row.type = "DEBIT" /\ row.amount = amount /\ row.before = from.balance
          /\ row.after = from.balance - amount
      BY <1>4 DEF Debit
    <2> QED BY <1>2, <2>1 DEF SignedAmount
  <1>5. row.after = row.before + SignedAmount(row)
    BY <1>1, <1>3, <1>4 DEF Explained, OpeningRow, FundRow, DebitRow, RecipientRow
  <1> QED BY <1>5 DEF row

LEMMA ChainAddsUp ==
    ASSUME TypeInv, LedgerInv, BalanceIsNewestRow, ChainUnlessClobbered,
           NEW d \in Devs \ clobbered
    PROVE  AddsUp(d)
  <1> DEFINE n == Len(ledger[d])
             s == [i \in 0..n |-> IF i = 0 THEN 0 ELSE ledger[d][i].after]
             f == [i \in DOMAIN ledger[d] |-> SignedAmount(ledger[d][i])]
  <1>1. ledger[d] \in Seq(LedgerRow) /\ n \in Nat /\ DOMAIN ledger[d] = 1..n
    BY DEF TypeInv, TypeOK
  <1>2. ASSUME NEW i \in 1..n
        PROVE  ledger[d][i].after \in Int /\ SignedAmount(ledger[d][i]) \in Int
    <2>1. ledger[d][i] \in LedgerRow
      BY <1>1
    <2> QED BY <2>1 DEF LedgerRow, SignedAmount
  <1>3. s \in [0..n -> Int] /\ s[0] = 0
    BY <1>1, <1>2
  <1>4. ASSUME NEW i \in 1..n PROVE f[i] \in Int /\ s[i] = s[i - 1] + f[i]
    <2>1. i - 1 \in 0..n /\ i \in 0..n /\ i # 0 /\ (i # 1 => i - 1 # 0)
      BY <1>1
    <2>2. s[i - 1] = ledger[d][i].before
      BY <1>1, <2>1 DEF ChainUnlessClobbered
    <2>3. s[i] = ledger[d][i].after /\ f[i] = SignedAmount(ledger[d][i])
      BY <1>1, <2>1
    <2> HIDE DEF s, f
    <2> QED BY <1>1, <1>2, <2>2, <2>3, RowsCount
  <1>5. wallet[d].balance = s[n]
    <2>1. wallet[d].balance = IF ledger[d] = <<>> THEN 0 ELSE ledger[d][n].after
      BY DEF BalanceIsNewestRow
    <2>2. n \in 0..n /\ (ledger[d] = <<>> <=> n = 0)
      BY <1>1
    <2> QED BY <2>1, <2>2
  <1>6. SumFunction(f) = SumFunctionOnSet(f, 1..n)
    BY <1>1 DEF SumFunction
  <1>7. SumFunctionOnSet(f, 1..n) = s[n]
    <2> HIDE DEF s, f, n
    <2> QED BY <1>1, <1>3, <1>4, SumOfSteps
  <1> QED BY <1>5, <1>6, <1>7 DEF AddsUp

(* Overlapping requests break the sum of a ledger only by clobbering: in   *)
(* every wallet whose balance was never replaced by one computed from      *)
(* another balance (wallet.service.ts:75, 134, 139, 207), the balance is   *)
(* the sum of its rows, credits less debits.                               *)
THEOREM UnclobberedAddUp == Spec => []\A d \in Devs \ clobbered : AddsUp(d)
  <1> DEFINE I == TypeInv /\ LedgerInv /\ BalanceIsNewestRow /\ ChainUnlessClobbered
  <1>1. Init => I
    BY TypeInit, LedgerInit, NewestInit, ChainInit
  <1>2. I /\ [Next]_vars => I'
    BY TypeNext, LedgerNext, NewestNext, ChainNext
  <1>3. I => \A d \in Devs \ clobbered : AddsUp(d)
    BY ChainAddsUp
  <1> QED BY <1>1, <1>2, <1>3, PTL DEF Spec

-----------------------------------------------------------------------------
(* Wallet and Commits.  The newest write of a wallet and the rows that     *)
(* requests made, for any tables.                                          *)
LastIn(l, d) == IF l[d] = <<>> THEN OpeningRef ELSE NameOf(l[d][Len(l[d])])

NamedIn(l, name) ==
    \E d \in Devs : \E i \in DOMAIN l[d] : l[d][i].ref # OpeningRef /\ name = NameOf(l[d][i])

(* A committed row of module Commits is a row some request made.           *)
LEMMA CommittedRow == ASSUME NEW name PROVE name \in CommittedRows <=> NamedIn(ledger, name)
  <1>1. ASSUME name \in CommittedRows PROVE NamedIn(ledger, name)
    <2>1. PICK row \in RowsOfAll : row.ref # OpeningRef /\ name = NameOf(row)
      BY <1>1 DEF CommittedRows
    <2>2. PICK d \in Devs : row \in {ledger[d][i] : i \in DOMAIN ledger[d]}
      BY DEF RowsOfAll
    <2> QED BY <2>1, <2>2 DEF NamedIn
  <1>2. ASSUME NamedIn(ledger, name) PROVE name \in CommittedRows
    <2>0. PICK d \in Devs : \E i \in DOMAIN ledger[d] :
            ledger[d][i].ref # OpeningRef /\ name = NameOf(ledger[d][i])
      BY <1>2 DEF NamedIn
    <2>1. PICK i \in DOMAIN ledger[d] :
            ledger[d][i].ref # OpeningRef /\ name = NameOf(ledger[d][i])
      BY <2>0
    <2>2. ledger[d][i] \in RowsOfAll
      BY DEF RowsOfAll
    <2> QED BY <2>1, <2>2 DEF CommittedRows
  <1> QED BY <1>1, <1>2

(* Adding a request's row: it is its wallet's newest write, and one more.  *)
LEMMA BookingNames ==
    ASSUME NEW l \in [Devs -> Seq(LedgerRow)], NEW d \in Devs, NEW row \in LedgerRow,
           row.ref # OpeningRef
    PROVE  /\ LastIn(AddRow(l, d, row), d) = NameOf(row)
           /\ \A e \in Devs : e # d => LastIn(AddRow(l, d, row), e) = LastIn(l, e)
           /\ \A name : NamedIn(AddRow(l, d, row), name)
                            <=> NamedIn(l, name) \/ name = NameOf(row)
  <1> DEFINE l2 == AddRow(l, d, row)
             n == Len(l[d])
  <1>1. /\ n \in Nat /\ DOMAIN l[d] = 1..n /\ DOMAIN l2[d] = 1..(n + 1)
        /\ l2[d] # <<>> /\ Len(l2[d]) = n + 1
    BY AddRowFacts
  <1>2. l2[d][n + 1] = row /\ \A i \in 1..n : l2[d][i] = l[d][i]
    BY AddRowFacts
  <1>3. \A e \in Devs : e # d => l2[e] = l[e]
    BY DEF AddRow
  <1>4. n + 1 \in 1..(n + 1) /\ 1..n \subseteq 1..(n + 1)
        /\ \A i \in 1..(n + 1) : i \in 1..n \/ i = n + 1
    BY <1>1
  <1> HIDE DEF l2, n
  <1>5. LastIn(l2, d) = NameOf(row) /\ \A e \in Devs : e # d => LastIn(l2, e) = LastIn(l, e)
    BY <1>1, <1>2, <1>3 DEF LastIn
  <1>6. ASSUME NEW name, NamedIn(l2, name) PROVE NamedIn(l, name) \/ name = NameOf(row)
    <2>1. PICK e \in Devs : \E i \in DOMAIN l2[e] :
            l2[e][i].ref # OpeningRef /\ name = NameOf(l2[e][i])
      BY <1>6 DEF NamedIn
    <2>2. CASE e # d
      BY <1>3, <2>1, <2>2 DEF NamedIn
    <2>3. CASE e = d
      <3>1. PICK i \in 1..(n + 1) : l2[d][i].ref # OpeningRef /\ name = NameOf(l2[d][i])
        BY <1>1, <2>1, <2>3
      <3>2. CASE i = n + 1
        BY <1>2, <3>1, <3>2
      <3>3. CASE i \in 1..n
        <4>1. i \in DOMAIN l[d] /\ l[d][i].ref # OpeningRef /\ name = NameOf(l[d][i])
          BY <1>1, <1>2, <3>1, <3>3
        <4> QED BY <4>1 DEF NamedIn
      <3> QED BY <1>4, <3>2, <3>3
    <2> QED BY <2>2, <2>3
  <1>7. NamedIn(l2, NameOf(row))
    BY <1>1, <1>2, <1>4 DEF NamedIn
  <1>8. ASSUME NEW name, NamedIn(l, name) PROVE NamedIn(l2, name)
    <2>1. PICK e \in Devs : \E i \in DOMAIN l[e] :
            l[e][i].ref # OpeningRef /\ name = NameOf(l[e][i])
      BY <1>8 DEF NamedIn
    <2>2. CASE e # d
      BY <1>3, <2>1, <2>2 DEF NamedIn
    <2>3. CASE e = d
      <3>1. PICK i \in 1..n : l[d][i].ref # OpeningRef /\ name = NameOf(l[d][i])
        BY <1>1, <2>1, <2>3
      <3>2. i \in DOMAIN l2[d] /\ l2[d][i] = l[d][i]
        BY <1>1, <1>2, <1>4
      <3> QED BY <3>1, <3>2 DEF NamedIn
    <2> QED BY <2>2, <2>3
  <1> QED BY <1>5, <1>6, <1>7, <1>8 DEF l2

(* What a request's commit writes, and what it had not written.            *)
LEMMA CommitWrites ==
    ASSUME TypeInv, NEW r \in Reqs, Commits(r)
    PROVE  /\ call[r].op # "transfer" =>
                /\ \A d \in Devs : LastWrite(d)' =
                        IF d = call[r].dev THEN <<r, "own">> ELSE LastWrite(d)
                /\ CommittedRows' = CommittedRows \cup {<<r, "own">>}
           /\ call[r].op = "transfer" =>
                /\ \A d \in Devs : LastWrite(d)' =
                        IF d = call[r].to THEN <<r, "credit">>
                        ELSE IF d = call[r].dev THEN <<r, "debit">> ELSE LastWrite(d)
                /\ CommittedRows' = CommittedRows \cup {<<r, "debit">>, <<r, "credit">>}
  <1>0. /\ ledger \in [Devs -> Seq(LedgerRow)] /\ call[r].dev \in Devs /\ call' = call
        /\ call[r].op = "transfer" => call[r].to \in Devs
        /\ FundRow(r) \in LedgerRow /\ DebitRow(r) \in LedgerRow /\ RecipientRow(r) \in LedgerRow
    BY CommitBooks DEF TypeInv, TypeOK
  <1>1. /\ FundRow(r).ref = r /\ DebitRow(r).ref = r /\ RecipientRow(r).ref = r
        /\ r # OpeningRef
        /\ call[r].op # "transfer" => NameOf(FundRow(r)) = <<r, "own">>
                                      /\ NameOf(DebitRow(r)) = <<r, "own">>
        /\ call[r].op = "transfer" => NameOf(DebitRow(r)) = <<r, "debit">>
                                      /\ NameOf(RecipientRow(r)) = <<r, "credit">>
    BY WalletAssumption DEF FundRow, DebitRow, RecipientRow, Credit, Debit, NameOf, LegOf
  <1>2. \A d \in Devs : LastWrite(d) = LastIn(ledger, d) /\ LastWrite(d)' = LastIn(ledger', d)
    BY <1>0 DEF LastWrite, LastIn, NameOf, LegOf
  <1>3. \A name : /\ name \in CommittedRows <=> NamedIn(ledger, name)
                  /\ name \in CommittedRows' <=> NamedIn(ledger', name)
    <2>1. ASSUME NEW name PROVE (name \in CommittedRows)' <=> NamedIn(ledger, name)'
      BY CommittedRow, PTL
    <2>2. ASSUME NEW name PROVE NamedIn(ledger, name)' <=> NamedIn(ledger', name)
      BY <1>0 DEF NamedIn, NameOf, LegOf
    <2> QED BY <2>1, <2>2, CommittedRow
  <1>a. ASSUME NEW l \in [Devs -> Seq(LedgerRow)], NEW d \in Devs, NEW row \in LedgerRow,
               row.ref # OpeningRef, NEW m, m = AddRow(l, d, row)
        PROVE  /\ LastIn(m, d) = NameOf(row)
               /\ \A e \in Devs : e # d => LastIn(m, e) = LastIn(l, e)
               /\ \A name : NamedIn(m, name) <=> NamedIn(l, name) \/ name = NameOf(row)
    BY <1>a, BookingNames
  <1>4. ASSUME NEW row \in LedgerRow, row.ref = r, NameOf(row) = <<r, "own">>,
               ledger' = AddRow(ledger, call[r].dev, row)
        PROVE  /\ \A d \in Devs : LastWrite(d)' =
                       IF d = call[r].dev THEN <<r, "own">> ELSE LastWrite(d)
               /\ CommittedRows' = CommittedRows \cup {<<r, "own">>}
    <2>1. /\ LastIn(ledger', call[r].dev) = NameOf(row)
          /\ \A e \in Devs : e # call[r].dev => LastIn(ledger', e) = LastIn(ledger, e)
          /\ \A name : NamedIn(ledger', name) <=> NamedIn(ledger, name) \/ name = NameOf(row)
      BY <1>0, <1>1, <1>4, BookingNames
    <2>2. CommittedRows' = CommittedRows \cup {<<r, "own">>}
      BY <1>3, <1>4, <2>1
    <2> QED BY <1>0, <1>2, <1>4, <2>1, <2>2
  <1>5. CASE BooksOne(r, FundRow(r)) /\ call[r].op = "fund"
    BY <1>0, <1>1, <1>4, <1>5 DEF BooksOne
  <1>6. CASE BooksOne(r, DebitRow(r)) /\ call[r].op = "withdraw"
    BY <1>0, <1>1, <1>4, <1>6 DEF BooksOne
  <1>7. CASE BooksTwo(r) /\ call[r].op = "transfer"
    <2> DEFINE logged == AddRow(ledger, call[r].dev, DebitRow(r))
    <2>1. ledger' = AddRow(logged, call[r].to, RecipientRow(r)) /\ call[r].to \in Devs
      BY <1>0, <1>7 DEF BooksTwo
    <2>2. /\ logged \in [Devs -> Seq(LedgerRow)]
          /\ LastIn(logged, call[r].dev) = <<r, "debit">>
          /\ \A e \in Devs : e # call[r].dev => LastIn(logged, e) = LastIn(ledger, e)
          /\ \A name : NamedIn(logged, name) <=> NamedIn(ledger, name) \/ name = <<r, "debit">>
      <3>1. logged \in [Devs -> Seq(LedgerRow)]
        BY <1>0, AddRowType
      <3>2. /\ LastIn(logged, call[r].dev) = NameOf(DebitRow(r))
            /\ \A e \in Devs : e # call[r].dev => LastIn(logged, e) = LastIn(ledger, e)
            /\ \A name : NamedIn(logged, name)
                            <=> NamedIn(ledger, name) \/ name = NameOf(DebitRow(r))
        <4>1. DebitRow(r) \in LedgerRow /\ DebitRow(r).ref # OpeningRef
          BY <1>0, <1>1
        <4> QED BY <4>1, <1>0, <1>a
      <3> QED BY <1>1, <1>7, <3>1, <3>2
    <2> HIDE DEF logged
    <2>3. /\ LastIn(ledger', call[r].to) = <<r, "credit">>
          /\ \A e \in Devs : e # call[r].to => LastIn(ledger', e) = LastIn(logged, e)
          /\ \A name : NamedIn(ledger', name) <=> NamedIn(logged, name) \/ name = <<r, "credit">>
      <3>1. /\ LastIn(ledger', call[r].to) = NameOf(RecipientRow(r))
            /\ \A e \in Devs : e # call[r].to => LastIn(ledger', e) = LastIn(logged, e)
            /\ \A name : NamedIn(ledger', name)
                            <=> NamedIn(logged, name) \/ name = NameOf(RecipientRow(r))
        <4>1. /\ logged \in [Devs -> Seq(LedgerRow)] /\ call[r].to \in Devs
              /\ RecipientRow(r) \in LedgerRow /\ RecipientRow(r).ref # OpeningRef
          BY <1>0, <1>1, <2>1, <2>2
        <4> QED BY <4>1, <2>1, <1>a
      <3> QED BY <1>1, <1>7, <3>1
    <2>4. CommittedRows' = CommittedRows \cup {<<r, "debit">>, <<r, "credit">>}
      BY <1>3, <2>2, <2>3
    <2> QED BY <1>0, <1>2, <1>7, <2>1, <2>2, <2>3, <2>4
  <1> QED BY <1>5, <1>6, <1>7, CommitBooks

(* A step moves one request, and none that has its answer.                 *)
LEMMA OneMoves ==
    ASSUME TypeInv, [Next]_vars, NEW r \in Reqs, pc'[r] # pc[r]
    PROVE  pc[r] \notin Answers /\ \A s \in Reqs : s # r => pc'[s] = pc[s]
  <1>1. Arrive(r) \/ Handle(r) \/ Fail(r)
    BY RequestStep
  <1>2. CASE Arrive(r) \/ Fail(r)
    BY <1>2 DEF Arrive, Fail, Goto, Waiting, Answers, Refusals, TypeInv, TypeOK
  <1>3. CASE Handle(r)
    <2>1. \E label : Goto(r, label)
      BY <1>3 DEF Handle, CheckKey, FindWallet, CreateWallet, HandleFailedPin, ResetAttempts,
         FindRecipient, CreateRecipient, Fund, Withdraw, Transfer, KeyConflict, SavePin, Unlock,
         WriteAudit, Reply, Lands
    <2>2. pc[r] \in Waiting
      BY <1>3 DEF Handle, CheckKey, FindWallet, CreateWallet, HandleFailedPin, ResetAttempts,
         FindRecipient, CreateRecipient, Fund, Withdraw, Transfer, KeyConflict, SavePin, Unlock,
         WriteAudit, Reply, Waiting, Lands
    <2> QED BY <2>1, <2>2 DEF Goto, Waiting, Answers, Refusals, TypeInv, TypeOK
  <1> QED BY <1>1, <1>2, <1>3

LEMMA CommitsStart == Init => C!CommitsInit
  <1> SUFFICES ASSUME Init PROVE C!CommitsInit
      OBVIOUS
  <1>1. ASSUME NEW d \in Devs PROVE ledger[d] = <<>> \/ ledger[d] = <<OpeningRow(d)>>
    BY DEF Init
  <1>2. \A d \in Devs : OpeningRow(d).ref = OpeningRef
    BY DEF OpeningRow, Credit
  <1>3. ASSUME NEW d \in Devs PROVE LastWrite(d) = OpeningRef
    <2>1. CASE ledger[d] = <<OpeningRow(d)>>
      BY <1>2, <2>1 DEF LastWrite, NameOf
    <2> QED BY <1>1, <2>1 DEF LastWrite
  <1>4. \A d \in Devs : \A i \in DOMAIN ledger[d] : ledger[d][i].ref = OpeningRef
    BY <1>1, <1>2
  <1>5. \A name : name \notin CommittedRows
    BY <1>4, CommittedRow DEF NamedIn
  <1>6. \A r \in Reqs : Outcome(r) = "no"
    BY NothingPosted DEF Init, Outcome, Answers, Refusals
  <1> QED BY <1>3, <1>5, <1>6 DEF C!CommitsInit, CommittedRows

(* A commit writes what the transaction of that body writes, for a key     *)
(* that no request has committed.                                          *)
LEMMA CommitIsCommit ==
    ASSUME TypeInv, LedgerInv, KeyInv, [Next]_vars, NEW r \in Reqs, Commits(r)
    PROVE  C!Commit(r)
  <1> DEFINE body == [t \in Reqs |-> Body(call[t])]
             ended == [t \in Reqs |-> Outcome(t)]
  <1>0. /\ call' = call /\ pc[r] = "commit" /\ pc'[r] = "reply" /\ ~Posted(r) /\ Posted(r)'
        /\ call[r].dev \in Devs /\ (call[r].op = "transfer" => call[r].to \in Devs)
    BY CallsStay, PostedStep, PostedSettled, CommitBooks DEF Settled
  <1>1. \A s \in Reqs : s # r => (Posted(s)' <=> Posted(s)) /\ pc'[s] = pc[s]
    <2>1. \A s \in Reqs : s # r => pc'[s] = pc[s]
      BY <1>0, OneMoves
    <2>2. \A s \in Reqs : s # r => ~Commits(s)
      BY <1>0, <2>1, PostedStep
    <2> QED BY <2>1, <2>2, PostedStep
  <1>2. ended[r] = "no" /\ ended' = [ended EXCEPT ![r] = "committed"]
    BY <1>0, <1>1 DEF Outcome, Answers, Refusals
  <1>3. ~C!KeyTaken(body[r].key)
    <2>1. ASSUME NEW u \in Reqs, Posted(u), call[u].key = call[r].key, call[r].key # NoKey
          PROVE  FALSE
      BY <2>1, CommitBooks DEF KeyFree, KeyInv, PostedKeyUsed
    <2>2. \A u \in Reqs : ended[u] = "committed" => Posted(u)
      BY DEF Outcome
    <2> QED BY <2>1, <2>2 DEF C!KeyTaken, Body
  <1>4. /\ body[r].op = IF call[r].op = "transfer" THEN "transfer" ELSE "own"
        /\ body[r].from = call[r].dev /\ body[r].to = call[r].to
    BY DEF Body
  <1> HIDE DEF body, ended
  <1>5. [d \in Devs |-> LastWrite(d)]' = C!Written(r)
    <2>1. ASSUME NEW d \in Devs PROVE LastWrite(d)' = C!Written(r)[d]
      <3>1. CASE call[r].op # "transfer"
        <4>1. C!Written(r)[d] = IF d = call[r].dev THEN <<r, "own">> ELSE LastWrite(d)
          BY <1>4, <3>1 DEF C!Written, body
        <4>2. LastWrite(d)' = IF d = call[r].dev THEN <<r, "own">> ELSE LastWrite(d)
          BY <3>1, CommitWrites
        <4> QED BY <4>1, <4>2
      <3>2. CASE call[r].op = "transfer"
        <4>1. C!Written(r)[d] = IF d = call[r].to THEN <<r, "credit">>
                                ELSE IF d = call[r].dev THEN <<r, "debit">> ELSE LastWrite(d)
          BY <1>4, <3>2 DEF C!Written, body
        <4>2. LastWrite(d)' = IF d = call[r].to THEN <<r, "credit">>
                              ELSE IF d = call[r].dev THEN <<r, "debit">> ELSE LastWrite(d)
          BY <3>2, CommitWrites
        <4> QED BY <4>1, <4>2
      <3> QED BY <3>1, <3>2
    <2> QED BY <2>1 DEF C!Written
  <1>6. CommittedRows' = CommittedRows \cup {<<r, leg>> : leg \in C!Legs(r)}
    <2>1. C!Legs(r) = IF call[r].op = "transfer" THEN {"debit", "credit"} ELSE {"own"}
      BY <1>4 DEF C!Legs, body
    <2> QED BY <2>1, CommitWrites
  <1>7. body' = body
    BY <1>0 DEF body
  <1> QED BY <1>2, <1>3, <1>5, <1>6, <1>7 DEF C!Commit, body, ended, CommittedRows

(* Any other step of a handler ends at most its request, without a write.  *)
LEMMA OthersRollBack ==
    ASSUME TypeInv, [Next]_vars, BooksUnchanged
    PROVE  UNCHANGED C!commitVars \/ \E r \in Reqs : C!RollBack(r)
  <1> DEFINE ended == [t \in Reqs |-> Outcome(t)]
  <1>0. call' = call /\ ledger' = ledger
    BY CallsStay DEF BooksUnchanged
  <1>1. /\ [t \in Reqs |-> Body(call[t])]' = [t \in Reqs |-> Body(call[t])]
        /\ [d \in Devs |-> LastWrite(d)]' = [d \in Devs |-> LastWrite(d)]
        /\ CommittedRows' = CommittedRows
        /\ \A r \in Reqs : Posted(r)' <=> Posted(r)
    BY <1>0 DEF Body, LastWrite, CommittedRows, RowsOfAll, NameOf, LegOf, Posted
  <1>2. CASE \A r \in Reqs : Outcome(r)' = Outcome(r)
    BY <1>1, <1>2 DEF C!commitVars, CommittedRows
  <1>3. ASSUME NEW r \in Reqs, Outcome(r)' # Outcome(r) PROVE C!RollBack(r)
    <2>1. pc'[r] # pc[r]
      BY <1>1, <1>3 DEF Outcome
    <2>2. pc[r] \notin Answers /\ \A s \in Reqs : s # r => pc'[s] = pc[s]
      BY <2>1, OneMoves
    <2>3. Outcome(r) = "no" /\ Outcome(r)' = "aborted"
      BY <1>1, <1>3, <2>2 DEF Outcome
    <2>4. ended[r] = "no" /\ ended' = [ended EXCEPT ![r] = "aborted"]
      BY <1>1, <2>2, <2>3 DEF Outcome
    <2> QED BY <1>1, <2>4 DEF C!RollBack, CommittedRows
  <1> QED BY <1>2, <1>3

(* Every step of every handler is a transaction of module Commits, the     *)
(* abstract specification of Transactions, or leaves its state alone: all  *)
(* the rows of a request and its balances at once, for a key no request    *)
(* has committed, or none of them ever.                                    *)
THEOREM MoneyMovesInCommits == Spec => CommitsOnce
  <1>1. Init => TypeInv /\ LedgerInv /\ KeyInv /\ C!CommitsInit
    BY TypeInit, LedgerInit, KeyInit, CommitsStart
  <1>2. TypeInv /\ LedgerInv /\ KeyInv /\ [Next]_vars => (TypeInv /\ LedgerInv /\ KeyInv)'
    BY TypeNext, LedgerNext, KeyNext
  <1>3. TypeInv /\ LedgerInv /\ KeyInv /\ [Next]_vars => [C!CommitsNext]_(C!commitVars)
    BY CommitIsCommit, OthersRollBack, OnlyCommitsMoveMoney DEF C!CommitsNext
  <1> QED BY <1>1, <1>2, <1>3, PTL DEF Spec, CommitsOnce, C!CommitsSpec
=============================================================================
