------------------------------- MODULE Wallet -------------------------------
(***************************************************************************)
(* The wallet service (src/wallet/wallet.service.ts) and the admin unlock  *)
(* (src/admin/admin.service.ts), as Node runs them: every HTTP request is  *)
(* a sequence of database calls separated by `await`, and at each await    *)
(* any other request may run.  One action is what a request does between   *)
(* two awaits: a database call and the synchronous code after it.          *)
(*                                                                         *)
(* What a request reads it keeps in a JavaScript object and uses later     *)
(* (snap, peer below).  A prisma.$transaction is one atomic action: it     *)
(* makes blind writes, and PostgreSQL shows none of them before COMMIT.    *)
(* Amounts are whole multiples of what a Decimal(20,2) column stores.      *)
(***************************************************************************)
EXTENDS Integers, Sequences, FiniteSets, Functions

CONSTANTS
    Devs,           \* developers; a wallet is named by its owner
    Strangers,      \* recipient ids that are no developer's
    Pins,           \* transaction PINs
    NoPin,          \* the PIN column's NULL
    Keys,           \* idempotency keys the if (dto.idempotencyKey) test sees
    NoKey,          \* no idempotencyKey in the request: NULL in its column
    EmptyKey,       \* idempotencyKey "": falsy for the test, a value in the column
    Reqs,           \* the HTTP requests of a behaviour
    OpeningRef,     \* the reference of the row that funded an opened wallet
    Calls,          \* what a request may ask for (a subset of CallType)
    Opened,         \* the wallets that exist at the start
    Opening,        \* their [balance, pin]
    MaxPinAttempts, \* wrong PINs that lock a wallet: 3 in the code
    Overlap         \* may a request arrive while another one is in flight?

MoneyOps == {"fund", "transfer", "withdraw"}
Ops == MoneyOps \cup {"setPin", "changePin", "unlock", "read"}

CallType == [op: Ops, dev: Devs, to: Devs \cup Strangers, amount: Nat,
             pin: Pins, newPin: Pins, key: Keys \cup {NoKey, EmptyKey}]

ASSUME WalletAssumption ==
    /\ NoPin \notin Pins
    /\ NoKey \notin Keys /\ EmptyKey \notin Keys /\ NoKey # EmptyKey
    /\ Strangers \cap Devs = {}
    /\ OpeningRef \notin Reqs
    /\ Calls \subseteq CallType
    /\ Opened \subseteq Devs
    /\ Opening \in [Devs -> [balance: Nat, pin: Pins \cup {NoPin}]]
    /\ MaxPinAttempts \in Nat \ {0}
    /\ Overlap \in BOOLEAN

VARIABLES
    created,    \* the developers that have a row in table Wallet
    wallet,     \* table Wallet: the row of each developer
    ledger,     \* table WalletTransaction, by wallet, oldest row first
    audit,      \* table AuditLog: the requests that wrote their row
    call,       \* what each request asks for (the validated DTO)
    pc,         \* the await a request is at, or how it was answered
    snap,       \* the caller's row, as the request read it
    peer,       \* the recipient's row, as the transfer read it
    clobbered   \* history: wallets in which a write replaced a balance other
                \* than the one the new balance was computed from

vars == <<created, wallet, ledger, audit, call, pc, snap, peer, clobbered>>

-----------------------------------------------------------------------------
(* Types.  lockReason is set and cleared with isLocked and is left out.    *)

WalletRow == [balance: Int, pin: Pins \cup {NoPin},
              failedPinAttempts: Nat, isLocked: BOOLEAN]

NewWallet == [balance |-> 0, pin |-> NoPin,
              failedPinAttempts |-> 0, isLocked |-> FALSE]

LedgerRow == [ref: Reqs \cup {OpeningRef}, type: {"CREDIT", "DEBIT"}, amount: Nat,
              before: Int, after: Int, key: Keys \cup {NoKey, EmptyKey}]

Refusals == {"locked", "noPin", "badPin", "insufficient", "notFound"}
Answers == Refusals \cup {"ok", "duplicate", "failed"}
Waiting == {"idem", "find", "create", "pinFail", "reset", "findTo", "createTo",
            "commit", "savePin", "unlock", "audit", "reply"}

TypeOK ==
    /\ created \in SUBSET Devs
    /\ wallet \in [Devs -> WalletRow]
    /\ ledger \in [Devs -> Seq(LedgerRow)]
    /\ audit \in SUBSET Reqs
    /\ call \in [Reqs -> Calls]
    /\ pc \in [Reqs -> {"new"} \cup Waiting \cup Answers]
    /\ snap \in [Reqs -> WalletRow]
    /\ peer \in [Reqs -> WalletRow]
    /\ clobbered \in SUBSET Devs

-----------------------------------------------------------------------------
Credit(r, amount, row, key) ==
    [ref |-> r, type |-> "CREDIT", amount |-> amount,
     before |-> row.balance, after |-> row.balance + amount, key |-> key]

SignedDebit(r, amount, row, key) ==                         \* mutant of Debit
    [ref |-> r, type |-> "DEBIT", amount |-> -amount,
     before |-> row.balance, after |-> row.balance - amount, key |-> key]

Debit(r, amount, row, key) ==
    [ref |-> r, type |-> "DEBIT", amount |-> amount,
     before |-> row.balance, after |-> row.balance - amount, key |-> key]

OpenedWallet(d) == [balance |-> Opening[d].balance, pin |-> Opening[d].pin,
                    failedPinAttempts |-> 0, isLocked |-> FALSE]

OpeningRow(d) == Credit(OpeningRef, Opening[d].balance, NewWallet, NoKey)

Init ==
    /\ created = Opened
    /\ wallet = [d \in Devs |->
                   IF d \in Opened THEN OpenedWallet(d) ELSE NewWallet]
    /\ ledger = [d \in Devs |-> IF d \in Opened /\ Opening[d].balance > 0
                                THEN <<OpeningRow(d)>> ELSE <<>>]
    /\ audit = {}
    /\ call \in [Reqs -> Calls]
    /\ pc = [r \in Reqs |-> "new"]
    /\ snap = [r \in Reqs |-> NewWallet]
    /\ peer = [r \in Reqs |-> NewWallet]
    /\ clobbered = {}

InFlight == {r \in Reqs : pc[r] \in Waiting}

Goto(r, label) == pc' = [pc EXCEPT ![r] = label]

(* A write was carried out: its answer is read, or is lost (the connection *)
(* or the process is), and then the await throws and the request fails.    *)
Lands(r, label) == \E l \in {label, "failed"} : Goto(r, l)

(* The request reaches its handler.  Only the three money operations look  *)
(* the idempotency key up, and only if it is truthy.                       *)
Arrive(r) ==
    /\ pc[r] = "new"
    /\ Overlap \/ InFlight = {}
    /\ Goto(r, IF call[r].op \in MoneyOps /\ call[r].key \in Keys THEN "idem" ELSE "find")
    /\ UNCHANGED <<created, wallet, ledger, audit, call, snap, peer, clobbered>>

(* walletTransaction.findUnique({ where: { idempotencyKey } }).            *)
KeyUsed(key) == \E d \in Devs : \E i \in DOMAIN ledger[d] : ledger[d][i].key = key

CheckKey(r) ==
    /\ pc[r] = "idem"
    /\ Goto(r, IF KeyUsed(call[r].key) THEN "duplicate" ELSE "find")
    /\ UNCHANGED <<created, wallet, ledger, audit, call, snap, peer, clobbered>>

(* Where a handler goes once it holds its wallet row: the checks it makes  *)
(* before the next await, in their order.                                  *)
AfterRead(c, row) ==
    IF c.op = "read" THEN "ok"
    ELSE IF c.op = "setPin" THEN "savePin"
    ELSE IF c.op = "unlock" THEN "unlock"
    ELSE IF c.op \in MoneyOps /\ row.isLocked THEN "locked"
    ELSE IF c.op = "fund" THEN "commit"
    ELSE IF row.pin = NoPin THEN "noPin"
    ELSE IF c.op = "changePin" THEN (IF c.pin = row.pin THEN "savePin" ELSE "badPin")
    ELSE IF c.pin = row.pin THEN "reset" ELSE "pinFail"

(* wallet.findUnique({ where: { developerId } }).  The admin unlock gives  *)
(* up on a missing wallet, every other handler creates it.                 *)
FindWallet(r) ==
    LET c == call[r] IN
    /\ pc[r] = "find"
    /\ \/ /\ c.dev \in created
          /\ snap' = [snap EXCEPT ![r] = wallet[c.dev]]
          /\ Goto(r, AfterRead(c, wallet[c.dev]))
       \/ /\ c.dev \notin created
          /\ Goto(r, IF c.op = "unlock" THEN "notFound" ELSE "create")
          /\ UNCHANGED snap
    /\ UNCHANGED <<created, wallet, ledger, audit, call, peer, clobbered>>

(* wallet.create({ data: { developerId } }): the unique index on           *)
(* developerId fails the second of two creations.                          *)
CreateWallet(r) ==
    LET c == call[r] IN
    /\ pc[r] = "create"
    /\ \/ /\ c.dev \notin created
          /\ created' = created \cup {c.dev}
          /\ snap' = [snap EXCEPT ![r] = NewWallet]
          /\ Lands(r, AfterRead(c, NewWallet))
       \/ /\ c.dev \in created
          /\ Goto(r, "failed")
          /\ UNCHANGED <<created, snap>>
    /\ UNCHANGED <<wallet, ledger, audit, call, peer, clobbered>>

(* Mutants of HandleFailedPin: it returns instead of throwing, so that the *)
(* operation goes on; it locks one attempt late.                           *)
HandleFailedPinReturns(r) ==
    LET d == call[r].dev IN
    /\ pc[r] = "pinFail"
    /\ wallet' = [wallet EXCEPT ![d].failedPinAttempts = snap[r].failedPinAttempts + 1]
    /\ Goto(r, "reset")
    /\ UNCHANGED <<created, ledger, audit, call, snap, peer, clobbered>>

HandleFailedPinLate(r) ==
    LET d == call[r].dev
        attempts == snap[r].failedPinAttempts + 1 IN
    /\ pc[r] = "pinFail"
    /\ wallet' = [wallet EXCEPT
                    ![d].failedPinAttempts = attempts,
                    ![d].isLocked = @ \/ attempts > MaxPinAttempts]
    /\ Lands(r, "badPin")
    /\ UNCHANGED <<created, ledger, audit, call, snap, peer, clobbered>>

(* handleFailedPin: the new count comes from the row the request read.     *)
HandleFailedPin(r) ==
    LET d == call[r].dev
        attempts == snap[r].failedPinAttempts + 1 IN
    /\ pc[r] = "pinFail"
    /\ wallet' = [wallet EXCEPT
                    ![d].failedPinAttempts = attempts,
                    ![d].isLocked = @ \/ attempts >= MaxPinAttempts]
    /\ Lands(r, "badPin")
    /\ UNCHANGED <<created, ledger, audit, call, snap, peer, clobbered>>

(* The balance check and what follows it; the mutant compares with zero.   *)
AfterResetIfAnyMoney(c, row) ==
    IF row.balance <= 0 THEN "insufficient"
    ELSE IF c.op = "transfer" THEN "findTo" ELSE "commit"

AfterReset(c, row) ==
    IF row.balance < c.amount THEN "insufficient"
    ELSE IF c.op = "transfer" THEN "findTo" ELSE "commit"

(* Mutant of ResetAttempts: it saves the whole row, as it was read.        *)
ResetAttemptsSavesRow(r) ==
    LET c == call[r] IN
    /\ pc[r] = "reset"
    /\ wallet' = [wallet EXCEPT ![c.dev] = [snap[r] EXCEPT !.failedPinAttempts = 0]]
    /\ Lands(r, AfterReset(c, snap[r]))
    /\ UNCHANGED <<created, ledger, audit, call, snap, peer, clobbered>>

(* The PIN was right: the count is cleared, then the balance checked.      *)
ResetAttempts(r) ==
    LET c == call[r] IN
    /\ pc[r] = "reset"
    /\ wallet' = [wallet EXCEPT ![c.dev].failedPinAttempts = 0]
    /\ Lands(r, AfterReset(c, snap[r]))
    /\ UNCHANGED <<created, ledger, audit, call, snap, peer, clobbered>>

FindRecipient(r) ==
    LET to == call[r].to IN
    /\ pc[r] = "findTo"
    /\ \/ /\ to \in created
          /\ peer' = [peer EXCEPT ![r] = wallet[to]]
          /\ Goto(r, "commit")
       \/ /\ to \notin created
          /\ Goto(r, "createTo")
          /\ UNCHANGED peer
    /\ UNCHANGED <<created, wallet, ledger, audit, call, snap, clobbered>>

(* The foreign key on developerId fails the creation for a stranger.       *)
CreateRecipient(r) ==
    LET to == call[r].to IN
    /\ pc[r] = "createTo"
    /\ \/ /\ to \in Devs \ created
          /\ created' = created \cup {to}
          /\ peer' = [peer EXCEPT ![r] = NewWallet]
          /\ Goto(r, "commit")
       \/ /\ to \notin Devs \ created
          /\ Goto(r, "failed")
          /\ UNCHANGED <<created, peer>>
    /\ UNCHANGED <<wallet, ledger, audit, call, snap, clobbered>>

-----------------------------------------------------------------------------
(* The $transaction callbacks.  The unique index on idempotencyKey fails   *)
(* the insert of a key that is already there; NULLs never conflict.        *)
KeyFreeUnindexed(key) == TRUE                             \* mutant of KeyFree

KeyFree(key) == key = NoKey \/ ~KeyUsed(key)

(* wallet.update({ data: { balance } }) in table w, and its mutant: an     *)
(* atomic increment, beside a ledger row computed from the row read.       *)
SetBalanceByIncrement(w, d, row) ==
    [w EXCEPT ![d].balance = @ + row.after - row.before]

SetBalance(w, d, row) == [w EXCEPT ![d].balance = row.after]

(* walletTransaction.create in table l, and its mutant: a row whose        *)
(* reference is already there is skipped (no _cr suffix, skipDuplicates).  *)
AddRowOncePerRef(l, d, row) ==
    IF \E e \in Devs : \E i \in DOMAIN l[e] : l[e][i].ref = row.ref
    THEN l ELSE [l EXCEPT ![d] = Append(@, row)]

AddRow(l, d, row) == [l EXCEPT ![d] = Append(@, row)]

(* The write replaces a balance other than the one row was computed from.  *)
Clobbers(w, d, row) == IF w[d].balance = row.before THEN {} ELSE {d}

(* The rows of a request: the one its owner sees, and the recipient's,     *)
(* which never carries the key.                                            *)
FundRow(r) == Credit(r, call[r].amount, snap[r], call[r].key)
DebitRow(r) == Debit(r, call[r].amount, snap[r], call[r].key)
RecipientRow(r) == Credit(r, call[r].amount, peer[r], NoKey)

Fund(r) ==
    LET c == call[r] IN
    /\ pc[r] = "commit" /\ c.op = "fund"
    /\ KeyFree(c.key)
    /\ wallet' = SetBalance(wallet, c.dev, FundRow(r))
    /\ ledger' = AddRow(ledger, c.dev, FundRow(r))
    /\ clobbered' = clobbered \cup Clobbers(wallet, c.dev, FundRow(r))
    /\ Goto(r, "reply")
    /\ UNCHANGED <<created, audit, call, snap, peer>>

Withdraw(r) ==
    LET c == call[r] IN
    /\ pc[r] = "commit" /\ c.op = "withdraw"
    /\ KeyFree(c.key)
    /\ wallet' = SetBalance(wallet, c.dev, DebitRow(r))
    /\ ledger' = AddRow(ledger, c.dev, DebitRow(r))
    /\ clobbered' = clobbered \cup Clobbers(wallet, c.dev, DebitRow(r))
    /\ Goto(r, "reply")
    /\ UNCHANGED <<created, audit, call, snap, peer>>

(* Sender first, recipient second: when they are the same wallet the       *)
(* second update overwrites the first.                                     *)
Transfer(r) ==
    LET c == call[r]
        sent == SetBalance(wallet, c.dev, DebitRow(r)) IN
    /\ pc[r] = "commit" /\ c.op = "transfer"
    /\ KeyFree(c.key)
    /\ wallet' = SetBalance(sent, c.to, RecipientRow(r))
    /\ ledger' = AddRow(AddRow(ledger, c.dev, DebitRow(r)), c.to, RecipientRow(r))
    /\ clobbered' = clobbered \cup Clobbers(wallet, c.dev, DebitRow(r))
                              \cup Clobbers(sent, c.to, RecipientRow(r))
    /\ Goto(r, "reply")
    /\ UNCHANGED <<created, audit, call, snap, peer>>

(* Unique violation: the transaction is rolled back, the request fails.    *)
(* The mutants swallow the error; they keep the balance already written.   *)
KeyConflictSwallowed(r) ==
    /\ pc[r] = "commit"
    /\ ~KeyFree(call[r].key)
    /\ Goto(r, "reply")
    /\ UNCHANGED <<created, wallet, ledger, audit, call, snap, peer, clobbered>>

KeyConflictKeepsBalance(r) ==
    LET c == call[r] IN
    /\ pc[r] = "commit"
    /\ ~KeyFree(c.key)
    /\ wallet' = SetBalance(wallet, c.dev, IF c.op = "fund" THEN FundRow(r) ELSE DebitRow(r))
    /\ Goto(r, "failed")
    /\ UNCHANGED <<created, ledger, audit, call, snap, peer, clobbered>>

KeyConflict(r) ==
    /\ pc[r] = "commit"
    /\ ~KeyFree(call[r].key)
    /\ Goto(r, "failed")
    /\ UNCHANGED <<created, wallet, ledger, audit, call, snap, peer, clobbered>>

-----------------------------------------------------------------------------
SavePin(r) ==
    LET c == call[r] IN
    /\ pc[r] = "savePin"
    /\ wallet' = [wallet EXCEPT ![c.dev].pin = c.newPin]
    /\ Goto(r, IF c.op = "changePin" THEN "audit" ELSE "reply")
    /\ UNCHANGED <<created, ledger, audit, call, snap, peer, clobbered>>

UnlockKeepsCount(r) ==                                     \* mutant of Unlock
    /\ pc[r] = "unlock"
    /\ wallet' = [wallet EXCEPT ![call[r].dev].isLocked = FALSE]
    /\ Goto(r, "audit")
    /\ UNCHANGED <<created, ledger, audit, call, snap, peer, clobbered>>

Unlock(r) ==
    LET d == call[r].dev IN
    /\ pc[r] = "unlock"
    /\ wallet' = [wallet EXCEPT ![d].isLocked = FALSE, ![d].failedPinAttempts = 0]
    /\ Goto(r, "audit")
    /\ UNCHANGED <<created, ledger, audit, call, snap, peer, clobbered>>

WriteAudit(r) ==
    /\ pc[r] = "audit"
    /\ audit' = audit \cup {r}
    /\ Goto(r, "reply")
    /\ UNCHANGED <<created, wallet, ledger, call, snap, peer, clobbered>>

(* The handler returned and its response reaches the client.               *)
Reply(r) ==
    /\ pc[r] = "reply"
    /\ Goto(r, "ok")
    /\ UNCHANGED <<created, wallet, ledger, audit, call, snap, peer, clobbered>>

(* The awaited call throws (lost connection, deadlock victim, transaction  *)
(* timeout), the process dies, or the response is lost: the client sees a  *)
(* failed request, and what was committed before stays committed.          *)
Fail(r) ==
    /\ pc[r] \in Waiting
    /\ Goto(r, "failed")
    /\ UNCHANGED <<created, wallet, ledger, audit, call, snap, peer, clobbered>>

Handle(r) ==
    \/ CheckKey(r) \/ FindWallet(r) \/ CreateWallet(r)
    \/ HandleFailedPin(r) \/ ResetAttempts(r)
    \/ FindRecipient(r) \/ CreateRecipient(r)
    \/ Fund(r) \/ Withdraw(r) \/ Transfer(r) \/ KeyConflict(r)
    \/ SavePin(r) \/ Unlock(r) \/ WriteAudit(r) \/ Reply(r)

Next == \E r \in Reqs : Arrive(r) \/ Handle(r) \/ Fail(r)

Spec == Init /\ [][Next]_vars

-----------------------------------------------------------------------------
(* What holds under every interleaving, failure and retry.                 *)

Posted(r) == \E d \in Devs : \E i \in DOMAIN ledger[d] : ledger[d][i].ref = r

RowsOf(d, r, type) ==
    {i \in DOMAIN ledger[d] : ledger[d][i].ref = r /\ ledger[d][i].type = type}

SignedAmount(row) == IF row.type = "CREDIT" THEN row.amount ELSE -row.amount

(* No wallet, and no row of the ledger, ever shows a negative balance:     *)
(* withdraw and transfer compare the amount with the same row they later   *)
(* subtract it from, so stale rows lose updates but never overdraw.        *)
NoOverdraft ==
    \A d \in Devs : /\ wallet[d].balance >= 0
                    /\ \A i \in DOMAIN ledger[d] : ledger[d][i].after >= 0

(* The balance column always equals balanceAfter of the wallet's newest    *)
(* WalletTransaction: each $transaction writes both or neither, for both   *)
(* sides of a transfer, and also when sender and recipient coincide.       *)
BalanceIsNewestRow ==
    \A d \in Devs :
        wallet[d].balance = IF ledger[d] = <<>> THEN 0
                            ELSE ledger[d][Len(ledger[d])].after

(* Idempotency: of all requests that carry one key, at most one ever moves *)
(* money, whatever is retried, overlapped or answered with an error.       *)
OncePerKey ==
    \A r, s \in Reqs :
        r # s /\ call[r].key = call[s].key /\ call[r].key # NoKey
            => ~(Posted(r) /\ Posted(s))

(* A transfer leaves exactly one debit with the sender and one credit with *)
(* the recipient, of the amount asked for, or nothing anywhere.            *)
BothLegs ==
    \A r \in Reqs : call[r].op = "transfer" /\ Posted(r) =>
        LET c == call[r] IN
        /\ \E i \in DOMAIN ledger[c.dev] : /\ RowsOf(c.dev, r, "DEBIT") = {i}
                                          /\ ledger[c.dev][i].amount = c.amount
        /\ \E i \in DOMAIN ledger[c.to] : /\ RowsOf(c.to, r, "CREDIT") = {i}
                                         /\ ledger[c.to][i].amount = c.amount

(* A wallet's rows form a chain, each balanceBefore the balanceAfter of    *)
(* the row before it, unless some write replaced a balance it had not      *)
(* read: stale rows (and self-transfers) are the only way to break it.     *)
ChainUnlessClobbered ==
    \A d \in Devs \ clobbered : \A i \in DOMAIN ledger[d] :
        ledger[d][i].before = IF i = 1 THEN 0 ELSE ledger[d][i - 1].after

(* Even where a balance is clobbered no row starts from thin air: its      *)
(* balanceBefore is a balance this wallet once had, never one mixed from   *)
(* two reads or taken from the other side of a transfer.                   *)
StartsFrom(d, i) ==
    \/ ledger[d][i].before = 0
    \/ \E j \in 1 .. i - 1 : ledger[d][j].after = ledger[d][i].before

RowsChain ==
    /\ ChainUnlessClobbered
    /\ \A d \in Devs : \A i \in DOMAIN ledger[d] : StartsFrom(d, i)

(* The ledger of a wallet is the history of its balance: its newest row    *)
(* shows the present one, and its rows continue each other.                *)
LedgerIsHistory == BalanceIsNewestRow /\ RowsChain

(* The balance column is the sum of the wallet's transactions, credits     *)
(* less debits: no WalletTransaction is without effect on the balance.     *)
AddsUp(d) ==
    wallet[d].balance = SumFunction([i \in DOMAIN ledger[d] |-> SignedAmount(ledger[d][i])])

BalanceMatchesLedger == \A d \in Devs : AddsUp(d)

(* A client that is told "ok" finds its rows in the ledger; one that is    *)
(* refused finds none; "Duplicate request" means that a request with the   *)
(* same key did the work.  Only "failed" leaves the client in doubt.       *)
AnswerMatchesLedger ==
    \A r \in Reqs : call[r].op \in MoneyOps =>
        /\ pc[r] \in {"reply", "ok"} => Posted(r)
        /\ pc[r] \notin {"reply", "ok", "failed"} => ~Posted(r)
        /\ pc[r] = "duplicate" => \E s \in Reqs : call[s].key = call[r].key /\ Posted(s)

(* A PIN change or an unlock that was answered "ok" is in the AuditLog,    *)
(* and a row of it is by a request that got past its change: one that was  *)
(* refused is never audited, and only a failed one leaves a doubt.         *)
Audited == {"changePin", "unlock"}

AuditMatchesAnswer ==
    \A r \in Reqs :
        /\ call[r].op \in Audited /\ pc[r] = "ok" => r \in audit
        /\ r \in audit => call[r].op \in Audited /\ pc[r] \in {"reply", "ok", "failed"}

AnswerMatchesRecords == AnswerMatchesLedger /\ AuditMatchesAnswer

(* Money leaves a wallet only on a request of its owner that presented the *)
(* PIN of an unlocked wallet and asked for no more than it held when read. *)
DebitsAuthorised ==
    \A d \in Devs : \A i \in DOMAIN ledger[d] :
        LET row == ledger[d][i] IN
        row.type = "DEBIT" =>
            /\ row.ref \in Reqs
            /\ call[row.ref].dev = d /\ call[row.ref].op \in {"withdraw", "transfer"}
            /\ snap[row.ref].pin = call[row.ref].pin /\ ~snap[row.ref].isLocked
            /\ row.amount <= snap[row.ref].balance

(* An unlocked wallet always has an attempt left, however wrong PINs,      *)
(* right PINs and unlocks race: the count and the lock are written         *)
(* together, and the unlock clears both.                                   *)
UnlockedBelowLimit ==
    \A d \in Devs : /\ wallet[d].failedPinAttempts <= MaxPinAttempts
                    /\ ~wallet[d].isLocked => wallet[d].failedPinAttempts < MaxPinAttempts

(* Strikes are earned: the count never exceeds the money operations that   *)
(* presented a wrong PIN to the unlocked wallet they had read, and no      *)
(* wallet is locked before there were MaxPinAttempts of them, whatever     *)
(* stale count a request writes back and however it ended: told that the   *)
(* PIN is wrong, or failed, before or after its UPDATE was committed.      *)
PresentedWrongPin(r) ==
    /\ call[r].op \in {"transfer", "withdraw"}
    /\ snap[r].pin \notin {NoPin, call[r].pin} /\ ~snap[r].isLocked

WrongPins(d) ==
    {r \in Reqs : /\ call[r].dev = d /\ pc[r] \in {"badPin", "failed"}
                  /\ PresentedWrongPin(r)}

StrikesEarned ==
    \A d \in Devs :
        /\ wallet[d].failedPinAttempts <= Cardinality(WrongPins(d))
        /\ wallet[d].isLocked => Cardinality(WrongPins(d)) >= MaxPinAttempts

LockoutSound == UnlockedBelowLimit /\ StrikesEarned

(* Only the admin unlock clears isLocked; no stale write undoes a lock.    *)
LockKept ==
    \A d \in Devs : wallet[d].isLocked /\ ~wallet'[d].isLocked
        => \E r \in Reqs : call[r].op = "unlock" /\ call[r].dev = d /\ pc[r] = "unlock"

LockSticks == [][LockKept]_vars
=============================================================================
