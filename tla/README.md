# StackPay: a TLA+ verification project

TLA+ models of the StackPay API (`src/src/`, NestJS on PostgreSQL through Prisma,
Redis and Bull), the TLC runs that check them on small instances, and theorems
about every component that TLAPS proves for every instance. `PROJECT.json` lists the
runs, the theorems, the lines each definition models, the hazards and the findings.

## 1. The system

One Node process serves HTTP. A request handler is an `async` function: between
two `await`s nothing else runs, at an `await` any other request may. Every shared
fact is a row of PostgreSQL, an entry of Redis or a job of Bull, so the handlers
are concurrent processes that interact through a store. What a handler has read is
a JavaScript object of its own and may be stale when it is used. There are almost no
locks and few transactions: correctness rests on unique indexes, foreign keys, `INCR`,
and on which row each value was computed from.

| Component | State | Operations | What makes it correct |
|---|---|---|---|
| Wallet (`wallet/`, `admin.unlockWallet`) | tables Wallet, WalletTransaction, AuditLog | fund, transfer, withdraw, setPin, changePin, unlock, reads that create the wallet | no overdraft; balance agrees with the ledger; a key moves money once; a transfer has both legs; PIN before debit; a lock stays until an admin clears it |
| Webhooks (`webhooks/`) | tables Webhook, WebhookDelivery; Bull's queue | create, delete, test, emitEvent, deliverWebhook | a row that says success is true; a finished job left its row; no needless second POST; every job ends |
| Auth (`auth/`, `admin.toggleDeveloper`) | tables Developer, RefreshToken | register, login, verifyEmail, refresh, logout, toggle | one account per address; tokens come from a login or in exchange for a revoked one; spent tokens and links are refused |
| Keys and quota (`keys/`, `common/redis.service.ts`, `admin.upgradePlan`) | table ApiKey, Developer.plan, Redis counters with time to live | createKey, revokeKey, getQuota, the guard (validateKey, INCR, EXPIRE), upgradePlan | no more than the limit per month; refused only for cause; revoked keys refused; what getQuota says is left is there; counters expire |
| Messaging (`messaging/`) | one Redis entry per recipient | sendOtp, verifyOtp | a code is accepted once, and only the newest; a right code is refused only for a cause |
| Request log (`common/logging.interceptor.ts`, `keys.getUsage`, `dashboard.getStats`) | table RequestLog | one insert behind each answer, counts | usage counts what was served with the key; the counts of a report fit together |
| Payments (`payments/`) | none here; charges at Paystack and Flutterwave | initialize, verify, the providers' webhook | the amount reported is the amount asked for, wherever doubles give it back; what was initialized is found again |
| Identity (`identity/`) | none | fixed answers; one call of Paystack | - |
| Other dashboards, admin lists | none | reads of one table each | read only |
| Shell (`main.ts`, guards, `create-admin.ts`) | none | wiring, validation, roles | - |

Interactions: every component hangs on the Developer row; the guard of Keys stands
before Wallet's requests; admin operations write the tables of Wallet, Auth and Keys;
`emitEvent` is exported by Webhooks, and nothing in `src/` calls it yet. The logging
interceptor wraps every handler, and the reports count what it wrote.

Hard behaviours: requests that overlap on one row (all components), values computed
from a row read several awaits earlier (wallet, toggle, guard), a crash between two
statements (audit rows, refresh, INCR/EXPIRE, POST/row), client retries and idempotency
keys, Bull's retries and stalled jobs, row locks taken in different orders, promises nobody
awaits, and time (the end of a month, expiry).

## 2. Modules

| Module | Role |
|---|---|
| `Wallet` | the wallet service and the admin unlock, one action per await |
| `Bank` | what the README of the repository promises of wallets: atomic balances, strikes, locks |
| `WalletBank` | Wallet as Bank: the refinement mapping; the sum of all balances |
| `WalletCommits` | Wallet as Commits (below): the refinement mapping |
| `MCWallet` | instances of Wallet and WalletBank, the lockout claim of the README |
| `WalletProofs` | types, balances, keys and locks of Wallet: theorems |
| `WalletMoneyProofs` | what ledger and audit rows say of the requests that made them, sums, Wallet implements Commits: theorems |
| `WalletBankProofs` | the sum of all balances; one request at a time, Wallet implements Bank: theorems |
| `Transactions`, `MCTransactions` | the wallet's `$transaction` callbacks, one SQL statement per action, with PostgreSQL's row locks; its instances |
| `Commits` | those transactions as single steps: the abstract specification that Transactions and Wallet implement |
| `TransactionsProofs` | the theorems about Transactions |
| `Webhooks`, `MCWebhooks` | the webhook service, the job processor, Bull's queue; its instances |
| `WebhooksProofs` | the theorems about Webhooks |
| `Sessions`, `MCSessions` | accounts, refresh tokens, verification links; its instances |
| `SessionsProofs` | the theorems about Sessions |
| `Quota`, `MCQuota` | API keys, the guard, Redis counters, the clock; its instances |
| `QuotaProofs` | the theorems about Quota |
| `Requests` | what the five modules below share: a request, where its handler is, what it came after |
| `Otp` | one-time passwords |
| `RequestLog` | the interceptor's inserts, the death of the process, getUsage and getStats |
| `Payments` | charges at the two providers |
| `Identity` | the handlers without state |
| `Listing` | the pages of getTransactions over a ledger that grows |
| `Api`, `MCApi` | the composition of those five in one process; its instances |
| `ApiProofs` | the theorems about Api and its parts |

The conventions are the same everywhere. `Reqs` are the HTTP requests, `Calls` what they
may ask for, `pc[r]` the await request `r` is at or the way it was answered. An action is
one call of the database, of Redis or of an endpoint together with the synchronous code up
to the next await: the checks and early returns after a read decide where `Goto` leads.
`Fail(r)` (in `Webhooks`, `SaveFails`, `JobStalls` and `Crash`) is a failed call, or the death of
the process, at any await. A call that was carried out and whose answer is lost ends the
request as `failed` too: where the answer leads to a further await, it is the action followed by
`Fail`; where it leads to the end of the handler, the action itself has both outcomes
(`Lands` in `Wallet` and `Requests`, `Written` in `Quota`). Names that end a pair (`PostOptimistic` before `Post`) are mutants: the
same action with a plausible bug, used to show that a property can fail and in no
specification.

**Wallet.** `snap[r]` and `peer[r]` are the caller's and the recipient's row as the request
read them. A `prisma.$transaction` is one atomic action: its statements are blind writes,
and PostgreSQL shows none of them before COMMIT (`Transactions` shows that this may be done).
`SetBalance`, `AddRow` and `KeyFree` are its
statements and its unique index. The primary data of a row is kept (balance, PIN, count,
lock), amounts are whole multiples of what `Decimal(20,2)` stores, bcrypt comparison is
equality of PINs, `lockReason` follows `isLocked` and is dropped, DTO validation (amounts of
at least 100) is the set `Calls`. `clobbered` is a history variable: the wallets in which some
write replaced a balance it had not read. `PresentedWrongPin(r)` is a request that was refused its
PIN, or failed with one that was wrong: the update that counts it may be committed and its
answer lost.

**Webhooks.** Delivery ids are `<<event, webhook>>` for a queued job and the request itself
for a test. A webhook that is created is named by its request. Bull is modelled as
configured: three attempts, one job at a time, a job that was active when the process died
is found stalled and run once more. It is stalled too when Redis fails the worker as the handler
returns, or the job's lock was lost by then (`JobStalls`, which shares the bound `MaxCrashes`
with `Crash`). What is left out is a lock that is lost while the POST or the save still runs:
the job then starts again beside the handler that has it, and two handlers of one job overlap.
A delivery takes five seconds at most before its save and the lock is renewed meanwhile, so this
needs a Redis that cannot be reached and a database that does not answer. A retry's delay is
left out: it only postpones. The POST has three outcomes (answered with success, taken in but not answered so, not taken in).

**Sessions.** Tokens are named by the request that drew them. `Holds` restricts clients to
tokens some request was answered with. Expiry is an action that may happen to any token at
any time after its creation. `seen[r]` records which requests were answered before `r`
arrived, so that properties can speak of "later" requests; `setBy[e]` is the request that wrote
`isVerified` last. `flag[r]` is the `isVerified` a login or a toggle read.

**Quota.** Time is counted in ticks of half a second, because `getSecondsUntilMonthEnd` cuts
to whole seconds. A counter is `quota:usage:<key>:<month>`; `now[r]`, `count[r]`, `row[r]` are
the local variables of the guard and of getQuota: the clock, the count Redis answered, the plan in
the row. `had[d]` are the plans `d` really had. An INCR, an EXPIRE or a row may be
written and its answer lost. ioredis may itself send a command again whose connection broke, so
that one request counts twice; the model has one INCR per request. `Tick` lets Redis drop what has expired.

**Transactions.** `at[t]` is the statement a transaction is at. `dirty[w]` is both the lock of
row `w` and the uncommitted balance in it; `entry[k]` the uncommitted entry of the unique index.
A write is named by its transaction and leg, because the values were computed before the
transaction began. `Update` waits for the row's holder, `Insert` for an uncommitted equal key;
`KeyConflict` is the unique violation; `Fail` a lost connection, Prisma's time limit or the
death of the process; `DeadlockVictim` PostgreSQL's deadlock detection. The updates outside of
`$transaction` (PIN counts, locks, resets) hold one row for one statement and cannot be part of a
cycle; they are left out. The foreign key of a ledger row locks the wallet row its transaction has
already updated.

**Api.** Each of `Otp`, `Payments`, `Identity`, `Listing` and `RequestLog` has the actions of its own
variables, over the shared `call`, `pc` and `seen`; `Api` joins them and leaves the variables of
the others unchanged. `Lands(r, l)` is a call that was carried out and whose answer was read, or
lost. The row of a request is pending from the moment its handler returned (`Served`), is
inserted before or after the client has its answer, and is lost if the process dies first: an
insert that fails is such a death, since its rejection is handled by nobody. The requests of `Api`
are those the guards have let in; who is let in is the subject of `Sessions` and `Quota`. A
charge is named by the request that made it (its reference); `Earlier` is a password that was
sent before the run begins. The amounts of `Payments` are doubles, which the
model never computes with: `Kobo[a]` is what `a * 100` evaluates to, `Naira[u]` what `u / 100`
does, `Whole` the kobo amounts Paystack keeps as they are; what it makes of another number is
its own choice. In `Listing` a row has its `createdAt`, taken before the commit, and a query
returns rows of equal `createdAt` in any order (`Top`), a page what is left of them behind an
offset (`Windows`).

## 3. Runs

| Run | Question | Instance |
|---|---|---|
| `wallet_race` | What survives every interleaving? | 3 requests out of 14 calls, 3 developers, 1 stranger, 2 PINs, 2 keys and the empty key |
| `wallet_serial` | Without overlap, is it the bank? | 4 requests one at a time, each may fail at every await |
| `wallet_lost_update` | violated: balances are sums of ledgers | 2 overlapping requests, nothing wrong in either |
| `wallet_self_transfer` | violated: a transfer keeps the sum of balances | 1 transfer to oneself |
| `wallet_lockout` | violated: the limit of wrong PINs locks | overlapping wrong PINs |
| `webhooks_race` | Are rows truthful, jobs recorded, events queued for whom they should be, and does every job end? | a delete racing a create, a test or a delete (also of a second developer; where the create adds a second job the delete is a stranger's), 1 event, 1 registered webhook, 2 attempts, 2 crashes or lost locks, 1 stall |
| `webhooks_no_retry` | violated: refused deliveries are retried | 1 request, no crash |
| `sessions_race` | Are accounts, tokens and links sound? | 3 requests, a verified developer with a token, an unverified one with a link, a new address |
| `sessions_reuse` | violated: a token is exchanged once | 3 refreshes |
| `quota_race` | Is the quota exact, are revoked keys out, and is what getQuota says is left there? | 3 requests of any kind, limits 1 and 2, a month of 4 ticks and half of the next; or 3 with one key and an upgrade, in one month, at most one failing |
| `api_race` | Are passwords spent once, charges reported as asked, reports counts of what was served, and pages complete? | 3 requests of one kind (passwords, charges, reports and what they count, pages of three rows over three old rows, two of equal time, and a commit), 1 crash; 5 naira and 4.35 naira |
| `transactions_rings` | Do the wallet's transactions commit all or nothing, and end? | 3 transactions out of 8, 3 wallets, 1 key |

Bounds. Each race the code is open to needs two requests that touch one row, and a third
that sets the scene or observes (a lock, an unlock, an upgrade, a second attempt), so three
requests of arbitrary kinds cover every pair in every context; where the scene needs more
(a count that reaches its limit, then an unlock, then a payment) `wallet_serial` has four.
`MaxPinAttempts` is 2 in the runs (3 in the code) and `Limit` 1 and 2 (1000 and 10000): what
matters is the step from below the limit to the limit. `MaxAttempts`, `MaxStalls`,
`MaxCrashes` and `MaxTime` bound the counters and the clock. `webhooks_race` has two attempts (three in the
code), so a job is retried and a job runs out of attempts, and Bull's own single stall: with two crashes
or lost locks a job dies of stalling. An upgrade in the middle of a quota needs two requests
before it, one after, and the upgrade itself, so `quota_race` has those four as a scene of its
own (`MCInit`), cut by the constraint `FourInAMonth` to one month and one failure; the three
requests of any kind are not cut.
Requests are symmetric and a symmetry set is used in the safety runs; not where liveness is
checked, where it would be unsound: there the initial states are restricted to one order of the
interchangeable requests. Three transactions are enough for a ring of three, and for a third that
waits at a ring of two. In `api_race` three requests are two sends and a verification, a send and
two verifications, a report and two requests it counts, or two pages and a commit (pages that are not full, full, and cut through rows of equal
time); requests of different kinds meet only in the log. `CHECK_DEADLOCK FALSE` is set because every instance has finitely
many requests and then stops.

Fairness. Safety runs assume none. `webhooks_race` assumes weak fairness of `Worker`, the steps
of Bull's worker: it polls its queue as long as the process lives, the POST has a timeout of
five seconds, and `Crash` includes the restart. Nothing is assumed of requests.
`transactions_rings` assumes weak fairness of each transaction's next statement (the callback
sends it when the last one was answered, and PostgreSQL wakes who waits for a lock) and of
`DeadlockVictim` (the server looks for a cycle after `deadlock_timeout`); nothing of `Fail`.

What the runs show:

* Overlapping requests lose updates (`wallet_lost_update`), but no more than that: balances
  never go negative; the balance is always the newest row's `balanceAfter`, a chain of rows
  breaks only where a write clobbered a balance, and even there a row starts from a balance the
  wallet once had (`LedgerIsHistory`); the sum of all balances changes only at commits, and by
  what the call asked for where the commit's balances were current (`MoneyConserved`); keys move
  money once; answers agree with the ledger and with the AuditLog (`AnswerMatchesRecords`). One
  at a time, even with crashes, the wallet is the abstract bank.
* A transfer to oneself creates money, with no concurrency at all.
* A lock is never lost, an unlocked wallet has an attempt left, and nobody is locked out for
  wrong PINs he did not send, whatever stale count is written back and whatever answers are lost
  (`LockoutSound`); but overlapping wrong PINs count once.
* The webhook queue retries only a failed save of the delivery row: a refused POST completes its
  job. Rows are truthful, a second POST of a delivery always has a failed save, a crash or a job
  that Bull could not be told the end of behind it, every job ends. An event is queued for no other developer's webhook, and by an
  emitEvent that returned for every webhook of its developer that is still there; one that
  failed on the way has queued it for some of them (`DeliveriesAccounted`).
* A refresh token is exchanged twice only by overlapping refreshes: one from which a token was
  issued is refused to whoever comes later, also when the answer was lost. A client's own retry is refused
  if it arrives after the first try has ended, and may be served beside it if not. A crash in a
  refresh leaves the client with no token, never with two.
* `isVerified` is always what the request that wrote it last had reason to write: a toggle the
  negation of what it read, a verification with the account's own link TRUE
  (`VerifiedForAReason`). What a toggle read still stands unless a request it overlaps has
  written since: an admin's two toggles count as one only when they overlap, but then they do. A
  slow verification that overlaps a deactivation undoes it.
* The quota is exact until the last second of a month, in which the counter may already be
  gone, so that month's requests are not bounded by the plan; a counter without a time to live
  comes only from that second or from a failed INCR or EXPIRE. Who is told that some requests
  remain is refused later in the month, on a plan as large, only after that many others that
  were not over when he asked (`RemainingIsThere`): a request that failed after its INCR
  counts, and getQuota counts it too.
* However the statements of several `$transaction`s interleave, each commits all its writes at
  once or none, and ends. They deadlock only where transfers wait for their recipients' rows in a
  ring; PostgreSQL then fails one of them with an internal error.
* Two overlapping verifications may both accept one code; once one was answered, none does. A
  replaced code is refused. A right code may be refused because a slow verification of an older
  code deletes the newer entry.
* The counts of getStats are three queries and are not of one moment, but its total is never more
  than its successes and errors together, because it is counted first; and reports never go
  back (`ReportsAddUp`). README.md:332 says that RequestLog has "every API call" and README.md:127
  promises an "error rate", and the code disagrees: the `tap` of `logging.interceptor.ts:20` is
  called for what a handler returns and never for what it throws, so an error is never logged
  and never counted. The model has it as it is (`Pending`); no property asserts it and
  none of the runs is about it.
* A client that reads the pages of getTransactions one after the other sees every row that was
  there when it began, some twice, with two exceptions (`PagesShowAll`): it stops one page short
  if a row is committed between the count and the page of its last answer, and it may miss a
  row that has the `createdAt` of another one, since the query orders by nothing else and two
  pages may take the two in two orders. The two rows of a transfer to oneself may well be such.
* A payment is reported with the amount asked for, at Flutterwave always and at Paystack wherever
  `amount * 100` is a whole number of kobo and `/ 100` gives the amount back. 4.35 naira is sent to
  Paystack as 434.99999999999994, and what is reported then is up to Paystack, but the same to
  everyone. A lost answer of initializePayment leaves a charge nobody has the reference of.

## 4. Proofs

Every invariant and every safety action property of the passing runs is a theorem, and so are the
three refinements. Each theorem holds for all values of the constants that
satisfy the named assumption of its module, which says what the program guarantees: calls are
well typed, ids of different tables differ, limits are positive, finitely many requests.
Where a property speaks of one request it needs, as a rule, a part of the invariant about its
own past (what it has read and checked), a part about the tables (who wrote what is there) and
one about the others (what they can still write); the tables below name those parts.

**Wallet.**

`WalletProofs` proves about `Wallet`, from `WalletAssumption` alone, for any developers, PINs,
keys, calls and requests, and with overlap or without:

| Theorem | States | Inductive invariant |
|---|---|---|
| `TypeCorrect` | `TypeOK` | `TypeInv`: also, a transfer at its commit has a recipient that is a developer |
| `NeverOverdrawn` | `NoOverdraft` | `SolventInv`: rows read are not negative either, and a debit at its commit was checked against the row it is computed from |
| `KeysMoveMoneyOnce` | `OncePerKey` | `KeyInv`: a request that posted a row left its key in the ledger, where the unique index finds it |
| `LockoutIsSound` | `LockoutSound` | `LockInv`: a request at its failed PIN read a count below the limit (it read an unlocked wallet); `StrikesInv`: also the counts requests hold are covered by the wrong PINs presented |
| `LocksStick` | `LockSticks` | `UnlockLabel`: only unlock requests reach the label at which the lock is cleared |

The invariants need the strengthenings because they speak of what a request has read: a
commit preserves "no overdraft" only because of a check made three awaits earlier, on the
same stale row. Each preservation lemma has one step per action. `CommitBooks` and
`OnlyCommitsMoveMoney` reduce Fund, Withdraw and Transfer to "some rows are booked, each
by `BooksOne`", so that the three money operations share one argument. `BalanceCorrect` and
`ChainCorrect`, the two parts of `LedgerIsHistory` about the present balance and about
unclobbered wallets, are proved here for the modules that follow. `StrikesInv` compares a count with
the cardinality of a set of requests: a step ends at most one request that presented a wrong
PIN, refused or failed, for good (`WrongPinsStep`), and whoever writes a count back is such a
request itself, answered or not, or read a count that was earned.

`WalletMoneyProofs` proves, from the same assumption and with overlap:

| Theorem | States | Inductive invariant |
|---|---|---|
| `AnswersMatchRecords` | `AnswerMatchesRecords` | `LedgerInv`, `AnswerInv`: a reply comes from a commit, a "duplicate" has seen its key; `AuditInv`: a request is in the AuditLog exactly when it passed its audit call |
| `LedgersAreHistories` | `LedgerIsHistory` | `OriginInv`: what a request holds is a balance its wallet had, and the ledger still shows it |
| `DebitsAreAuthorised` | `DebitsAuthorised` | `LedgerInv`, `AuthInv`: from its PIN check on a debit holds the row it checked |
| `TransfersBookBothLegs` | `BothLegs` | `LedgerInv`, `LegsInv`: legs are counted; a request books once |
| `UnclobberedAddUp` | the balance of a wallet nothing clobbered is the sum of its rows, credits less debits | `LedgerInv` with `ChainUnlessClobbered` and `BalanceIsNewestRow` |
| `MoneyMovesInCommits` | `CommitsOnce`: `Wallet` implements `Commits` | `LedgerInv`, `KeyInv` |

`LedgerInv` is what they share: every row opened its wallet, or is exactly the row that some
settled request computed from what it had read. A settled request reads nothing any more, so
the explanation of a row lasts (`ExplainedStays`).

The sums are the community modules' `SumFunction`. Its definition chooses which element
to take next, and a statement about it for every set is an induction over finite sets. The
library's induction theorems cannot be instantiated here; what can be cited is that strict
inclusion of finite sets is well founded, and from it `Smallest`: a nonempty family of subsets of a
finite set has a member that contains no other. The smallest counterexample then contradicts
one step of the recursion. So `MeasureExists` (a function that gives every subset its sum,
in whatever order), `SumIs` (`SumFunctionOnSet` is that function), `SumTakeOut`, `SumChange` and
`SumOfSteps` are proved, and with them `ChainAddsUp`.

`MoneyMovesInCommits` joins the two models of the wallet's `$transaction`s. `Commits` has them as
single steps; `Transactions` shows that PostgreSQL's statements and row locks amount to that,
and `Wallet` that nothing else of a handler moves money: Fund, Withdraw and Transfer are the
step of `Commits` for their request (`CommitIsCommit`), whose key is free by `KeyInv`, and
every other step leaves its state alone or ends a request that never posts a row
(`OthersRollBack`). A wallet's last write is that of its newest row; that the balance is the one
this row names is `BalanceCorrect`. No run checks `CommitsOnce`.

`WalletBankProofs` proves, with overlap:

| Theorem | States | Assumes besides `WalletAssumption` |
|---|---|---|
| `MoneyIsConserved` | `MoneyConserved` | finitely many developers |

One commit changes one or two balances, each by `SumChange` (`TotalOfCommit`); nothing else
changes any. The assumption is needed for the sum to mean anything.

The rest of `WalletBankProofs` assumes `OneAtATime` (no overlap, no transfer to oneself: both
conditions are needed, `wallet_lost_update` and `wallet_self_transfer` are the counterexamples):

| Theorem | States |
|---|---|
| `OneAtATimeIsTheBank` | `ImplementsBank`: the refinement of `Bank` |
| `OneAtATimeAddsUp` | `BalanceMatchesLedger` |
| `OneAtATimeConserves` | `TransferConserves` (finitely many developers) |

The invariant, `BankInv`, says besides
`SolventInv` and `LockInv` that at most one request is in flight and that what it holds is still
what the tables hold (`FreshInv`), and that it writes only wallets that exist (`CreatedInv`).
One lemma per operation of the bank shows which step of a handler it is; the others are
stutters. A commit whose rows are fresh clobbers nothing (`NothingClobbered`) and conserves.

**Transactions.** `TransactionsProofs` proves about `Transactions`, from `TransactionsAssumption`
alone, for any transactions, wallets, keys and bodies:

| Theorem | States |
|---|---|
| `TypeCorrect` | `TypeOK` |
| `DeadlocksAreRings` | `DeadlockOnlyInRings` |
| `CallbacksAreAtomic` | `ImplementsCommits`: the refinement of `Commits` |
| `TransactionsAreWhole` | `Commits`' `AllOrNothing`: a transaction has all its rows or none, a key commits once, a balance is what a committed write of its wallet made it |
| `TransactionsGoOn` | `SomeoneGoesOn`: while any is open, one can run its next statement or there is a deadlock (finitely many transactions) |

All five rest on one invariant, `Inv`: an uncommitted write (`DirtyInv`), ledger row
(`InsertedInv`) or index entry (`EntryInv`) is there exactly when the statement its open
transaction is at says so, and an entry that is held is for a key nobody has committed
(`UsedInv`). At its end a transaction has therefore written all that `Commits` writes, and
its key is free: COMMIT is the step of `Commits`, ROLLBACK its `RollBack`, and everything else
a stutter. In a deadlock every member waits, so none is far enough to hold an index entry;
all wait for rows, and who holds a row and waits for another is a transfer between its two
updates. `AllOrNothing` is inductive in `Commits`, and holds of the statements by the refinement
(`StepIsCommit`); with a row created outside of the transaction, as in `InsertOutside`, it fails. `SomeoneGoesOn` says that
nobody waits for a transaction that is gone (`StuckWaits`), and that of finitely many that all
wait a smallest such set is a deadlock (`WaitersDeadlock`). No run checks these two by themselves:
the runs check the refinement and `EveryTransactionEnds`.

**Webhooks.** `WebhooksProofs`, from `WebhooksAssumption`:

| Theorem | States | Inductive invariant |
|---|---|---|
| `TypeCorrect` | `TypeOK` | `TypeInv`, `PostsInv`: a delivery runs for the active job or a test that was let in |
| `SuccessesAreHeard` | `SuccessIsHeard` | `HeardInv`: already what the delivery holds in memory is true |
| `DeliveriesAreAccounted` | `DeliveriesAccounted` | `RowsInv`: a saved row, a completed job and an answered test keep the foreign key's webhook; `ReachInv`: while emitEvent loops, every webhook of its developer is queued or still in its list, and nobody else's is |
| `RepostsAreExplained` | `RepostOnlyAfterTrouble` | `PostsInv`: one POST for each attempt and each stall gone, and one for the attempt at work |
| `QueueWearsOut` | `WorkRemains`, `JobsWearOut`: what is left to do for a queued job shrinks with every step for it, and the worker can take one | `TypeInv` |

**Sessions.** `SessionsProofs`, from `SessionsAssumption`:

| Theorem | States | Inductive invariant |
|---|---|---|
| `TypeCorrect` | `TypeOK` | `TypeInv` |
| `RegistrationCorrect` | `EmailRegisteredOnce` | `RegisteredInv`: who is done made the row, and rows stay |
| `TokensAreEarned` | `TokensEarned` | `TokenInv`: a token is there just when the handler it is named by issued it (`IssuedInv`), and that handler had checked a password and read the account as verified (`LoginInv`), or revoked a token (`RefreshInv`) |
| `SpentTokensRefused` | `SpentTokenIsRefused` | also `LogoutInv` and `RefusedInv`: a refresh that came later stops at its read |
| `LinksWorkOnce` | `LinkWorksOnce` | `LinksInv`, `UsedInv`: a link that was used is in no row (`ClearedInv`) |
| `VerifiedIsExplained` | `VerifiedForAReason` | `ReasonInv`: `LinksInv`, `UsedInv`, `ToggleInv`, `SetterInv` (who wrote last is past its write) and itself |

**Quota.** `QuotaProofs`, from `QuotaAssumption`:

| Theorem | States | Inductive invariant |
|---|---|---|
| `TypeCorrect` | `TypeOK` | `TypeInv`, `CountInv` |
| `OnlyOrphansStay` | `CountersExpire` | itself with `TypeInv` |
| `RefusalsAreEarned` | `RefusedForCause` | itself with `CountInv`: a counter never says more than the requests that counted in it, and each counted once |
| `RevocationHolds` | `RevokedKeyRefused` | `KeyInv`: nobody names a key before its creation was answered, so none is revived |
| `QuotaHolds` | `QuotaUntilLastSecond` | `QuotaIInv`: before a month's last second its counter covers all it has granted, and the grants are within a plan the developer had |
| `RemainingIsHonest` | `RemainingIsThere` | `ReportIInv`: `ReportCovers`, the counter has grown past what getQuota read by no more than the requests that were not over when it was asked, and `RefusalCovers`, who is refused after the answer met his limit among these, with `TypeInv`, `CountInv` and `KeyInv` |

`CountInv` bounds a counter from above and `QuotaInv` from below; they meet only before the last
second of a month, because after it the counter may have expired. The request between INCR
and EXPIRE is granted and not yet admitted: without it in `Granted` the invariant is not
inductive.

**Api.** `ApiProofs`, from the assumptions of `Requests`, `Otp`, `RequestLog`, `Payments`, `Listing`
and `Api`:

| Theorem | States | Inductive invariant (with `RequestInv`) |
|---|---|---|
| `CodesAreSpent` | `SpentCodeRefused` | `OtpInv`, `Spent`: a code accepted by an answered verification is gone |
| `OldCodesAreReplaced` | `ReplacedCodeRefused` | `OtpInv`, `Replaced`: no code that an answered send replaced is there |
| `RefusalsHaveCause` | `CodeRefusedForCause` | `OtpInv`, `Cause`: the code of an answered send is there, or something disturbed it |
| `PaymentsCorrect` | `PaymentsAsAsked` | `PaymentsInv`: a charge is one the provider may make of what was asked (`ChargesOk`), a report is its charge's (`ReportsOk`), paid stays paid (`PaidStays`), an answered initialization is found (`FoundAgain`) |
| `PagesComplete` | `PagesShowAll` | `ListInv`: rows stay, a page shows a window of the ledger it is of (`PageOk`), later pages are of ledgers that contain those of earlier ones (`PagesGrow`) |
| `ReportsConsistent` | `ReportsAddUp` | `ReportInv`: rows are of requests that were served (`LoggedOk`), a count that was read is at most what a later one finds (`ReportOk`) |
| `TypeCorrect` | `TypeOK` | all of them |

`HandlerStep` and `DeathStep` say once, for all handlers, what a step does to a request; each
part's `...Cases` lemma reduces `Next` to the actions of that part and everything else.
`PagesComplete` is arithmetic on top: in a ledger that only grows, the rows newer than a given
one only become more. A row that no other equals in time has one place; of pages
asked for in order, the least one that reaches to that place (`Chain`, `Reached`) has it in
every window (`Shown`), since the page before ended above it. Nothing is assumed of rows of equal times.

Two statements changed because their proofs failed. `SpentCodeRefused` spoke of two
verifications of one code without saying that it was sent to the same recipient: with
more than one recipient the passwords sent before the run began all have the same sender,
`Earlier`, and TLC's instance had only one. `VerifiedForAReason` speaks of the request that
wrote `isVerified` last and not of any that might have: the latter is explained for good by
one toggle that failed.

**Only model-checked.** Liveness: `EveryJobEnds` and `EveryTransactionEnds` speak of what must
happen under fairness, which the prover does not reach. Their safety parts are proved: a
step is possible as long as something is left to do (`QueueWearsOut`, `TransactionsGoOn`) and what is
left to do is bounded (`WorkLeft`; a transaction has at most five steps); that fairness then
takes the steps is what TLC checks. The guards in `CanWork` and `CanStep` are those of the actions,
written out, because ENABLED is out of reach too. `BalanceMatchesLedger` and `TransferConserves`
are proved where they hold (`OneAtATime`) and refuted by a run where they do not. The other
three properties of the runs that expect a violation are false of the code, and so not
theorems.

## 5. Not modelled

Access tokens (signed, not stored), read-only operations that no state depends on (listings,
single rows, the admin's counts), validation of DTOs, hashing and signatures. Rounding of
the wallet's amounts: below a kobo they round differently on the two sides of a transfer (those of
the payments are doubles in the model). A charge that is refunded: paid is for good in the model, and no
handler asks for a refund. A command
that ioredis sends again by itself, and a job whose lock is lost while it runs, so
that two handlers of it overlap. Rate limiting: `ThrottlerModule` counts in the library's memory; the
`@Throttle({ default: ... })` of the password routes (`messaging.controller.ts:17`, 23) and of
`auth.controller.ts:16`, 22 names a throttler that `app.module.ts:39` does not define (it
is called `global`), so the limit there is the global one and not the five a minute of
README.md:103.
These stand in the hazards with a note where one of
them can go wrong.

## 6. Plan

Done: all components with their runs; the safety of Wallet, Transactions, Webhooks, Sessions,
Quota and Api, the sums, and the three refinements, with their proofs. A change of the code
that would change this project is a row lock or a conditional update in `fundWallet`,
`transfer` and `withdraw`: `wallet_lost_update` would then pass, and the theorems that assume
`OneAtATime` could be proved with overlap.
