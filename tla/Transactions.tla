---------------------------- MODULE Transactions ----------------------------
(***************************************************************************)
(* The $transaction callbacks of fundWallet, withdraw and transfer         *)
(* (src/wallet/wallet.service.ts), one SQL statement at a time, on         *)
(* PostgreSQL at READ COMMITTED (Prisma's default there).  An UPDATE waits *)
(* for the row another open transaction has updated; an INSERT waits for   *)
(* one that has inserted the same key and fails if it commits; nobody sees *)
(* a write before COMMIT; a cycle of waits is broken by ending a member.   *)
(*                                                                         *)
(* Module Wallet takes each callback as one step.  This module shows why   *)
(* it may (Commits is that step), and that its transactions end.           *)
(***************************************************************************)
EXTENDS Naturals, Sequences

CONSTANTS
    Wallets,        \* the rows of table Wallet
    Keys, NoKey,    \* idempotency keys, and their NULL
    Txs, Bodies,    \* the transactions, and what they may be (in BodyType)
    Clean           \* a row, or an index entry, no open transaction has written

(* fundWallet and withdraw ("own") write one wallet, transfer two.         *)
BodyType == [op: {"own", "transfer"}, from: Wallets, to: Wallets, key: Keys \cup {NoKey}]

ASSUME TransactionsAssumption ==
    /\ Bodies \subseteq BodyType
    /\ Wallets \cap (Keys \cup {NoKey}) = {} /\ NoKey \notin Keys
    /\ Clean \notin Txs \cup (Txs \X {"own", "debit", "credit"})

VARIABLES
    body,       \* the transaction a request asks for
    at,         \* the statement each is at, 0 before BEGIN
    dirty,      \* per wallet, the uncommitted write of the row's lock holder
    entry,      \* per key, the open transaction that has inserted it
    inserted,   \* the uncommitted rows of WalletTransaction
    balance, rows, ended  \* what is committed, and how transactions ended

vars == <<body, at, dirty, entry, inserted, balance, rows, ended>>

(* The statements of a callback, each named by what it writes: a wallet's  *)
(* balance, or the row that carries a key.  In the mutant, fundings and     *)
(* withdrawals create the row before they update the balance.              *)
StatementsRowsFirst(b) ==
    IF b.op = "transfer" THEN <<b.from, b.to, b.key, NoKey>> ELSE <<b.key, b.from>>

Statements(b) ==
    IF b.op = "transfer" THEN <<b.from, b.to, b.key, NoKey>> ELSE <<b.from, b.key>>

(* Which leg each statement belongs to; the recipient's row has no key.    *)
LegAt(b, i) ==
    IF b.op = "own" THEN "own" ELSE IF i % 2 = 1 THEN "debit" ELSE "credit"

Open(t) == at[t] > 0 /\ ended[t] = "no"
Running(t) == Open(t) /\ at[t] <= Len(Statements(body[t]))
Target(t) == Statements(body[t])[at[t]]
Leg(t) == LegAt(body[t], at[t])

TypeOK ==
    /\ body \in [Txs -> Bodies]
    /\ at \in [Txs -> 0..5]
    /\ dirty \in [Wallets -> {Clean} \cup (Txs \X {"own", "debit", "credit"})]
    /\ entry \in [Keys -> {Clean} \cup Txs]
    /\ inserted \in SUBSET (Txs \X {"own", "debit", "credit"})
    /\ balance \in [Wallets -> {Clean} \cup (Txs \X {"own", "debit", "credit"})]
    /\ rows \in SUBSET (Txs \X {"own", "debit", "credit"})
    /\ ended \in [Txs -> {"no", "committed", "aborted"}]

(* Clean also stands for the balance every wallet had at the start.        *)
Init ==
    /\ body \in [Txs -> Bodies]
    /\ at = [t \in Txs |-> 0]
    /\ dirty = [w \in Wallets |-> Clean] /\ entry = [k \in Keys |-> Clean]
    /\ inserted = {}
    /\ balance = [w \in Wallets |-> Clean] /\ rows = {}
    /\ ended = [t \in Txs |-> "no"]

-----------------------------------------------------------------------------
Begin(t) ==
    /\ at[t] = 0 /\ ended[t] = "no"
    /\ at' = [at EXCEPT ![t] = 1]
    /\ UNCHANGED <<body, dirty, entry, inserted, balance, rows, ended>>

Mine(t, w) == dirty[w] # Clean /\ dirty[w][1] = t

(* tx.wallet.update.                                                       *)
Update(t) ==
    /\ Running(t) /\ Target(t) \in Wallets
    /\ dirty[Target(t)] = Clean \/ Mine(t, Target(t))
    /\ dirty' = [dirty EXCEPT ![Target(t)] = <<t, Leg(t)>>]
    /\ at' = [at EXCEPT ![t] = @ + 1]
    /\ UNCHANGED <<body, entry, inserted, balance, rows, ended>>

Used(k) == \E u \in Txs : ended[u] = "committed" /\ body[u].key = k

(* tx.walletTransaction.create; NULL keys never conflict.  The mutants are *)
(* an index that holds them, and this.prisma.walletTransaction.create in   *)
(* the callback, on a connection of its own that commits by itself.        *)
InsertIndexesNull(t) ==
    LET k == Target(t) IN
    /\ Running(t) /\ k \in Keys \cup {NoKey}
    /\ k \in DOMAIN entry => entry[k] = Clean /\ ~Used(k)
    /\ entry' = [j \in DOMAIN entry \cup {k} |-> IF j = k THEN t ELSE entry[j]]
    /\ inserted' = inserted \cup {<<t, Leg(t)>>}
    /\ at' = [at EXCEPT ![t] = @ + 1]
    /\ UNCHANGED <<body, dirty, balance, rows, ended>>

InsertOutside(t) ==
    LET k == Target(t) IN
    /\ Running(t) /\ k \in Keys \cup {NoKey}
    /\ k \in Keys => entry[k] = Clean /\ ~Used(k)
    /\ rows' = rows \cup {<<t, Leg(t)>>}
    /\ at' = [at EXCEPT ![t] = @ + 1]
    /\ UNCHANGED <<body, dirty, entry, inserted, balance, ended>>

Insert(t) ==
    LET k == Target(t) IN
    /\ Running(t) /\ k \in Keys \cup {NoKey}
    /\ k \in Keys => entry[k] = Clean /\ ~Used(k)
    /\ entry' = IF k \in Keys THEN [entry EXCEPT ![k] = t] ELSE entry
    /\ inserted' = inserted \cup {<<t, Leg(t)>>}
    /\ at' = [at EXCEPT ![t] = @ + 1]
    /\ UNCHANGED <<body, dirty, balance, rows, ended>>

Released(t) ==
    /\ dirty' = [w \in Wallets |-> IF Mine(t, w) THEN Clean ELSE dirty[w]]
    /\ entry' = [k \in Keys |-> IF entry[k] = t THEN Clean ELSE entry[k]]
    /\ inserted' = {row \in inserted : row[1] # t}

(* The callback returned: COMMIT makes its writes the rows others see.     *)
Commit(t) ==
    /\ Open(t) /\ at[t] > Len(Statements(body[t]))
    /\ balance' = [w \in Wallets |-> IF Mine(t, w) THEN dirty[w] ELSE balance[w]]
    /\ rows' = rows \cup {row \in inserted : row[1] = t}
    /\ ended' = [ended EXCEPT ![t] = "committed"]
    /\ Released(t)
    /\ UNCHANGED <<body, at>>

(* ROLLBACK; the mutant leaves the transaction open in the connection.     *)
EndsAbortedUnreleased(t) ==
    /\ ended' = [ended EXCEPT ![t] = "aborted"]
    /\ UNCHANGED <<body, at, dirty, entry, inserted, balance, rows>>

EndsAborted(t) ==
    /\ ended' = [ended EXCEPT ![t] = "aborted"]
    /\ Released(t)
    /\ UNCHANGED <<body, at, balance, rows>>

(* The insert meets a committed key: the callback throws.                  *)
KeyConflict(t) ==
    /\ Running(t) /\ Target(t) \in Keys /\ Used(Target(t))
    /\ EndsAborted(t)

(* A lost connection, Prisma's five seconds, the death of the process.     *)
Fail(t) == ended[t] = "no" /\ EndsAborted(t)

(* t waits for u: at a row u has updated, or a key u has inserted.         *)
Waits(t, u) ==
    /\ t # u /\ Running(t)
    /\ \/ Target(t) \in Wallets /\ Mine(u, Target(t))
       \/ Target(t) \in Keys /\ entry[Target(t)] = u

(* A transaction waits for one other at most, so a set in which everybody  *)
(* waits, and everybody is waited for, consists of cycles.                 *)
Deadlocked(S) ==
    \A t \in S : (\E u \in S : Waits(t, u)) /\ (\E u \in S : Waits(u, t))

DeadlockVictim(t) ==
    /\ \E S \in SUBSET Txs : t \in S /\ Deadlocked(S)
    /\ EndsAborted(t)

Step(t) == Update(t) \/ Insert(t) \/ KeyConflict(t) \/ Commit(t)

Next ==
    \/ \E t \in Txs : Begin(t) \/ Step(t) \/ Fail(t)
    \/ \E t \in Txs : DeadlockVictim(t)

(* The client sends its next statement when the last was answered, and the *)
(* server looks for deadlocks (deadlock_timeout).  Nothing is assumed of   *)
(* failures: they are not needed to end what waits.                        *)
Fairness ==
    /\ \A t \in Txs : WF_vars(Step(t))
    /\ WF_vars(\E t \in Txs : DeadlockVictim(t))

Spec == Init /\ [][Next]_vars /\ Fairness

-----------------------------------------------------------------------------
(* Each callback of wallet.service.ts:77, 132 and 209 commits all its      *)
(* writes at once, and only with a free key, or leaves none, however the   *)
(* statements of several interleave: Wallet may take it as one step.       *)
Atomic == INSTANCE Commits WITH Initial <- Clean

ImplementsCommits == Atomic!CommitsSpec

(* Transactions deadlock only where transfers wait for their recipients'   *)
(* rows in a ring, each recipient the sender of another: fundings and      *)
(* withdrawals never do, and neither does an idempotency key.              *)
DeadlockOnlyInRings ==
    \A S \in SUBSET Txs : Deadlocked(S) =>
        \A t \in S : /\ body[t].op = "transfer" /\ Target(t) = body[t].to
                     /\ \E u \in S \ {t} : body[u].from = body[t].to

(* Where any transaction is open, one of them finds its row or key free    *)
(* (or used up for good), or some wait for each other and the server will  *)
(* end one: there is no third way to stand still.                          *)
CanStep(t) ==
    /\ Open(t)
    /\ Running(t) /\ Target(t) \in Wallets
          => dirty[Target(t)] = Clean \/ Mine(t, Target(t))
    /\ Running(t) /\ Target(t) \in Keys
          => entry[Target(t)] = Clean \/ Used(Target(t))

SomeoneGoesOn ==
    (\E t \in Txs : Open(t)) =>
        \/ \E t \in Txs : CanStep(t)
        \/ \E S \in SUBSET Txs : S # {} /\ Deadlocked(S)

(* A transaction that has begun ends, also in a deadlock.                  *)
EveryTransactionEnds == \A t \in Txs : Open(t) ~> ended[t] # "no"
=============================================================================
