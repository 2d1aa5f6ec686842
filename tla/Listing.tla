------------------------------ MODULE Listing ------------------------------
(***************************************************************************)
(* The pages of getTransactions (src/wallet/wallet.service.ts:281) of one  *)
(* wallet, newest row first, while other requests commit rows to it.  The  *)
(* page and the count are two queries; the offset of a page is into a list *)
(* that has grown since the page before.                                   *)
(***************************************************************************)
EXTENDS Requests

CONSTANTS
    Times,      \* what createdAt may be, in milliseconds
    OldRows,    \* the wallet's rows at the start
    PageSize    \* the limit every page is asked for with

ASSUME ListingAssumption ==
    /\ PageSize \in Nat \ {0} /\ Times \subseteq Nat
    /\ IsFiniteSet(OldRows) /\ OldRows # {} /\ \A x \in OldRows : x.createdAt \in Nat

VARIABLES
    ledger,     \* the wallet's rows
    page        \* what the queries of each getTransactions have returned

listVars == <<ledger, page>>

Rows == OldRows \cup [id: Reqs, createdAt: Times]
NoTotal == Cardinality(Reqs) + Cardinality(OldRows) + 1
NotRead == [rows |-> {}, total |-> NoTotal, of |-> {}]

ListTypeOK ==
    /\ ledger \in SUBSET Rows
    /\ page \in [Reqs -> [rows: SUBSET Rows, total: 0..NoTotal,
                          of: SUBSET Rows]]     \* history: the ledger findMany saw

ListInit == ledger = OldRows /\ page = [r \in Reqs |-> NotRead]

(* A row is committed.  Its createdAt is taken before its commit, so it    *)
(* may be older than rows already there, and the same as theirs.           *)
CommitRow(r) ==
    /\ Begin(r, "fund")
    /\ \/ /\ \E t \in Times : ledger' = ledger \cup {[id |-> r, createdAt |-> t]}
          /\ Lands(r, "answer")
       \/ Goto(r, "failed") /\ UNCHANGED ledger
    /\ UNCHANGED page

(* getOrCreateWallet finds the wallet: it has rows.                        *)
FindWallet(r) ==
    /\ Begin(r, "list")
    /\ Lands(r, "queries")
    /\ UNCHANGED listVars

(* skip, in rows; the mutant takes the pages to be numbered from 0.        *)
SkipFromZero(n) == n * PageSize

Skip(n) == (n - 1) * PageSize

(* The mutant leaves out the last page if it is not full.                  *)
TotalPagesFull(total) == total \div PageSize

TotalPages(total) == (total + PageSize - 1) \div PageSize

(* What may be the first k rows by createdAt, newest first: those of one   *)
(* createdAt come in whatever order this query finds them.                 *)
Top(S, k) ==
    {F \in SUBSET S :
        /\ Cardinality(F) = IF k < Cardinality(S) THEN k ELSE Cardinality(S)
        /\ \A x \in F, y \in S \ F : x.createdAt >= y.createdAt}

(* What skip and take leave of them, on page n.                            *)
Windows(S, n) == UNION {Top(S \ F, PageSize) : F \in Top(S, Skip(n))}

FindMany(r) ==
    /\ At(r, "queries") /\ page[r].of = {}
    /\ \E rows \in Windows(ledger, call[r].page) :
          page' = [page EXCEPT ![r].rows = rows, ![r].of = ledger]
    /\ UNCHANGED <<call, pc, ledger>>

CountLedger(r) ==
    /\ At(r, "queries") /\ page[r].total = NoTotal
    /\ page' = [page EXCEPT ![r].total = Cardinality(ledger)]
    /\ UNCHANGED <<call, pc, ledger>>

(* Promise.all waits for both, and throws when one of them does.           *)
ReturnPage(r) ==
    /\ At(r, "queries")
    /\ \/ page[r].of # {} /\ page[r].total # NoTotal /\ Goto(r, "answer")
       \/ Goto(r, "failed")
    /\ UNCHANGED listVars

List(r) == CommitRow(r) \/ FindWallet(r) \/ FindMany(r) \/ CountLedger(r) \/ ReturnPage(r)

-----------------------------------------------------------------------------
(* A client that has asked for page after page, each after the answer of   *)
(* the one before, as many as the last answer says there are.              *)
Walked(q, n) ==
    /\ \A i \in 1..n : call[q[i]].op = "list" /\ call[q[i]].page = i /\ Served(q[i])
    /\ \A i \in 2..n : q[i - 1] \in seen[q[i]]
    /\ TotalPages(page[q[n]].total) <= n

(* It has seen every row its first page was cut from, some of them twice   *)
(* (lines 300-308).  There are two ways to miss one: a row committed       *)
(* between the count and the page of the last answer, so that the client   *)
(* stops one page short; and another row of the same createdAt, by which   *)
(* alone line 303 orders, so that two pages may take them in two orders.   *)
PagesShowAll ==
    \A n \in 1..Cardinality(Reqs) : \A q \in [1..n -> Reqs] :
        LET last == page[q[n]] IN
        Walked(q, n) /\ Cardinality(last.of) <= last.total =>
            \A x \in page[q[1]].of :
                \/ \E i \in 1..n : x \in page[q[i]].rows
                \/ \E y \in last.of \ {x} : y.createdAt = x.createdAt
=============================================================================
