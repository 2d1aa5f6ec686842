------------------------- MODULE TransactionsProofs -------------------------
(***************************************************************************)
(* Proofs about the wallet's SQL transactions, for any number of           *)
(* transactions, wallets and keys: what an open transaction has written    *)
(* is a function of the statement it is at (Inv), so COMMIT publishes all  *)
(* of it, and only transfers can wait for each other in a ring.            *)
(***************************************************************************)
EXTENDS Transactions, FiniteSetTheorems, TLAPS

LegNames == {"own", "debit", "credit"}

IsOwn(t) == body[t].op = "own"

(* The row of w holds t's uncommitted write of leg l.                      *)
Wrote(t, w, l) ==
    /\ Open(t)
    /\ \/ l = "own" /\ IsOwn(t) /\ at[t] > 1 /\ w = body[t].from
       \/ l = "credit" /\ ~IsOwn(t) /\ at[t] > 2 /\ w = body[t].to
       \/ /\ l = "debit" /\ ~IsOwn(t) /\ at[t] > 1 /\ w = body[t].from
          /\ ~(at[t] > 2 /\ w = body[t].to)

(* t has inserted, and not committed, its ledger row of leg l.             *)
Put(t, l) ==
    /\ Open(t)
    /\ \/ l = "own" /\ IsOwn(t) /\ at[t] > 2
       \/ l = "debit" /\ ~IsOwn(t) /\ at[t] > 3
       \/ l = "credit" /\ ~IsOwn(t) /\ at[t] > 4

(* t has inserted the row that carries its key.                            *)
HasKey(t, k) ==
    /\ Open(t) /\ body[t].key = k
    /\ IF IsOwn(t) THEN at[t] > 2 ELSE at[t] > 3

AtInv == \A t \in Txs : IsOwn(t) => at[t] <= 3
DirtyInv == \A t \in Txs, w \in Wallets, l \in LegNames : dirty[w] = <<t, l>> <=> Wrote(t, w, l)
InsertedInv == \A t \in Txs, l \in LegNames : <<t, l>> \in inserted <=> Put(t, l)
EntryInv == \A t \in Txs, k \in Keys : entry[k] = t <=> HasKey(t, k)
UsedInv == \A k \in Keys : entry[k] # Clean => ~Used(k)

Inv == TypeOK /\ AtInv /\ DirtyInv /\ InsertedInv /\ EntryInv /\ UsedInv

-----------------------------------------------------------------------------
(* What a request may ask for, as facts about its fields.                  *)
LEMMA BodyFields ==
    ASSUME TypeOK, NEW t \in Txs
    PROVE  /\ body[t].op \in {"own", "transfer"}
           /\ body[t].from \in Wallets /\ body[t].to \in Wallets
           /\ body[t].key \in Keys \cup {NoKey}
BY TransactionsAssumption DEF TypeOK, BodyType

(* A running transaction is at one of these statements.                    *)
LEMMA StatementCases ==
    ASSUME TypeOK, NEW t \in Txs, Running(t)
    PROVE  /\ Open(t) /\ at[t] \in 1..4 /\ Leg(t) \in LegNames
           /\ \/ IsOwn(t) /\ at[t] = 1 /\ Target(t) = body[t].from /\ Leg(t) = "own"
              \/ IsOwn(t) /\ at[t] = 2 /\ Target(t) = body[t].key /\ Leg(t) = "own"
              \/ ~IsOwn(t) /\ at[t] = 1 /\ Target(t) = body[t].from /\ Leg(t) = "debit"
              \/ ~IsOwn(t) /\ at[t] = 2 /\ Target(t) = body[t].to /\ Leg(t) = "credit"
              \/ ~IsOwn(t) /\ at[t] = 3 /\ Target(t) = body[t].key /\ Leg(t) = "debit"
              \/ ~IsOwn(t) /\ at[t] = 4 /\ Target(t) = NoKey /\ Leg(t) = "credit"
<1>1. Open(t) /\ at[t] \in 0..5 /\ at[t] > 0 /\ at[t] <= Len(Statements(body[t]))
  BY DEF Running, Open, TypeOK
<1>2. CASE IsOwn(t)
  <2>1. Statements(body[t]) = <<body[t].from, body[t].key>>
    BY <1>2 DEF IsOwn, Statements
  <2>2. at[t] \in {1, 2}
    BY <1>1, <2>1
  <2>3. Leg(t) = "own"
    BY <1>2 DEF Leg, LegAt, IsOwn
  <2> QED
    BY <1>1, <1>2, <2>1, <2>2, <2>3 DEF Target, LegNames
<1>3. CASE ~IsOwn(t)
  <2>1. Statements(body[t]) = <<body[t].from, body[t].to, body[t].key, NoKey>>
    BY <1>3, BodyFields DEF IsOwn, Statements
  <2>2. at[t] \in {1, 2, 3, 4}
    BY <1>1, <2>1
  <2>3. Leg(t) = IF at[t] % 2 = 1 THEN "debit" ELSE "credit"
    BY <1>3 DEF Leg, LegAt, IsOwn
  <2> QED
    BY <1>1, <1>3, <2>1, <2>2, <2>3 DEF Target, LegNames
<1> QED BY <1>2, <1>3

(* One that has run its last statement has written everything.             *)
LEMMA AtTheEnd ==
    ASSUME TypeOK, AtInv, NEW t \in Txs, Open(t), at[t] > Len(Statements(body[t]))
    PROVE  at[t] = IF IsOwn(t) THEN 3 ELSE 5
<1>1. CASE IsOwn(t)
  <2>1. Statements(body[t]) = <<body[t].from, body[t].key>>
    BY <1>1 DEF IsOwn, Statements
  <2> QED BY <1>1, <2>1 DEF TypeOK, AtInv
<1>2. CASE ~IsOwn(t)
  <2>1. Statements(body[t]) = <<body[t].from, body[t].to, body[t].key, NoKey>>
    BY <1>2, BodyFields DEF IsOwn, Statements
  <2> QED BY <1>2, <2>1 DEF TypeOK
<1> QED BY <1>1, <1>2

(* A row is t's when it holds one of t's legs.                             *)
LEMMA MineIsALeg ==
    ASSUME TypeOK, NEW t \in Txs, NEW w \in Wallets
    PROVE  Mine(t, w) <=> \E l \in LegNames : dirty[w] = <<t, l>>
<1>1. dirty[w] = Clean \/ \E u \in Txs, l \in LegNames : dirty[w] = <<u, l>>
  BY DEF TypeOK, LegNames
<1>2. \A u \in Txs, l \in LegNames : <<u, l>> # Clean
  BY TransactionsAssumption DEF LegNames
<1> QED BY <1>1, <1>2 DEF Mine
-----------------------------------------------------------------------------
(* Nothing is written before the first BEGIN.                              *)
LEMMA InitInv == Init => Inv
<1> SUFFICES ASSUME Init PROVE Inv
  OBVIOUS
<1>1. TypeOK
  BY DEF Init, TypeOK
<1>2. \A t \in Txs : ~Open(t)
  BY DEF Init, Open
<1>3. AtInv
  BY DEF Init, AtInv
<1>4. DirtyInv
  BY <1>2, TransactionsAssumption DEF Init, DirtyInv, Wrote, LegNames
<1>5. InsertedInv
  BY <1>2 DEF Init, InsertedInv, Put
<1>6. EntryInv
  BY <1>2, TransactionsAssumption DEF Init, EntryInv, HasKey
<1>7. UsedInv
  BY DEF Init, UsedInv
<1> QED BY <1>1, <1>3, <1>4, <1>5, <1>6, <1>7 DEF Inv

-----------------------------------------------------------------------------
(* BEGIN writes nothing, and nothing depends on statement 0.               *)
LEMMA BeginInv ==
    ASSUME Inv, NEW t \in Txs, Begin(t)
    PROVE  Inv'
<1> USE DEF Inv, Begin
<1>1. TypeOK'
  BY DEF TypeOK
<1>2. at' \in [Txs -> 0..5] /\ at'[t] = 1 /\ \A u \in Txs \ {t} : at'[u] = at[u]
  BY DEF TypeOK
<1>3. AtInv'
  BY <1>2 DEF AtInv, IsOwn
<1>4. \A u \in Txs, w \in Wallets, l \in LegNames : Wrote(u, w, l)' <=> Wrote(u, w, l)
  BY <1>2 DEF Wrote, Open, IsOwn
<1>5. \A u \in Txs, l \in LegNames : Put(u, l)' <=> Put(u, l)
  BY <1>2 DEF Put, Open, IsOwn
<1>6. \A u \in Txs, k \in Keys : HasKey(u, k)' <=> HasKey(u, k)
  BY <1>2 DEF HasKey, Open, IsOwn
<1>7. DirtyInv'
  BY <1>4 DEF DirtyInv
<1>8. InsertedInv'
  BY <1>5 DEF InsertedInv
<1>9. EntryInv'
  BY <1>6 DEF EntryInv
<1>10. UsedInv'
  BY DEF UsedInv, Used
<1> QED BY <1>1, <1>3, <1>7, <1>8, <1>9, <1>10

(* The statement t runs moves it one statement further, and nobody else.   *)
LEMMA AdvanceFrame ==
    ASSUME TypeOK, AtInv, NEW t \in Txs, Running(t),
           at' = [at EXCEPT ![t] = @ + 1], body' = body, ended' = ended
    PROVE  /\ at' \in [Txs -> 0..5] /\ at'[t] = at[t] + 1
           /\ \A u \in Txs \ {t} : at'[u] = at[u]
           /\ Open(t)' /\ \A u \in Txs : IsOwn(u)' <=> IsOwn(u)
           /\ AtInv'
<1>1. at[t] \in 1..4 /\ (IsOwn(t) => at[t] <= 2) /\ Open(t)
  BY StatementCases
<1>2. /\ at' \in [Txs -> 0..5] /\ at'[t] = at[t] + 1
      /\ \A u \in Txs \ {t} : at'[u] = at[u]
  BY <1>1 DEF TypeOK
<1>3. \A u \in Txs : IsOwn(u)' <=> IsOwn(u)
  BY DEF IsOwn
<1>4. Open(t)'
  BY <1>1, <1>2 DEF Open
<1>5. AtInv'
  BY <1>1, <1>2, <1>3 DEF AtInv
<1> QED BY <1>2, <1>3, <1>4, <1>5

(* tx.wallet.update locks a row nobody else has written.                   *)
LEMMA UpdateInv ==
    ASSUME Inv, NEW t \in Txs, Update(t)
    PROVE  Inv'
<1> DEFINE x == Target(t)
<1>1. /\ Running(t) /\ x \in Wallets
      /\ dirty' = [dirty EXCEPT ![x] = <<t, Leg(t)>>]
      /\ at' = [at EXCEPT ![t] = @ + 1]
      /\ UNCHANGED <<body, entry, inserted, balance, rows, ended>>
  BY DEF Update
<1>2. dirty[x] = Clean \/ Mine(t, x)
  BY DEF Update
<1>3. TypeOK /\ AtInv /\ DirtyInv /\ InsertedInv /\ EntryInv /\ UsedInv
  BY DEF Inv
<1>4. /\ at' \in [Txs -> 0..5] /\ at'[t] = at[t] + 1
      /\ \A u \in Txs \ {t} : at'[u] = at[u]
      /\ Open(t)' /\ (\A u \in Txs : IsOwn(u)' <=> IsOwn(u)) /\ AtInv'
  BY <1>1, <1>3, AdvanceFrame
<1>5. /\ Open(t) /\ Leg(t) \in LegNames
      /\ \/ IsOwn(t) /\ at[t] = 1 /\ x = body[t].from /\ Leg(t) = "own"
         \/ ~IsOwn(t) /\ at[t] = 1 /\ x = body[t].from /\ Leg(t) = "debit"
         \/ ~IsOwn(t) /\ at[t] = 2 /\ x = body[t].to /\ Leg(t) = "credit"
  <2>1. x \notin Keys \cup {NoKey}
    BY <1>1, TransactionsAssumption
  <2> QED BY <1>1, <1>3, <2>1, StatementCases, BodyFields
<1>6. TypeOK'
  BY <1>1, <1>3, <1>4, <1>5 DEF TypeOK, LegNames
<1>7. \A u \in Txs \ {t} : Open(u)' <=> Open(u)
  BY <1>1, <1>4 DEF Open
<1>8. DirtyInv'
  <2> SUFFICES ASSUME NEW u \in Txs, NEW w \in Wallets, NEW l \in LegNames
               PROVE  dirty'[w] = <<u, l>> <=> Wrote(u, w, l)'
    BY DEF DirtyInv
  <2>0. dirty[w] = <<u, l>> <=> Wrote(u, w, l)
    BY <1>3 DEF DirtyInv
  <2>1. dirty'[x] = <<t, Leg(t)>> /\ (w # x => dirty'[w] = dirty[w])
    BY <1>1, <1>3 DEF TypeOK
  <2>2. CASE u # t
    <3>1. Wrote(u, w, l)' <=> Wrote(u, w, l)
      BY <1>1, <1>4, <1>7, <2>2 DEF Wrote
    <3>2. w = x => dirty[w] # <<u, l>>
      <4>1. dirty[x] # Clean => \E m \in LegNames : dirty[x] = <<t, m>>
        BY <1>1, <1>2, <1>3, MineIsALeg
      <4>2. Clean # <<u, l>>
        BY TransactionsAssumption DEF LegNames
      <4> QED BY <2>2, <4>1, <4>2
    <3> QED BY <2>0, <2>1, <2>2, <3>1, <3>2
  <2>3. CASE u = t /\ w = x
    <3>1. Wrote(t, w, l)' <=> l = Leg(t)
      BY <1>1, <1>4, <1>5, <2>3 DEF Wrote, LegNames
    <3> QED BY <2>1, <2>3, <3>1
  <2>4. CASE u = t /\ w # x
    <3>1. Wrote(t, w, l)' <=> Wrote(t, w, l)
      BY <1>1, <1>4, <1>5, <2>4 DEF Wrote, LegNames
    <3> QED BY <2>0, <2>1, <2>4, <3>1
  <2> QED BY <2>2, <2>3, <2>4
<1>9. InsertedInv'
  <2>1. \A u \in Txs, l \in LegNames : Put(u, l)' <=> Put(u, l)
    BY <1>1, <1>4, <1>5, <1>7 DEF Put, LegNames
  <2> QED BY <1>1, <1>3, <2>1 DEF InsertedInv
<1>10. EntryInv'
  <2>1. \A u \in Txs, k \in Keys : HasKey(u, k)' <=> HasKey(u, k)
    BY <1>1, <1>4, <1>5, <1>7 DEF HasKey
  <2> QED BY <1>1, <1>3, <2>1 DEF EntryInv
<1>11. UsedInv'
  BY <1>1, <1>3 DEF UsedInv, Used
<1> QED BY <1>4, <1>6, <1>8, <1>9, <1>10, <1>11 DEF Inv

(* tx.walletTransaction.create takes an index entry nobody holds.          *)
LEMMA InsertInv ==
    ASSUME Inv, NEW t \in Txs, Insert(t)
    PROVE  Inv'
<1> DEFINE x == Target(t)
<1>1. /\ Running(t) /\ x \in Keys \cup {NoKey}
      /\ x \in Keys => entry[x] = Clean /\ ~Used(x)
      /\ entry' = IF x \in Keys THEN [entry EXCEPT ![x] = t] ELSE entry
      /\ inserted' = inserted \cup {<<t, Leg(t)>>}
      /\ at' = [at EXCEPT ![t] = @ + 1]
      /\ UNCHANGED <<body, dirty, balance, rows, ended>>
  BY DEF Insert
<1>2. TypeOK /\ AtInv /\ DirtyInv /\ InsertedInv /\ EntryInv /\ UsedInv
  BY DEF Inv
<1>3. /\ at' \in [Txs -> 0..5] /\ at'[t] = at[t] + 1
      /\ \A u \in Txs \ {t} : at'[u] = at[u]
      /\ Open(t)' /\ (\A u \in Txs : IsOwn(u)' <=> IsOwn(u)) /\ AtInv'
  BY <1>1, <1>2, AdvanceFrame
<1>4. /\ Open(t) /\ Leg(t) \in LegNames
      /\ \/ IsOwn(t) /\ at[t] = 2 /\ x = body[t].key /\ Leg(t) = "own"
         \/ ~IsOwn(t) /\ at[t] = 3 /\ x = body[t].key /\ Leg(t) = "debit"
         \/ ~IsOwn(t) /\ at[t] = 4 /\ x = NoKey /\ Leg(t) = "credit"
  <2>1. x \notin Wallets
    BY <1>1, TransactionsAssumption
  <2> QED BY <1>1, <1>2, <2>1, StatementCases, BodyFields
<1>5. TypeOK'
  <2>1. <<t, Leg(t)>> \in Txs \X {"own", "debit", "credit"}
    BY <1>4 DEF LegNames
  <2> QED BY <1>1, <1>2, <1>3, <2>1 DEF TypeOK
<1>6. \A u \in Txs \ {t} : Open(u)' <=> Open(u)
  BY <1>1, <1>3 DEF Open
<1>7. DirtyInv'
  <2>1. \A u \in Txs, w \in Wallets, l \in LegNames : Wrote(u, w, l)' <=> Wrote(u, w, l)
    BY <1>1, <1>3, <1>4, <1>6 DEF Wrote
  <2> QED BY <1>1, <1>2, <2>1 DEF DirtyInv
<1>8. InsertedInv'
  <2> SUFFICES ASSUME NEW u \in Txs, NEW l \in LegNames
               PROVE  <<u, l>> \in inserted' <=> Put(u, l)'
    BY DEF InsertedInv
  <2>1. <<u, l>> \in inserted <=> Put(u, l)
    BY <1>2 DEF InsertedInv
  <2>2. CASE u # t
    <3>1. Put(u, l)' <=> Put(u, l)
      BY <1>1, <1>3, <1>6, <2>2 DEF Put
    <3> QED BY <1>1, <2>1, <2>2, <3>1
  <2>3. CASE u = t
    <3>1. Put(t, l)' <=> Put(t, l) \/ l = Leg(t)
      BY <1>1, <1>3, <1>4 DEF Put, LegNames
    <3> QED BY <1>1, <2>1, <2>3, <3>1
  <2> QED BY <2>2, <2>3
<1>9. EntryInv'
  <2> SUFFICES ASSUME NEW u \in Txs, NEW k \in Keys
               PROVE  entry'[k] = u <=> HasKey(u, k)'
    BY DEF EntryInv
  <2>1. entry[k] = u <=> HasKey(u, k)
    BY <1>2 DEF EntryInv
  <2>2. entry'[k] = IF k = x THEN t ELSE entry[k]
    BY <1>1, <1>2 DEF TypeOK
  <2>3. CASE u # t
    <3>1. HasKey(u, k)' <=> HasKey(u, k)
      BY <1>1, <1>3, <1>6, <2>3 DEF HasKey
    <3>2. k = x => entry[k] # u
      BY <1>1, TransactionsAssumption
    <3> QED BY <2>1, <2>2, <2>3, <3>1, <3>2
  <2>4. CASE u = t
    <3>1. HasKey(t, k)' <=> HasKey(t, k) \/ k = x
      BY <1>1, <1>3, <1>4, TransactionsAssumption DEF HasKey
    <3> QED BY <2>1, <2>2, <2>4, <3>1
  <2> QED BY <2>3, <2>4
<1>10. UsedInv'
  <2>1. \A k \in Keys : Used(k)' <=> Used(k)
    BY <1>1 DEF Used
  <2>2. \A k \in Keys : entry'[k] = IF k = x THEN t ELSE entry[k]
    BY <1>1, <1>2 DEF TypeOK
  <2> QED BY <1>1, <1>2, <2>1, <2>2 DEF UsedInv
<1> QED BY <1>3, <1>5, <1>7, <1>8, <1>9, <1>10 DEF Inv

(* A transaction that ends gives back everything it held, and no more.     *)
LEMMA ReleasedInv ==
    ASSUME Inv, NEW t \in Txs, NEW how \in {"committed", "aborted"},
           ended' = [ended EXCEPT ![t] = how], Released(t), UNCHANGED <<body, at>>
    PROVE  /\ dirty' \in [Wallets -> {Clean} \cup (Txs \X {"own", "debit", "credit"})]
           /\ entry' \in [Keys -> {Clean} \cup Txs]
           /\ inserted' \in SUBSET (Txs \X {"own", "debit", "credit"})
           /\ ended' \in [Txs -> {"no", "committed", "aborted"}]
           /\ AtInv' /\ DirtyInv' /\ InsertedInv' /\ EntryInv'
<1>1. TypeOK /\ AtInv /\ DirtyInv /\ InsertedInv /\ EntryInv
  BY DEF Inv
<1>2. /\ dirty' = [w \in Wallets |-> IF Mine(t, w) THEN Clean ELSE dirty[w]]
      /\ entry' = [k \in Keys |-> IF entry[k] = t THEN Clean ELSE entry[k]]
      /\ inserted' = {row \in inserted : row[1] # t}
  BY DEF Released
<1>3. /\ ~Open(t)'
      /\ \A u \in Txs \ {t} : Open(u)' <=> Open(u)
      /\ \A u \in Txs : IsOwn(u)' <=> IsOwn(u)
      /\ ended' \in [Txs -> {"no", "committed", "aborted"}]
  BY <1>1 DEF Open, IsOwn, TypeOK
<1>4. dirty' \in [Wallets -> {Clean} \cup (Txs \X {"own", "debit", "credit"})]
  BY <1>1, <1>2 DEF TypeOK
<1>5. /\ entry' \in [Keys -> {Clean} \cup Txs]
      /\ inserted' \in SUBSET (Txs \X {"own", "debit", "credit"})
  BY <1>1, <1>2 DEF TypeOK
<1>6. AtInv'
  BY <1>1, <1>3 DEF AtInv
<1>7. DirtyInv'
  <2> SUFFICES ASSUME NEW u \in Txs, NEW w \in Wallets, NEW l \in LegNames
               PROVE  dirty'[w] = <<u, l>> <=> Wrote(u, w, l)'
    BY DEF DirtyInv
  <2>1. dirty[w] = <<u, l>> <=> Wrote(u, w, l)
    BY <1>1 DEF DirtyInv
  <2>2. Clean # <<u, l>>
    BY TransactionsAssumption DEF LegNames
  <2>3. Mine(t, w) <=> \E m \in LegNames : dirty[w] = <<t, m>>
    BY <1>1, MineIsALeg
  <2>4. CASE u = t
    BY <1>2, <1>3, <2>2, <2>3, <2>4 DEF Wrote
  <2>5. CASE u # t
    <3>1. Wrote(u, w, l)' <=> Wrote(u, w, l)
      BY <1>3, <2>5 DEF Wrote
    <3>2. dirty[w] = <<u, l>> => ~Mine(t, w)
      BY <2>3, <2>5
    <3> QED BY <1>2, <2>1, <2>2, <3>1, <3>2
  <2> QED BY <2>4, <2>5
<1>8. InsertedInv'
  <2> SUFFICES ASSUME NEW u \in Txs, NEW l \in LegNames
               PROVE  <<u, l>> \in inserted' <=> Put(u, l)'
    BY DEF InsertedInv
  <2>1. <<u, l>> \in inserted <=> Put(u, l)
    BY <1>1 DEF InsertedInv
  <2>2. <<u, l>> \in inserted' <=> <<u, l>> \in inserted /\ u # t
    BY <1>2
  <2>3. CASE u = t
    BY <1>3, <2>2, <2>3 DEF Put
  <2>4. CASE u # t
    <3>1. Put(u, l)' <=> Put(u, l)
      BY <1>3, <2>4 DEF Put
    <3> QED BY <2>1, <2>2, <2>4, <3>1
  <2> QED BY <2>3, <2>4
<1>9. EntryInv'
  <2> SUFFICES ASSUME NEW u \in Txs, NEW k \in Keys
               PROVE  entry'[k] = u <=> HasKey(u, k)'
    BY DEF EntryInv
  <2>1. entry[k] = u <=> HasKey(u, k)
    BY <1>1 DEF EntryInv
  <2>2. Clean # u
    BY TransactionsAssumption
  <2>3. CASE u = t
    BY <1>2, <1>3, <2>2, <2>3 DEF HasKey
  <2>4. CASE u # t
    <3>1. HasKey(u, k)' <=> HasKey(u, k)
      BY <1>3, <2>4 DEF HasKey
    <3> QED BY <1>2, <2>1, <2>2, <2>4, <3>1
  <2> QED BY <2>3, <2>4
<1> QED BY <1>3, <1>4, <1>5, <1>6, <1>7, <1>8, <1>9

(* COMMIT uses up the key whose entry it held, and releases the rest.      *)
LEMMA CommitInv ==
    ASSUME Inv, NEW t \in Txs, Commit(t)
    PROVE  Inv'
<1>1. /\ Open(t) /\ at[t] > Len(Statements(body[t]))
      /\ balance' = [w \in Wallets |-> IF Mine(t, w) THEN dirty[w] ELSE balance[w]]
      /\ rows' = rows \cup {row \in inserted : row[1] = t}
      /\ ended' = [ended EXCEPT ![t] = "committed"]
      /\ Released(t) /\ UNCHANGED <<body, at>>
  BY DEF Commit
<1>2. TypeOK /\ AtInv /\ EntryInv /\ UsedInv
  BY DEF Inv
<1>3. /\ dirty' \in [Wallets -> {Clean} \cup (Txs \X {"own", "debit", "credit"})]
      /\ entry' \in [Keys -> {Clean} \cup Txs]
      /\ inserted' \in SUBSET (Txs \X {"own", "debit", "credit"})
      /\ ended' \in [Txs -> {"no", "committed", "aborted"}]
      /\ AtInv' /\ DirtyInv' /\ InsertedInv' /\ EntryInv'
  BY <1>1, ReleasedInv
<1>4. TypeOK'
  BY <1>1, <1>2, <1>3 DEF TypeOK
<1>5. \A k \in Keys : body[t].key = k => entry[k] = t
  BY <1>1, <1>2, AtTheEnd DEF EntryInv, HasKey
<1>6. \A k \in Keys : entry'[k] # Clean => entry'[k] = entry[k] /\ entry[k] # t
  BY <1>1 DEF Released
<1>7. \A k \in Keys : Used(k)' => Used(k) \/ body[t].key = k
  BY <1>1, <1>2 DEF Used, TypeOK
<1>8. UsedInv'
  BY <1>2, <1>5, <1>6, <1>7 DEF UsedInv
<1> QED BY <1>3, <1>4, <1>8 DEF Inv

(* ROLLBACK, whatever its reason, releases all and uses no key.            *)
LEMMA AbortInv ==
    ASSUME Inv, NEW t \in Txs, ended[t] = "no", EndsAborted(t)
    PROVE  Inv'
<1>1. /\ ended' = [ended EXCEPT ![t] = "aborted"]
      /\ Released(t) /\ UNCHANGED <<body, at, balance, rows>>
  BY DEF EndsAborted
<1>2. TypeOK /\ UsedInv
  BY DEF Inv
<1>3. /\ dirty' \in [Wallets -> {Clean} \cup (Txs \X {"own", "debit", "credit"})]
      /\ entry' \in [Keys -> {Clean} \cup Txs]
      /\ inserted' \in SUBSET (Txs \X {"own", "debit", "credit"})
      /\ ended' \in [Txs -> {"no", "committed", "aborted"}]
      /\ AtInv' /\ DirtyInv' /\ InsertedInv' /\ EntryInv'
  BY <1>1, ReleasedInv
<1>4. TypeOK'
  BY <1>1, <1>2, <1>3 DEF TypeOK
<1>5. \A k \in Keys : entry'[k] # Clean => entry[k] # Clean
  BY <1>1 DEF Released
<1>6. \A k \in Keys : Used(k)' => Used(k)
  BY <1>1, <1>2 DEF Used, TypeOK
<1>7. UsedInv'
  BY <1>2, <1>5, <1>6 DEF UsedInv
<1> QED BY <1>3, <1>4, <1>7 DEF Inv

(* Every step is one of these; the four ways to fail abort an open         *)
(* transaction, or one that has not begun.                                 *)
LEMMA NextCases ==
    ASSUME Next
    PROVE  \E t \in Txs :
              \/ Begin(t) \/ Update(t) \/ Insert(t) \/ Commit(t)
              \/ ended[t] = "no" /\ EndsAborted(t)
<1>1. CASE \E t \in Txs : Begin(t) \/ Step(t) \/ Fail(t)
  BY <1>1 DEF Step, KeyConflict, Fail, Running, Open
<1>2. CASE \E t \in Txs : DeadlockVictim(t)
  <2>1. PICK t \in Txs : DeadlockVictim(t)
    BY <1>2
  <2>2. PICK S \in SUBSET Txs : t \in S /\ Deadlocked(S)
    BY <2>1 DEF DeadlockVictim
  <2>3. PICK u \in S : Waits(t, u)
    BY <2>2 DEF Deadlocked
  <2> QED BY <2>1, <2>3 DEF DeadlockVictim, Waits, Running, Open
<1> QED BY <1>1, <1>2 DEF Next

(* So every step keeps the invariant,                                      *)
LEMMA NextInv == Inv /\ [Next]_vars => Inv'
<1> SUFFICES ASSUME Inv, [Next]_vars PROVE Inv'
  OBVIOUS
<1>1. CASE Next
  <2>1. PICK t \in Txs :
           \/ Begin(t) \/ Update(t) \/ Insert(t) \/ Commit(t)
           \/ ended[t] = "no" /\ EndsAborted(t)
    BY <1>1, NextCases
  <2>2. CASE Begin(t)
    BY <2>2, BeginInv
  <2>3. CASE Update(t)
    BY <2>3, UpdateInv
  <2>4. CASE Insert(t)
    BY <2>4, InsertInv
  <2>5. CASE Commit(t)
    BY <2>5, CommitInv
  <2>6. CASE ended[t] = "no" /\ EndsAborted(t)
    BY <2>6, AbortInv
  <2> QED BY <2>1, <2>2, <2>3, <2>4, <2>5, <2>6
<1>2. CASE UNCHANGED vars
  BY <1>2 DEF vars, Inv, TypeOK, AtInv, DirtyInv, InsertedInv, EntryInv, UsedInv,
              Wrote, Put, HasKey, Used, Open, IsOwn
<1> QED BY <1>1, <1>2

(* and it holds in every reachable state.                                  *)
LEMMA Invariance == Spec => []Inv
<1>1. Init => Inv
  BY InitInv
<1>2. Inv /\ [Next]_vars => Inv'
  BY NextInv
<1> QED BY <1>1, <1>2, PTL DEF Spec

(* The state of the wallet's transactions always has its type: in          *)
(* particular no statement is run past the last of a callback.             *)
THEOREM TypeCorrect == Spec => []TypeOK
<1>1. Inv => TypeOK
  BY DEF Inv
<1> QED BY <1>1, Invariance, PTL
-----------------------------------------------------------------------------
(* Nobody waits for a key in a deadlock: who has inserted one is past all  *)
(* the statements at which a transaction can wait.                         *)
LEMMA WaitsForARow ==
    ASSUME Inv, NEW S \in SUBSET Txs, Deadlocked(S), NEW t \in S, NEW u \in S, Waits(t, u)
    PROVE  Target(t) \in Wallets /\ Mine(u, Target(t))
<1>1. TypeOK /\ EntryInv
  BY DEF Inv
<1>2. PICK v \in S : Waits(u, v)
  BY DEF Deadlocked
<1>3. Running(u) /\ u \in Txs /\ Target(u) # NoKey
  BY <1>2, TransactionsAssumption DEF Waits
<1>4. IF IsOwn(u) THEN at[u] <= 2 ELSE at[u] <= 3
  BY <1>1, <1>3, StatementCases
<1>5. \A k \in Keys : entry[k] # u
  BY <1>1, <1>3, <1>4, StatementCases DEF EntryInv, HasKey
<1> QED BY <1>5 DEF Waits

(* Who waits, and is waited for, is a transfer between its two updates.    *)
LEMMA WaitsBetweenUpdates ==
    ASSUME Inv, NEW S \in SUBSET Txs, Deadlocked(S), NEW t \in S, NEW u \in S, Waits(t, u)
    PROVE  /\ ~IsOwn(u) /\ Target(u) = body[u].to
           /\ Target(t) = body[u].from
<1>1. TypeOK /\ DirtyInv
  BY DEF Inv
<1>2. PICK v \in S : Waits(u, v)
  BY DEF Deadlocked
<1>3. Running(u) /\ u \in Txs /\ Target(u) \in Wallets
  BY <1>2, WaitsForARow DEF Waits
<1>4. \/ IsOwn(u) /\ at[u] = 1
      \/ ~IsOwn(u) /\ at[u] = 1
      \/ ~IsOwn(u) /\ at[u] = 2 /\ Target(u) = body[u].to
  BY <1>1, <1>3, StatementCases, BodyFields, TransactionsAssumption
<1>5. Target(t) \in Wallets /\ Mine(u, Target(t))
  BY WaitsForARow
<1>6. PICK l \in LegNames : Wrote(u, Target(t), l)
  BY <1>1, <1>3, <1>5, MineIsALeg DEF DirtyInv
<1> QED BY <1>4, <1>6 DEF Wrote

(* Only transfers deadlock, and only in rings: fundings, withdrawals and   *)
(* idempotency keys never take part (wallet.service.ts:77, 132 and 209).   *)
THEOREM DeadlocksAreRings == Spec => []DeadlockOnlyInRings
<1>1. Inv => DeadlockOnlyInRings
  <2> SUFFICES ASSUME Inv, NEW S \in SUBSET Txs, Deadlocked(S), NEW t \in S
               PROVE  /\ body[t].op = "transfer" /\ Target(t) = body[t].to
                      /\ \E u \in S \ {t} : body[u].from = body[t].to
    BY DEF DeadlockOnlyInRings
  <2>1. PICK v \in S : Waits(v, t)
    BY DEF Deadlocked
  <2>2. PICK u \in S : Waits(t, u)
    BY DEF Deadlocked
  <2>3. body[t].op = "transfer" /\ Target(t) = body[t].to
    BY <2>1, WaitsBetweenUpdates, BodyFields DEF IsOwn, Inv
  <2>4. u # t /\ Target(t) = body[u].from
    BY <2>2, WaitsBetweenUpdates DEF Waits
  <2> QED BY <2>3, <2>4
<1> QED BY <1>1, Invariance, PTL
-----------------------------------------------------------------------------
(* A statement that cannot be run yet waits for an open transaction.       *)
LEMMA StuckWaits ==
    ASSUME Inv, NEW t \in Txs, Open(t), ~CanStep(t)
    PROVE  \E u \in Txs : Open(u) /\ Waits(t, u)
<1>0. TypeOK /\ DirtyInv /\ EntryInv
  BY DEF Inv
<1>1. Running(t)
  BY DEF CanStep
<1>2. CASE Target(t) \in Wallets /\ dirty[Target(t)] # Clean /\ ~Mine(t, Target(t))
  <2>1. PICK u \in Txs, l \in LegNames : dirty[Target(t)] = <<u, l>>
    BY <1>0, <1>2 DEF TypeOK, LegNames
  <2>2. Mine(u, Target(t)) /\ u # t
    BY <1>2, <2>1 DEF Mine
  <2>3. Open(u)
    BY <1>0, <1>2, <2>1 DEF DirtyInv, Wrote
  <2> QED BY <1>1, <1>2, <2>2, <2>3 DEF Waits
<1>3. CASE Target(t) \in Keys /\ entry[Target(t)] # Clean
  <2>1. entry[Target(t)] \in Txs
    BY <1>0, <1>3 DEF TypeOK
  <2> DEFINE u == entry[Target(t)]
  <2>2. Open(u) /\ HasKey(u, Target(t))
    BY <1>0, <1>3, <2>1 DEF EntryInv, HasKey
  <2>3. u # t
    <3>1. ASSUME HasKey(t, Target(t)) PROVE FALSE
      BY <1>0, <1>1, <1>3, <3>1, StatementCases, BodyFields, TransactionsAssumption
         DEF HasKey
    <3> QED BY <2>2, <3>1
  <2> QED BY <1>1, <1>3, <2>1, <2>2, <2>3 DEF Waits
<1> QED BY <1>1, <1>2, <1>3 DEF CanStep

(* Of finitely many that all wait for each other, a smallest such set is a *)
(* deadlock: without a member nobody waits for, it would be smaller.       *)
LEMMA WaitersDeadlock ==
    ASSUME NEW O \in SUBSET Txs, IsFiniteSet(O), O # {},
           \A t \in O : \E u \in O : Waits(t, u)
    PROVE  \E S \in SUBSET Txs : S # {} /\ Deadlocked(S)
<1> DEFINE F == {S \in SUBSET O : S # {} /\ \A t \in S : \E u \in S : Waits(t, u)}
           R == StrictSubsetOrdering(O)
<1>1. IsWellFoundedOn(R, FiniteSubsetsOf(O))
  BY FS_StrictSubsetOrderingWellFounded
<1>2. F \subseteq FiniteSubsetsOf(O) /\ O \in F
  BY FS_Subset DEF FiniteSubsetsOf
<1>3. PICK S \in F : \A s \in F : <<s, S>> \notin R
  <2> HIDE DEF F, R
  <2> QED BY <1>1, <1>2, WFMin
<1>4. ASSUME NEW u \in S, \A t \in S : ~Waits(t, u) PROVE FALSE
  <2>1. PICK v \in S : Waits(u, v)
    BY <1>3
  <2>2. v # u
    BY <2>1 DEF Waits
  <2>3. S \ {u} \in F
    BY <1>3, <1>4, <2>1, <2>2
  <2>4. <<S \ {u}, S>> \in R
    BY <1>3, <1>4 DEF StrictSubsetOrdering
  <2> QED BY <1>3, <2>3, <2>4
<1>5. Deadlocked(S)
  BY <1>3, <1>4 DEF Deadlocked
<1> QED BY <1>3, <1>5

(* No transaction waits for one that is gone: as long as any is open, one  *)
(* can run its next statement or a deadlock is there to be found.  Each    *)
(* step uses up a statement, so all end if the server is fair.             *)
THEOREM TransactionsGoOn ==
    ASSUME IsFiniteSet(Txs)
    PROVE  Spec => []SomeoneGoesOn
<1>1. ASSUME Inv PROVE SomeoneGoesOn
  <2> DEFINE O == {t \in Txs : Open(t)}
  <2> SUFFICES ASSUME O # {}, \A t \in Txs : ~CanStep(t)
               PROVE  \E S \in SUBSET Txs : S # {} /\ Deadlocked(S)
    BY DEF SomeoneGoesOn
  <2>1. \A t \in O : \E u \in O : Waits(t, u)
    BY <1>1, StuckWaits
  <2>2. IsFiniteSet(O)
    BY FS_Subset
  <2> HIDE DEF O
  <2>3. O \subseteq Txs
    BY DEF O
  <2> QED BY <2>1, <2>2, <2>3, WaitersDeadlock
<1> QED BY <1>1, Invariance, PTL
-----------------------------------------------------------------------------
(* At COMMIT a transaction has written what its body says, and a free key. *)
LEMMA CommitWritesAll ==
    ASSUME Inv, NEW t \in Txs, Commit(t)
    PROVE  Atomic!Commit(t)
<1>1. /\ Open(t) /\ at[t] > Len(Statements(body[t]))
      /\ balance' = [w \in Wallets |-> IF Mine(t, w) THEN dirty[w] ELSE balance[w]]
      /\ rows' = rows \cup {row \in inserted : row[1] = t}
      /\ ended' = [ended EXCEPT ![t] = "committed"]
      /\ body' = body
  BY DEF Commit
<1>2. TypeOK /\ AtInv /\ DirtyInv /\ InsertedInv /\ EntryInv /\ UsedInv
  BY DEF Inv
<1>3. at[t] = IF IsOwn(t) THEN 3 ELSE 5
  BY <1>1, <1>2, AtTheEnd
<1>4. ~Atomic!KeyTaken(body[t].key)
  <2>1. CASE body[t].key = NoKey
    BY <2>1 DEF Atomic!KeyTaken
  <2>2. CASE body[t].key \in Keys
    <3>1. entry[body[t].key] = t
      BY <1>1, <1>2, <1>3, <2>2 DEF EntryInv, HasKey
    <3>2. ~Used(body[t].key)
      BY <1>2, <2>2, <3>1, TransactionsAssumption DEF UsedInv
    <3> QED BY <3>2 DEF Used, Atomic!KeyTaken
  <2> QED BY <1>2, <2>1, <2>2, BodyFields
<1>5. balance' = Atomic!Written(t)
  <2> SUFFICES ASSUME NEW w \in Wallets
               PROVE  balance'[w] = Atomic!Written(t)[w]
    BY <1>1 DEF Atomic!Written
  <2>1. \A l \in LegNames : dirty[w] = <<t, l>> <=> Wrote(t, w, l)
    BY <1>2 DEF DirtyInv
  <2>2. Mine(t, w) <=> \E l \in LegNames : Wrote(t, w, l)
    BY <1>2, <2>1, MineIsALeg
  <2>3. CASE IsOwn(t)
    <3>1. Mine(t, w) <=> w = body[t].from
      BY <1>1, <1>3, <2>2, <2>3 DEF Wrote, LegNames
    <3>2. w = body[t].from => dirty[w] = <<t, "own">>
      BY <1>1, <1>3, <2>1, <2>3 DEF Wrote, LegNames
    <3> QED BY <1>1, <2>3, <3>1, <3>2 DEF Atomic!Written, IsOwn
  <2>4. CASE ~IsOwn(t)
    <3>1. Mine(t, w) <=> w \in {body[t].from, body[t].to}
      BY <1>1, <1>3, <2>2, <2>4 DEF Wrote, LegNames
    <3>2. w = body[t].to => dirty[w] = <<t, "credit">>
      BY <1>1, <1>3, <2>1, <2>4 DEF Wrote, LegNames
    <3>3. w = body[t].from /\ w # body[t].to => dirty[w] = <<t, "debit">>
      BY <1>1, <1>3, <2>1, <2>4 DEF Wrote, LegNames
    <3>4. body[t].op = "transfer"
      BY <1>2, <2>4, BodyFields DEF IsOwn
    <3> QED BY <1>1, <3>1, <3>2, <3>3, <3>4 DEF Atomic!Written
  <2> QED BY <2>3, <2>4
<1>6. rows' = rows \cup {<<t, leg>> : leg \in Atomic!Legs(t)}
  <2>1. \A l \in LegNames : <<t, l>> \in inserted <=> l \in Atomic!Legs(t)
    <3>1. \A l \in LegNames : <<t, l>> \in inserted <=> Put(t, l)
      BY <1>2 DEF InsertedInv
    <3>2. body[t].op = "transfer" <=> ~IsOwn(t)
      BY <1>2, BodyFields DEF IsOwn
    <3>3. CASE IsOwn(t)
      BY <1>1, <1>3, <3>1, <3>2, <3>3 DEF Put, Atomic!Legs, LegNames
    <3>4. CASE ~IsOwn(t)
      BY <1>1, <1>3, <3>1, <3>2, <3>4 DEF Put, Atomic!Legs, LegNames
    <3> QED BY <3>3, <3>4
  <2>2. Atomic!Legs(t) \subseteq LegNames
    BY DEF Atomic!Legs, LegNames
  <2>3. \A row \in inserted : \E u \in Txs, l \in LegNames : row = <<u, l>>
    BY <1>2 DEF TypeOK, LegNames
  <2>4. {row \in inserted : row[1] = t} = {<<t, leg>> : leg \in Atomic!Legs(t)}
    BY <2>1, <2>2, <2>3
  <2> QED BY <1>1, <2>4
<1> QED BY <1>1, <1>4, <1>5, <1>6 DEF Atomic!Commit, Open

(* Every step of a statement is one of Commits, or changes nothing there.  *)
LEMMA StepIsCommit == Inv /\ [Next]_vars => [Atomic!CommitsNext]_(Atomic!commitVars)
<1> SUFFICES ASSUME Inv, [Next]_vars
             PROVE  [Atomic!CommitsNext]_(Atomic!commitVars)
  OBVIOUS
<1>1. CASE Next
  <2>1. PICK t \in Txs :
           \/ Begin(t) \/ Update(t) \/ Insert(t) \/ Commit(t)
           \/ ended[t] = "no" /\ EndsAborted(t)
    BY <1>1, NextCases
  <2>2. CASE Begin(t) \/ Update(t) \/ Insert(t)
    BY <2>2 DEF Begin, Update, Insert, Atomic!commitVars
  <2>3. CASE Commit(t)
    BY <2>3, CommitWritesAll DEF Atomic!CommitsNext
  <2>4. CASE ended[t] = "no" /\ EndsAborted(t)
    <3>1. Atomic!RollBack(t)
      BY <2>4 DEF EndsAborted, Atomic!RollBack
    <3> QED BY <3>1 DEF Atomic!CommitsNext
  <2> QED BY <2>1, <2>2, <2>3, <2>4
<1>2. CASE UNCHANGED vars
  BY <1>2 DEF vars, Atomic!commitVars
<1> QED BY <1>1, <1>2

(* The callbacks of the wallet, run statement by statement and interleaved *)
(* as the database allows, commit or roll back as single steps: what       *)
(* module Wallet takes them for (wallet.service.ts:77, 132 and 209).       *)
THEOREM CallbacksAreAtomic == Spec => ImplementsCommits
<1>1. Init => Atomic!CommitsInit
  BY DEF Init, Atomic!CommitsInit
<1> QED
  BY <1>1, StepIsCommit, Invariance, PTL DEF Spec, ImplementsCommits, Atomic!CommitsSpec

-----------------------------------------------------------------------------
(* What callers rely on holds of the single steps, hence of the callbacks. *)
(* It needs of the transactions only that their bodies have their type.    *)
LEMMA WholeInit == Init => Atomic!AllOrNothing
<1> SUFFICES ASSUME Init PROVE Atomic!AllOrNothing
  OBVIOUS
<1>1. Atomic!Committed = {}
  BY DEF Init, Atomic!Committed
<1> QED BY <1>1 DEF Init, Atomic!AllOrNothing

(* A COMMIT adds its transaction to the committed ones, all its rows to    *)
(* the rows, and replaces the balances of just the wallets it writes.      *)
LEMMA WholeCommit ==
    ASSUME TypeOK, Atomic!AllOrNothing, NEW t \in Txs, Atomic!Commit(t)
    PROVE  Atomic!AllOrNothing'
<1>1. body' = body
  BY DEF Atomic!Commit
<1>2. Atomic!Committed' = Atomic!Committed \cup {t} /\ t \notin Atomic!Committed
  BY DEF Atomic!Commit, Atomic!Committed, TypeOK
<1>3. \A u : Atomic!Legs(u)' = Atomic!Legs(u)
  BY <1>1 DEF Atomic!Legs
<1>4. \A u, w : Atomic!Writes(u, w)' <=> Atomic!Writes(u, w)
  BY <1>1 DEF Atomic!Writes
<1>5. (rows = UNION {{<<u, leg>> : leg \in Atomic!Legs(u)} : u \in Atomic!Committed})'
  <2>1. rows' = rows \cup {<<t, leg>> : leg \in Atomic!Legs(t)}
    BY DEF Atomic!Commit
  <2>2. rows = UNION {{<<u, leg>> : leg \in Atomic!Legs(u)} : u \in Atomic!Committed}
    BY DEF Atomic!AllOrNothing
  <2> QED BY <1>2, <1>3, <2>1, <2>2
<1>6. (\A u, v \in Atomic!Committed : u # v /\ body[u].key = body[v].key
                                        => body[u].key = NoKey)'
  <2>1. \A u \in Atomic!Committed : body[u].key = body[t].key => body[t].key = NoKey
    BY DEF Atomic!Commit, Atomic!KeyTaken, Atomic!Committed
  <2> QED BY <1>1, <1>2, <2>1 DEF Atomic!AllOrNothing
<1>7. ASSUME NEW w \in Wallets
      PROVE  IF \E u \in Atomic!Committed' : Atomic!Writes(u, w)
             THEN \E u \in Atomic!Committed' :
                     Atomic!Writes(u, w) /\ \E leg \in Atomic!Legs(u) : balance'[w] = <<u, leg>>
             ELSE balance'[w] = Clean
  <2>1. balance'[w] = Atomic!Written(t)[w]
    BY DEF Atomic!Commit
  <2>2. CASE Atomic!Writes(t, w)
    <3>1. \E leg \in Atomic!Legs(t) : Atomic!Written(t)[w] = <<t, leg>>
      BY <2>2, BodyFields DEF Atomic!Written, Atomic!Writes, Atomic!Legs
    <3> QED BY <1>2, <2>1, <2>2, <3>1
  <2>3. CASE ~Atomic!Writes(t, w)
    <3>1. balance'[w] = balance[w]
      BY <2>1, <2>3, BodyFields DEF Atomic!Written, Atomic!Writes
    <3> QED BY <1>2, <2>3, <3>1 DEF Atomic!AllOrNothing
  <2> QED BY <2>2, <2>3
<1>8. ASSUME NEW w \in Wallets
      PROVE  (IF \E u \in Atomic!Committed : Atomic!Writes(u, w)
              THEN \E u \in Atomic!Committed :
                      Atomic!Writes(u, w) /\ \E leg \in Atomic!Legs(u) : balance[w] = <<u, leg>>
              ELSE balance[w] = Clean)'
  BY <1>3, <1>4, <1>7
<1> QED BY <1>5, <1>6, <1>8 DEF Atomic!AllOrNothing

LEMMA WholeNext ==
    TypeOK /\ Atomic!AllOrNothing /\ [Atomic!CommitsNext]_(Atomic!commitVars)
        => Atomic!AllOrNothing'
<1> SUFFICES ASSUME TypeOK, Atomic!AllOrNothing,
                    [Atomic!CommitsNext]_(Atomic!commitVars)
             PROVE  Atomic!AllOrNothing'
  OBVIOUS
<1>1. ASSUME NEW t \in Txs, Atomic!Commit(t) PROVE Atomic!AllOrNothing'
  BY <1>1, WholeCommit
<1>2. ASSUME UNCHANGED <<body, balance, rows>>, Atomic!Committed' = Atomic!Committed
      PROVE  Atomic!AllOrNothing'
  BY <1>2 DEF Atomic!AllOrNothing, Atomic!Legs, Atomic!Writes
<1>3. ASSUME NEW t \in Txs, Atomic!RollBack(t) PROVE Atomic!AllOrNothing'
  <2>1. Atomic!Committed' = Atomic!Committed
    BY <1>3 DEF Atomic!RollBack, Atomic!Committed, TypeOK
  <2> QED BY <1>2, <1>3, <2>1 DEF Atomic!RollBack
<1>4. CASE UNCHANGED Atomic!commitVars
  BY <1>2, <1>4 DEF Atomic!commitVars, Atomic!Committed
<1> QED BY <1>1, <1>3, <1>4 DEF Atomic!CommitsNext

(* Of the statements of a $transaction all take effect or none, in the     *)
(* wallets as in the ledger, and a key commits once: by the refinement.    *)
THEOREM TransactionsAreWhole == Spec => []Atomic!AllOrNothing
<1>1. Inv => TypeOK
  BY DEF Inv
<1> QED BY <1>1, WholeInit, WholeNext, StepIsCommit, Invariance, PTL DEF Spec
=============================================================================
