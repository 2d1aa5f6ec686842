-------------------------------- MODULE Bank --------------------------------
(***************************************************************************)
(* What the README promises of wallets: money moves atomically between     *)
(* balances that never go negative, only at the owner's PIN, and a wallet  *)
(* locks after MaxPinAttempts wrong PINs in a row until it is unlocked.    *)
(* Wallet implements this when requests do not overlap.                    *)
(***************************************************************************)
EXTENDS Integers

CONSTANTS Devs, Amounts, MaxPinAttempts

VARIABLES
    balance,    \* the money in each wallet
    strikes,    \* wrong PINs since the last right one or unlock
    locked      \* the wallets that refuse money operations

bankVars == <<balance, strikes, locked>>

BankInit ==
    /\ balance \in [Devs -> Amounts \cup {0}]
    /\ strikes = [d \in Devs |-> 0]
    /\ locked = {}

Deposit(d, a) ==
    /\ d \notin locked
    /\ balance' = [balance EXCEPT ![d] = @ + a]
    /\ UNCHANGED <<strikes, locked>>

WrongPin(d) ==
    /\ d \notin locked
    /\ strikes' = [strikes EXCEPT ![d] = @ + 1]
    /\ locked' = IF strikes[d] + 1 = MaxPinAttempts THEN locked \cup {d} ELSE locked
    /\ UNCHANGED balance

RightPin(d) ==
    /\ d \notin locked
    /\ strikes' = [strikes EXCEPT ![d] = 0]
    /\ UNCHANGED <<balance, locked>>

(* Money leaves only after the right PIN, which left no strikes.           *)
MayPay(d, a) == d \notin locked /\ strikes[d] = 0 /\ balance[d] >= a

PayOut(d, a) ==
    /\ MayPay(d, a)
    /\ balance' = [balance EXCEPT ![d] = @ - a]
    /\ UNCHANGED <<strikes, locked>>

(* The recipient may be locked: it is only credited.                       *)
Pay(d, e, a) ==
    /\ MayPay(d, a) /\ d # e
    /\ balance' = [balance EXCEPT ![d] = @ - a, ![e] = @ + a]
    /\ UNCHANGED <<strikes, locked>>

Release(d) ==
    /\ strikes' = [strikes EXCEPT ![d] = 0]
    /\ locked' = locked \ {d}
    /\ UNCHANGED balance

BankNext ==
    \E d \in Devs :
        \/ WrongPin(d) \/ RightPin(d) \/ Release(d)
        \/ \E a \in Amounts : Deposit(d, a) \/ PayOut(d, a) \/ \E e \in Devs : Pay(d, e, a)

BankSpec == BankInit /\ [][BankNext]_bankVars
=============================================================================
