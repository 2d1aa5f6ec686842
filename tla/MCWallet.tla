------------------------------ MODULE MCWallet ------------------------------
(***************************************************************************)
(* Instances of Wallet for TLC.  Developer d1 starts with a PIN and money, *)
(* d2 with an empty wallet without a PIN, d3 (where present) with none.    *)
(***************************************************************************)
EXTENDS WalletBank, WalletCommits, TLC

CONSTANTS d1, d2, d3, x, p1, p2, k1, k2

NoCall(op, d) == [op |-> op, dev |-> d, to |-> d, amount |-> 0,
                  pin |-> p1, newPin |-> p1, key |-> NoKey]

FundCall(d, a, k) == [NoCall("fund", d) EXCEPT !.amount = a, !.key = k]
WithdrawCall(d, a, p, k) == [NoCall("withdraw", d) EXCEPT !.amount = a, !.pin = p, !.key = k]
TransferCall(d, e, a, p, k) ==
    [NoCall("transfer", d) EXCEPT !.to = e, !.amount = a, !.pin = p, !.key = k]
SetPinCall(d, p) == [NoCall("setPin", d) EXCEPT !.newPin = p]
ChangePinCall(d, p, q) == [NoCall("changePin", d) EXCEPT !.pin = p, !.newPin = q]

MCOpened == {d1, d2}
MCOpening == [d \in Devs |-> IF d = d1 THEN [balance |-> 3, pin |-> p1]
                             ELSE [balance |-> 0, pin |-> NoPin]]

(* Overlapping requests: every operation, repeated keys, a self-transfer,  *)
(* a stranger, a wrong PIN, amounts that fit once but not twice.           *)
RaceCalls ==
    { FundCall(d1, 2, k1), FundCall(d2, 1, EmptyKey),
      WithdrawCall(d1, 2, p1, k1), WithdrawCall(d1, 1, p2, NoKey),
      TransferCall(d1, d2, 2, p1, k2), TransferCall(d1, d1, 1, p1, NoKey),
      TransferCall(d1, d3, 1, p1, EmptyKey), TransferCall(d1, x, 1, p1, NoKey),
      TransferCall(d2, d1, 1, p1, NoKey),
      SetPinCall(d2, p1), ChangePinCall(d1, p1, p2),
      NoCall("unlock", d1), NoCall("unlock", d3), NoCall("read", d3) }

(* Requests one at a time: every answer of every handler.                  *)
SerialCalls ==
    { FundCall(d1, 2, k1), FundCall(d2, 1, EmptyKey),
      WithdrawCall(d1, 2, p1, k1), WithdrawCall(d1, 1, p2, NoKey),
      TransferCall(d1, d2, 2, p1, NoKey), TransferCall(d1, x, 1, p1, NoKey),
      TransferCall(d2, d1, 1, p1, EmptyKey),
      SetPinCall(d2, p1), ChangePinCall(d1, p1, p2),
      NoCall("unlock", d1), NoCall("unlock", d3), NoCall("read", d2) }

(* Two requests with nothing wrong in either; one transfer to oneself.     *)
LostUpdateCalls == {FundCall(d1, 2, NoKey), WithdrawCall(d1, 1, p1, NoKey)}
SelfTransferCalls == {TransferCall(d1, d1, 2, p1, NoKey)}

ReqSymmetry == Permutations(Reqs)

-----------------------------------------------------------------------------
(* README.md:62 "wallets lock after 3 failed PIN attempts": where nothing  *)
(* but wrong PINs is tried on a wallet, MaxPinAttempts refused ones leave  *)
(* it locked.                                                              *)
OnlyWrongPins == {WithdrawCall(d1, 1, p2, NoKey), TransferCall(d1, d2, 1, p2, NoKey)}

FailedPins(d) == {r \in Reqs : call[r].dev = d /\ pc[r] = "badPin"}

LocksAfterFailedPins ==
    \A d \in Devs : Cardinality(FailedPins(d)) >= MaxPinAttempts => wallet[d].isLocked
=============================================================================
