-------------------------------- MODULE Otp --------------------------------
(***************************************************************************)
(* One-time passwords (src/messaging/messaging.service.ts): one Redis      *)
(* entry per recipient, written by sendOtp with a time to live, and read   *)
(* and deleted by verifyOtp in two calls that others may come between.     *)
(***************************************************************************)
EXTENDS Requests

CONSTANTS
    Recipients, Codes,
    NoEntry,        \* a Redis key that does not exist, and no send at all
    Earlier         \* the send of each entry that is there at the start

ASSUME OtpAssumption ==
    /\ Earlier \notin Reqs
    /\ NoEntry \notin Codes \cup Reqs \cup {Earlier} \cup [code: Codes, by: Reqs \cup {Earlier}]

VARIABLES
    otp,        \* the entry of each recipient: its code, and the send it is of
    drawn,      \* history: the code each sendOtp stored
    matched,    \* history: the send whose code each verifyOtp was right about
    expired     \* history: the sends whose entry expired

otpVars == <<otp, drawn, matched, expired>>

OtpTypeOK ==
    /\ otp \in [Recipients -> {NoEntry} \cup [code: Codes, by: Reqs \cup {Earlier}]]
    /\ drawn \in [Reqs -> Codes \cup {NoEntry}]
    /\ matched \in [Reqs -> Reqs \cup {Earlier, NoEntry}]
    /\ expired \in SUBSET (Reqs \cup {Earlier})

OtpInit ==
    /\ otp \in [Recipients -> {NoEntry} \cup [code: Codes, by: {Earlier}]]
    /\ drawn = [r \in Reqs |-> NoEntry]
    /\ matched = [r \in Reqs |-> NoEntry]
    /\ expired = {}

-----------------------------------------------------------------------------
(* sendOtp: any code, set over whatever is there.  The mutant sets it only *)
(* where nothing is (SET NX).                                              *)
SendOtpOnce(r) ==
    LET to == call[r].to IN
    /\ Begin(r, "send")
    /\ \/ /\ \E c \in Codes :
               /\ otp' = [otp EXCEPT ![to] = IF @ = NoEntry THEN [code |-> c, by |-> r] ELSE @]
               /\ drawn' = [drawn EXCEPT ![r] = c]
          /\ Lands(r, "answer")
       \/ Goto(r, "failed") /\ UNCHANGED <<otp, drawn>>
    /\ UNCHANGED <<matched, expired>>

SendOtp(r) ==
    /\ Begin(r, "send")
    /\ \/ /\ \E c \in Codes :
               /\ otp' = [otp EXCEPT ![call[r].to] = [code |-> c, by |-> r]]
               /\ drawn' = [drawn EXCEPT ![r] = c]
          /\ Lands(r, "answer")
       \/ Goto(r, "failed") /\ UNCHANGED <<otp, drawn>>
    /\ UNCHANGED <<matched, expired>>

(* verifyOtp up to its comparison.  The mutant reads with GETDEL.          *)
GetDelOtp(r) ==
    LET e == otp[call[r].to] IN
    /\ Begin(r, "verify")
    /\ \/ e = NoEntry /\ Goto(r, "notFound") /\ UNCHANGED matched
       \/ e # NoEntry /\ e.code # call[r].code /\ Goto(r, "refused") /\ UNCHANGED matched
       \/ /\ e # NoEntry /\ e.code = call[r].code
          /\ matched' = [matched EXCEPT ![r] = e.by]
          /\ Goto(r, "del")
       \/ Goto(r, "failed") /\ UNCHANGED matched
    /\ otp' = [otp EXCEPT ![call[r].to] = NoEntry]
    /\ UNCHANGED <<drawn, expired>>

CheckOtp(r) ==
    LET e == otp[call[r].to] IN
    /\ Begin(r, "verify")
    /\ \/ e = NoEntry /\ Goto(r, "notFound") /\ UNCHANGED matched
       \/ e # NoEntry /\ e.code # call[r].code /\ Goto(r, "refused") /\ UNCHANGED matched
       \/ /\ e # NoEntry /\ e.code = call[r].code
          /\ matched' = [matched EXCEPT ![r] = e.by]
          /\ Goto(r, "del")
       \/ Goto(r, "failed") /\ UNCHANGED matched
    /\ UNCHANGED <<otp, drawn, expired>>

(* It deletes the recipient's entry, whosever code that is by now.  The    *)
(* mutant does not wait for DEL, and does not see that it failed.          *)
DeleteOtpUnawaited(r) ==
    /\ At(r, "del")
    /\ otp' \in {otp, [otp EXCEPT ![call[r].to] = NoEntry]}
    /\ Goto(r, "answer")
    /\ UNCHANGED <<drawn, matched, expired>>

DeleteOtp(r) ==
    /\ At(r, "del")
    /\ \/ otp' = [otp EXCEPT ![call[r].to] = NoEntry] /\ Lands(r, "answer")
       \/ Goto(r, "failed") /\ UNCHANGED otp
    /\ UNCHANGED <<drawn, matched, expired>>

(* Five minutes are over.                                                  *)
ExpireOtp(to) ==
    /\ otp[to] # NoEntry
    /\ expired' = expired \cup {otp[to].by}
    /\ otp' = [otp EXCEPT ![to] = NoEntry]
    /\ UNCHANGED <<drawn, matched>>

Messaging(r) == SendOtp(r) \/ CheckOtp(r) \/ DeleteOtp(r)

-----------------------------------------------------------------------------
(* README.md:102 "deleted after successful verification": of one sent code *)
(* at most one verification succeeds, unless two overlap (lines 45-55      *)
(* read and delete in two calls).  Once a verification was answered, that  *)
(* code is refused, whatever failed in between.                            *)
SpentCodeRefused ==
    \A v, w \in Reqs :
        matched[v] # NoEntry /\ matched[v] = matched[w] /\ call[v].to = call[w].to
        => v \notin seen[w]

(* A verification accepts no code that a send which was answered before    *)
(* has replaced (line 23), also if the older message arrives last.         *)
ReplacedCodeRefused ==
    \A v, s \in Reqs :
        /\ s \in seen[v] /\ call[s].op = "send"
        /\ call[v].op = "verify" /\ call[v].to = call[s].to
        => matched[v] # Earlier /\ matched[v] \notin seen[s]

(* The right code is refused (lines 47-53) only for a cause: it expired,   *)
(* a send that was not answered before it replaced it, or a verification   *)
(* that was right deleted it: its own, or, of an older code, too late.     *)
CodeRefusedForCause ==
    \A v \in Reqs : \A s \in seen[v] :
        /\ call[v].op = "verify" /\ pc[v] \in {"notFound", "refused"}
        /\ call[s].op = "send" /\ call[s].to = call[v].to /\ drawn[s] = call[v].code
        => \/ s \in expired
           \/ \E q \in Reqs \ (seen[s] \cup {s, v}) :
                (drawn[q] # NoEntry \/ matched[q] # NoEntry) /\ call[q].to = call[v].to
=============================================================================
