-------------------------------- MODULE Api --------------------------------
(***************************************************************************)
(* The stateless handlers, the one-time passwords and the reports in one   *)
(* process, each under the interceptor that logs it: Otp, Payments and     *)
(* Identity composed with RequestLog.                                      *)
(***************************************************************************)
EXTENDS Otp, RequestLog, Payments, Identity, Listing

vars == <<requestVars, otpVars, logVars, paymentVars, listVars>>

CallType ==
    [op: {"send"}, dev: Devs, key: Keys \cup {NoKey}, to: Recipients]
    \cup [op: {"verify"}, dev: Devs, key: Keys \cup {NoKey}, to: Recipients, code: Codes]
    \cup [op: {"usage"}, dev: Devs, key: {NoKey}, of: Keys]
    \cup [op: {"stats"}, dev: Devs, key: {NoKey}]
    \cup [op: {"initialize"}, dev: Devs, key: Keys \cup {NoKey},
          provider: Providers \cup {"default"}, amount: Amounts]
    \cup [op: {"check"}, dev: Devs, key: Keys \cup {NoKey},
          provider: Providers \cup {"default"}, reference: Reqs]
    \cup [op: {"fund"}, dev: Devs, key: {NoKey}]
    \cup [op: {"list"}, dev: Devs, key: {NoKey}, page: Nat \ {0}]
    \cup [op: {"notify"}, dev: {Nobody}, key: {NoKey}, signed: BOOLEAN]
    \cup [op: {"identity", "resolve"}, dev: Devs, key: Keys \cup {NoKey}]

ASSUME ApiAssumption ==
    /\ Calls \subseteq CallType /\ \A c \in Calls : Caller(c)
    /\ Nobody \notin Devs /\ NoKey \notin Keys

TypeOK ==
    /\ call \in [Reqs -> Calls]
    /\ pc \in [Reqs -> {"new", "del", "count", "queries", "answer", "ok", "unanswered", "failed",
                        "notFound", "forbidden", "refused", "unknown"}]
    /\ seen \in [Reqs -> SUBSET Reqs]
    /\ OtpTypeOK /\ LogTypeOK /\ PaymentsTypeOK /\ ListTypeOK

Init == RequestsInit /\ OtpInit /\ LogInit /\ PaymentsInit /\ ListInit

(* Redis and the providers outlive the process; what it had not written    *)
(* does not.                                                               *)
Next ==
    \/ \E r \in Reqs : Messaging(r) /\ UNCHANGED <<logVars, paymentVars, listVars>>
    \/ \E to \in Recipients :
         ExpireOtp(to) /\ UNCHANGED <<requestVars, logVars, paymentVars, listVars>>
    \/ \E r \in Reqs : Payment(r) /\ UNCHANGED <<otpVars, logVars, listVars>>
    \/ \E r \in Reqs : CustomerPays(r) /\ UNCHANGED <<otpVars, logVars, listVars>>
    \/ \E r \in Reqs : List(r) /\ UNCHANGED <<otpVars, logVars, paymentVars>>
    \/ \E r \in Reqs :
         (VerifyIdentity(r) \/ ResolveBank(r) \/ Answer(r))
         /\ UNCHANGED <<otpVars, logVars, paymentVars, listVars>>
    \/ \E r \in Reqs :
         (Reports(r) \/ WriteLog(r)) /\ UNCHANGED <<otpVars, paymentVars, listVars>>
    \/ Crash /\ UNCHANGED <<otpVars, paymentVars, listVars>>

Spec == Init /\ [][Next]_vars
=============================================================================
