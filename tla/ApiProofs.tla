----------------------------- MODULE ApiProofs -----------------------------
(***************************************************************************)
(* Theorems about Api, for every set of requests and calls, of recipients  *)
(* and codes, of developers and keys, and any ledger and page size.        *)
(***************************************************************************)
EXTENDS Api, TLAPS, FiniteSetTheorems, WellFoundedInduction

(* Sets of requests are finite, and counted as numbers are.                *)
LEMMA ReqsCount ==
    ASSUME NEW S \in SUBSET Reqs
    PROVE  /\ IsFiniteSet(S) /\ Cardinality(S) \in Nat /\ Cardinality(S) <= Cardinality(Reqs)
           /\ Cardinality(Reqs) \in Nat
           /\ \A T \in SUBSET S : Cardinality(T) <= Cardinality(S)
           /\ \A r \in Reqs \ S : Cardinality(S \cup {r}) = Cardinality(S) + 1
  <1>1. IsFiniteSet(Reqs)
    BY RequestsAssumption
  <1>2. IsFiniteSet(S) /\ Cardinality(S) <= Cardinality(Reqs)
    BY <1>1, FS_Subset
  <1>3. \A T \in SUBSET S : Cardinality(T) <= Cardinality(S)
    BY <1>2, FS_Subset
  <1>4. \A r \in Reqs \ S : Cardinality(S \cup {r}) = Cardinality(S) + 1
    BY <1>2, FS_AddElement
  <1> QED BY <1>1, <1>2, <1>3, <1>4, FS_CardinalityType

(* What a call carries, by what it asks for.                               *)
LEMMA CallFields ==
    ASSUME NEW c \in Calls
    PROVE  /\ c.op \in {"send", "verify", "usage", "stats", "initialize", "check", "fund", "list",
                        "notify", "identity", "resolve"}
           /\ c.op \in {"send", "verify"} => c.to \in Recipients
           /\ c.op = "verify" => c.code \in Codes
           /\ c.op = "usage" => c.of \in Keys /\ c.dev \in Devs
           /\ c.op = "initialize" => c.amount \in Amounts
           /\ c.op = "check" => c.reference \in Reqs
           /\ c.op = "list" => c.page \in Nat \ {0}
  <1>1. c \in CallType
    BY ApiAssumption
  <1>2. CASE c \in [op: {"send"}, dev: Devs, key: Keys \cup {NoKey}, to: Recipients]
    BY <1>2
  <1>3. CASE c \in [op: {"verify"}, dev: Devs, key: Keys \cup {NoKey}, to: Recipients,
                    code: Codes]
    BY <1>3
  <1>4. CASE c \in [op: {"usage"}, dev: Devs, key: {NoKey}, of: Keys]
    BY <1>4
  <1>5. CASE c \in [op: {"stats"}, dev: Devs, key: {NoKey}]
    BY <1>5
  <1>6. CASE c \in [op: {"initialize"}, dev: Devs, key: Keys \cup {NoKey},
                    provider: Providers \cup {"default"}, amount: Amounts]
    BY <1>1, <1>6
  <1>7. CASE c \in [op: {"check"}, dev: Devs, key: Keys \cup {NoKey},
                    provider: Providers \cup {"default"}, reference: Reqs]
    BY <1>7
  <1>8. CASE c \in [op: {"fund"}, dev: Devs, key: {NoKey}]
    BY <1>8
  <1>9. CASE c \in [op: {"list"}, dev: Devs, key: {NoKey}, page: Nat \ {0}]
    BY <1>9
  <1>10. CASE c \in [op: {"notify"}, dev: {Nobody}, key: {NoKey}, signed: BOOLEAN]
    BY <1>10
  <1>11. CASE c \in [op: {"identity", "resolve"}, dev: Devs, key: Keys \cup {NoKey}]
    BY <1>11
  <1> QED BY <1>1, <1>2, <1>3, <1>4, <1>5, <1>6, <1>7, <1>8, <1>9, <1>10, <1>11 DEF CallType

-----------------------------------------------------------------------------
(* The requests, whatever their handlers do to their own stores.           *)
Labels == {"new", "del", "count", "queries", "answer", "ok", "unanswered", "failed",
           "notFound", "forbidden", "refused", "unknown"}

RequestTypes ==
    /\ call \in [Reqs -> Calls]
    /\ pc \in [Reqs -> Labels]
    /\ seen \in [Reqs -> SUBSET Reqs]

(* Only requests of an operation come to the labels inside its handler.    *)
LabelsOK == \A r \in Reqs :
    /\ pc[r] = "del" => call[r].op = "verify"
    /\ pc[r] = "count" => call[r].op \in {"usage", "stats"}
    /\ pc[r] = "queries" => call[r].op = "list"

(* A request comes after requests that were answered, and stays so.        *)
SeenOk == \A r \in Reqs :
    /\ \A s \in seen[r] : pc[s] = "ok"
    /\ pc[r] = "new" => seen[r] = {}

RequestInv == RequestTypes /\ LabelsOK /\ SeenOk

(* A step is of one handler, of the world around, or the process's death.  *)
Handler(r) ==
    \/ Messaging(r) /\ UNCHANGED <<logVars, paymentVars, listVars>>
    \/ Payment(r) /\ UNCHANGED <<otpVars, logVars, listVars>>
    \/ List(r) /\ UNCHANGED <<otpVars, logVars, paymentVars>>
    \/ /\ VerifyIdentity(r) \/ ResolveBank(r) \/ Answer(r)
       /\ UNCHANGED <<otpVars, logVars, paymentVars, listVars>>
    \/ Reports(r) /\ UNCHANGED <<otpVars, paymentVars, listVars>>

World ==
    /\ UNCHANGED requestVars
    /\ \/ \E to \in Recipients : ExpireOtp(to) /\ UNCHANGED <<logVars, paymentVars, listVars>>
       \/ \E r \in Reqs : CustomerPays(r) /\ UNCHANGED <<otpVars, logVars, listVars>>
       \/ \E r \in Reqs : WriteLog(r) /\ UNCHANGED <<otpVars, paymentVars, listVars>>

Death == Crash /\ UNCHANGED <<otpVars, paymentVars, listVars>>

LEMMA NextCases ==
    ASSUME [Next]_vars
    PROVE  UNCHANGED vars \/ World \/ Death \/ \E r \in Reqs : Handler(r)
  BY DEF Next, World, Death, Handler, CustomerPays, WriteLog

(* Where a handler's step takes its request; the others it leaves alone.   *)
LEMMA HandlerStep ==
    ASSUME RequestTypes, NEW r \in Reqs, Handler(r)
    PROVE  /\ call' = call
           /\ \A s \in Reqs : s # r => pc'[s] = pc[s] /\ seen'[s] = seen[s]
           /\ pc' \in [Reqs -> Labels] /\ seen' \in [Reqs -> SUBSET Reqs]
           /\ \/ /\ pc[r] = "new" /\ pc'[r] \notin {"new", "ok", "unanswered"}
                 /\ seen'[r] = {q \in Reqs : pc[q] = "ok"}
                 /\ pc'[r] = "del" => call[r].op = "verify"
                 /\ pc'[r] = "count" => call[r].op \in {"usage", "stats"}
                 /\ pc'[r] = "queries" => call[r].op = "list"
              \/ /\ pc[r] = "del" /\ pc'[r] \in {"answer", "failed"} /\ seen'[r] = seen[r]
              \/ /\ pc[r] = "count" /\ pc'[r] \in {"count", "answer", "failed"}
                 /\ seen'[r] = seen[r]
              \/ /\ pc[r] = "queries" /\ pc'[r] \in {"queries", "answer", "failed"}
                 /\ seen'[r] = seen[r]
              \/ /\ pc[r] = "answer" /\ pc'[r] \in {"ok", "unanswered"} /\ seen'[r] = seen[r]
  <1> USE DEF RequestTypes, Goto, Begin, At, Lands, Labels
  <1>1. CASE Messaging(r)
    BY <1>1 DEF Messaging, SendOtp, CheckOtp, DeleteOtp
  <1>2. CASE Payment(r)
    BY <1>2 DEF Payment, InitializePayment, VerifyPayment, HandleWebhook
  <1>3. CASE List(r)
    BY <1>3 DEF List, CommitRow, FindWallet, FindMany, CountLedger, ReturnPage
  <1>4. CASE VerifyIdentity(r) \/ ResolveBank(r) \/ Answer(r)
    BY <1>4 DEF VerifyIdentity, ResolveBank, Answer
  <1>5. CASE Reports(r)
    BY <1>5 DEF Reports, FindUsageKey, BeginStats, CountRows
  <1> QED BY <1>1, <1>2, <1>3, <1>4, <1>5 DEF Handler

(* When the process dies, what was answered stays answered.                *)
LEMMA DeathStep ==
    ASSUME RequestTypes, Death
    PROVE  /\ call' = call /\ seen' = seen /\ pc' \in [Reqs -> Labels]
           /\ \A r \in Reqs :
                pc'[r] = IF pc[r] = "answer" THEN "unanswered"
                         ELSE IF pc[r] = "new" \/ Ended(r) THEN pc[r] ELSE "failed"
  BY DEF Death, Crash, Dropped, RequestTypes, Labels

LEMMA RequestInit == Init => RequestInv
  BY DEF Init, RequestsInit, RequestInv, RequestTypes, LabelsOK, SeenOk, Labels

LEMMA RequestNext == RequestInv /\ [Next]_vars => RequestInv'
  <1> SUFFICES ASSUME RequestInv, [Next]_vars PROVE RequestInv'
    OBVIOUS
  <1>t. RequestTypes
    BY DEF RequestInv
  <1>1. CASE UNCHANGED vars \/ World
    BY <1>1 DEF vars, World, requestVars, RequestInv, RequestTypes, LabelsOK, SeenOk
  <1>2. CASE Death
    BY <1>t, <1>2, DeathStep DEF RequestInv, RequestTypes, LabelsOK, SeenOk, Ended
  <1>3. ASSUME NEW r \in Reqs, Handler(r) PROVE RequestInv'
    <2>1. RequestTypes' /\ LabelsOK'
      BY <1>t, <1>3, HandlerStep DEF RequestInv, RequestTypes, LabelsOK
    <2>2. SeenOk'
      BY <1>t, <1>3, HandlerStep DEF RequestInv, RequestTypes, SeenOk
    <2> QED BY <2>1, <2>2 DEF RequestInv
  <1> QED BY <1>1, <1>2, <1>3, NextCases

(* What was asked for never changes.                                       *)
LEMMA CallStays ==
    ASSUME RequestInv, [Next]_vars
    PROVE  call' = call
  BY NextCases, HandlerStep, DeathStep DEF RequestInv, vars, World, requestVars

(* What any step does to any request.                                      *)
LEMMA RequestSteps ==
    ASSUME RequestInv, [Next]_vars, NEW r \in Reqs
    PROVE  /\ call' = call
           /\ Ended(r) => pc'[r] = pc[r]
           /\ pc[r] # "new" => pc'[r] # "new" /\ seen'[r] = seen[r]
           /\ seen'[r] = seen[r] \/ (pc[r] = "new" /\ seen'[r] = {q \in Reqs : pc[q] = "ok"})
           /\ pc[r] = "new" /\ pc'[r] # "new" => seen'[r] = {q \in Reqs : pc[q] = "ok"}
           /\ pc'[r] = "ok" => pc[r] \in {"answer", "ok"}
           /\ Served(r) => Served(r)'
           /\ pc'[r] = pc[r] \/ Death \/ Handler(r)
           /\ Served(r)' /\ ~Served(r) => Handler(r) /\ pc'[r] = "answer"
  <1>t. RequestTypes
    BY DEF RequestInv
  <1>1. CASE UNCHANGED vars \/ World
    BY <1>1 DEF vars, World, requestVars, Served
  <1>2. CASE Death
    BY <1>t, <1>2, DeathStep DEF Ended, Served
  <1>3. ASSUME NEW s \in Reqs, s # r, Handler(s)
        PROVE  call' = call /\ pc'[r] = pc[r] /\ seen'[r] = seen[r]
    BY <1>t, <1>3, HandlerStep
  <1>4. CASE Handler(r)
    BY <1>t, <1>4, HandlerStep DEF Ended, Served
  <1> QED BY <1>1, <1>2, <1>3, <1>4, NextCases DEF Served

-----------------------------------------------------------------------------
(* One-time passwords.                                                     *)
Elsewhere == UNCHANGED otpVars /\ \A r \in Reqs :
    \/ pc'[r] = pc[r] \/ pc'[r] = "failed"
    \/ pc[r] = "answer" /\ pc'[r] \in {"ok", "unanswered"}
    \/ call[r].op \notin {"send", "verify"}

LEMMA OtpCases ==
    ASSUME RequestInv, [Next]_vars
    PROVE  \/ Elsewhere
           \/ \E r \in Reqs : Handler(r) /\ (SendOtp(r) \/ CheckOtp(r) \/ DeleteOtp(r))
           \/ \E to \in Recipients : ExpireOtp(to) /\ UNCHANGED requestVars
  <1>t. RequestTypes
    BY DEF RequestInv
  <1>1. CASE UNCHANGED vars \/ World
    BY <1>1 DEF vars, World, requestVars, Elsewhere
  <1>2. CASE Death
    BY <1>t, <1>2, DeathStep DEF Death, Elsewhere, Ended
  <1>3. ASSUME NEW r \in Reqs, Handler(r), ~SendOtp(r), ~CheckOtp(r), ~DeleteOtp(r)
        PROVE  Elsewhere
    <2>1. UNCHANGED otpVars
      BY <1>3 DEF Handler, Messaging
    <2>2. CASE pc[r] = "new"
      <3>1. call[r].op \notin {"send", "verify"}
        BY <1>3, <2>2 DEF Handler, Messaging, Payment, InitializePayment, VerifyPayment,
           HandleWebhook, List, CommitRow, FindWallet, FindMany, CountLedger, ReturnPage,
           VerifyIdentity, ResolveBank, Answer, Reports, FindUsageKey, BeginStats, CountRows,
           Begin, At
      <3> QED BY <1>t, <1>3, <2>1, <3>1, HandlerStep DEF Elsewhere
    <2>3. CASE pc[r] = "answer"
      BY <1>t, <1>3, <2>1, <2>3, HandlerStep DEF Elsewhere
    <2>4. CASE pc[r] \in {"count", "queries"}
      <3>1. call[r].op \notin {"send", "verify"}
        BY <2>4 DEF RequestInv, LabelsOK
      <3> QED BY <1>t, <1>3, <2>1, <3>1, HandlerStep DEF Elsewhere
    <2>5. CASE pc[r] = "del"
      BY <1>3, <2>5 DEF Handler, Messaging, Payment, InitializePayment, VerifyPayment,
         HandleWebhook, List, CommitRow, FindWallet, FindMany, CountLedger, ReturnPage,
         VerifyIdentity, ResolveBank, Answer, Reports, FindUsageKey, BeginStats, CountRows,
         Begin, At
    <2> QED BY <1>t, <1>3, <2>2, <2>3, <2>4, <2>5, HandlerStep
  <1> QED BY <1>1, <1>2, <1>3, NextCases

(* What each of the three calls does, apart from how it may fail.          *)
LEMMA SendStep ==
    ASSUME RequestInv, OtpTypeOK, NEW r \in Reqs, SendOtp(r)
    PROVE  /\ pc[r] = "new" /\ call[r].op = "send" /\ call[r].to \in Recipients
           /\ matched' = matched /\ expired' = expired
           /\ pc'[r] \in {"answer", "failed"}
           /\ \/ \E c \in Codes :
                   /\ otp' = [otp EXCEPT ![call[r].to] = [code |-> c, by |-> r]]
                   /\ drawn' = [drawn EXCEPT ![r] = c]
              \/ pc'[r] = "failed" /\ otp' = otp /\ drawn' = drawn
  BY CallFields DEF SendOtp, Begin, Lands, Goto, RequestInv, RequestTypes

LEMMA CheckStep ==
    ASSUME RequestInv, OtpTypeOK, NEW r \in Reqs, CheckOtp(r)
    PROVE  LET e == otp[call[r].to] IN
           /\ pc[r] = "new" /\ call[r].op = "verify" /\ call[r].to \in Recipients
           /\ otp' = otp /\ drawn' = drawn /\ expired' = expired
           /\ pc'[r] \in {"notFound", "refused", "del", "failed"}
           /\ \/ /\ matched' = matched /\ pc'[r] # "del"
                 /\ pc'[r] \in {"notFound", "refused"} => e = NoEntry \/ e.code # call[r].code
              \/ /\ e # NoEntry /\ e.code = call[r].code /\ pc'[r] = "del"
                 /\ matched' = [matched EXCEPT ![r] = e.by]
  BY CallFields DEF CheckOtp, Begin, Goto, RequestInv, RequestTypes

LEMMA DeleteStep ==
    ASSUME RequestInv, OtpTypeOK, NEW r \in Reqs, DeleteOtp(r)
    PROVE  /\ pc[r] = "del" /\ call[r].op = "verify" /\ call[r].to \in Recipients
           /\ drawn' = drawn /\ matched' = matched /\ expired' = expired
           /\ pc'[r] \in {"answer", "failed"}
           /\ \/ otp' = [otp EXCEPT ![call[r].to] = NoEntry]
              \/ pc'[r] = "failed" /\ otp' = otp
  BY CallFields DEF DeleteOtp, At, Lands, Goto, RequestInv, RequestTypes, LabelsOK

(* Where an entry, a drawn code and a right verification come from.        *)
EntriesOk == \A to \in Recipients : otp[to] # NoEntry /\ otp[to].by \in Reqs =>
    LET s == otp[to].by IN
    call[s].op = "send" /\ call[s].to = to /\ pc[s] # "new" /\ drawn[s] = otp[to].code

DrawnOk == \A s \in Reqs : drawn[s] # NoEntry => call[s].op = "send" /\ pc[s] # "new"

MatchedOk == \A v \in Reqs :
    /\ matched[v] # NoEntry => call[v].op = "verify" /\ pc[v] \notin {"new", "notFound", "refused"}
    /\ pc[v] = "del" => matched[v] # NoEntry
    /\ matched[v] \in Reqs => LET s == matched[v] IN
         call[s].op = "send" /\ call[s].to = call[v].to /\ pc[s] # "new"

OtpInv == OtpTypeOK /\ EntriesOk /\ DrawnOk /\ MatchedOk

(* NoEntry is no entry, no code and no request.                            *)
LEMMA OtpFacts ==
    ASSUME OtpTypeOK, NEW to \in Recipients
    PROVE  /\ otp[to] = NoEntry \/ otp[to] \in [code: Codes, by: Reqs \cup {Earlier}]
           /\ otp[to] # NoEntry => /\ otp[to].by # NoEntry /\ otp[to].by \in Reqs \cup {Earlier}
                                   /\ otp[to].code # NoEntry /\ otp[to].code \in Codes
           /\ NoEntry \notin Reqs /\ NoEntry \notin Codes /\ Earlier \notin Reqs
           /\ NoEntry # Earlier
           /\ \A c \in Codes, s \in Reqs : [code |-> c, by |-> s] # NoEntry
  BY OtpAssumption DEF OtpTypeOK

LEMMA OtpInitInv == Init => OtpInv
  <1> SUFFICES ASSUME Init PROVE OtpInv
    OBVIOUS
  <1>1. OtpTypeOK
    BY DEF Init, OtpInit, OtpTypeOK
  <1>2. EntriesOk
    BY <1>1, OtpFacts DEF Init, OtpInit, EntriesOk
  <1>3. DrawnOk /\ MatchedOk
    BY OtpAssumption DEF Init, OtpInit, RequestsInit, DrawnOk, MatchedOk
  <1> QED BY <1>1, <1>2, <1>3 DEF OtpInv

LEMMA OtpTypesNext == RequestInv /\ OtpInv /\ [Next]_vars => OtpTypeOK'
  <1> SUFFICES ASSUME RequestInv, OtpInv, [Next]_vars PROVE OtpTypeOK'
    OBVIOUS
  <1>t. OtpTypeOK
    BY DEF OtpInv
  <1>1. CASE Elsewhere
    BY <1>1, <1>t DEF Elsewhere, otpVars, OtpTypeOK
  <1>2. ASSUME NEW r \in Reqs, SendOtp(r) PROVE OtpTypeOK'
    <2>1. CASE otp' = otp /\ drawn' = drawn
      BY <1>2, <1>t, <2>1, SendStep DEF OtpTypeOK
    <2>2. ASSUME NEW c \in Codes,
                 otp' = [otp EXCEPT ![call[r].to] = [code |-> c, by |-> r]],
                 drawn' = [drawn EXCEPT ![r] = c]
          PROVE  OtpTypeOK'
      <3>1. [code |-> c, by |-> r] \in [code: Codes, by: Reqs \cup {Earlier}]
        OBVIOUS
      <3>2. matched' = matched /\ expired' = expired
        BY <1>2, <1>t, SendStep
      <3> QED BY <1>t, <2>2, <3>1, <3>2 DEF OtpTypeOK
    <2> QED BY <1>2, <1>t, <2>1, <2>2, SendStep
  <1>3. ASSUME NEW r \in Reqs, CheckOtp(r) PROVE OtpTypeOK'
    BY <1>3, <1>t, CheckStep, OtpFacts DEF OtpTypeOK
  <1>4. ASSUME NEW r \in Reqs, DeleteOtp(r) PROVE OtpTypeOK'
    BY <1>4, <1>t, DeleteStep DEF OtpTypeOK
  <1>5. ASSUME NEW to \in Recipients, ExpireOtp(to) PROVE OtpTypeOK'
    BY <1>5, <1>t, OtpFacts DEF ExpireOtp, OtpTypeOK
  <1> QED BY <1>1, <1>2, <1>3, <1>4, <1>5, OtpCases

LEMMA OtpNext == RequestInv /\ OtpInv /\ [Next]_vars => OtpInv'
  <1> SUFFICES ASSUME RequestInv, OtpInv, [Next]_vars PROVE OtpInv'
    OBVIOUS
  <1>t. OtpTypeOK /\ OtpTypeOK' /\ RequestTypes
    BY OtpTypesNext DEF OtpInv, RequestInv
  <1>p. \A r \in Reqs : /\ call' = call /\ (pc[r] # "new" => pc'[r] # "new")
                        /\ (Ended(r) => pc'[r] = pc[r])
    BY RequestSteps
  <1>1. CASE Elsewhere
    <2>1. EntriesOk' /\ DrawnOk'
      BY <1>1, <1>p DEF Elsewhere, otpVars, OtpInv, EntriesOk, DrawnOk
    <2>2. \A r \in Reqs : pc'[r] = "del" => call[r].op = "verify"
      BY <1>p, RequestNext DEF RequestInv, LabelsOK
    <2>3. MatchedOk'
      BY <1>1, <1>p, <2>2 DEF Elsewhere, otpVars, OtpInv, MatchedOk
    <2> QED BY <1>t, <2>1, <2>3 DEF OtpInv
  <1>2. ASSUME NEW r \in Reqs, Handler(r), SendOtp(r) PROVE OtpInv'
    <2>s. \A s \in Reqs : s # r => pc'[s] = pc[s]
      BY <1>2, <1>t, HandlerStep
    <2>n. /\ pc[r] = "new" /\ pc'[r] \in {"answer", "failed"} /\ call[r].op = "send"
          /\ call[r].to \in Recipients /\ matched' = matched
      BY <1>2, <1>t, SendStep
    <2>1. EntriesOk'
      <3>1. ASSUME NEW c \in Codes,
                   otp' = [otp EXCEPT ![call[r].to] = [code |-> c, by |-> r]],
                   drawn' = [drawn EXCEPT ![r] = c]
            PROVE  EntriesOk'
        <4>1. \A to \in Recipients : otp'[to] =
                IF to = call[r].to THEN [code |-> c, by |-> r] ELSE otp[to]
          BY <1>t, <2>n, <3>1 DEF OtpTypeOK
        <4>2. drawn'[r] = c /\ \A s \in Reqs : s # r => drawn'[s] = drawn[s]
          BY <1>t, <3>1 DEF OtpTypeOK
        <4>3. \A to \in Recipients : otp[to] # NoEntry => otp[to].by # r
          BY <2>n DEF OtpInv, EntriesOk
        <4> QED BY <1>p, <2>s, <2>n, <4>1, <4>2, <4>3 DEF OtpInv, EntriesOk
      <3>2. CASE otp' = otp /\ drawn' = drawn
        BY <1>p, <2>s, <2>n, <3>2 DEF OtpInv, EntriesOk
      <3> QED BY <1>2, <1>t, <3>1, <3>2, SendStep
    <2>2. DrawnOk'
      <3>1. \A s \in Reqs : s # r => drawn'[s] = drawn[s]
        BY <1>2, <1>t, SendStep DEF OtpTypeOK
      <3> QED BY <1>p, <2>s, <2>n, <3>1 DEF OtpInv, DrawnOk
    <2>3. MatchedOk'
      BY <1>p, <2>s, <2>n DEF OtpInv, MatchedOk
    <2> QED BY <1>t, <2>1, <2>2, <2>3 DEF OtpInv
  <1>3. ASSUME NEW r \in Reqs, Handler(r), CheckOtp(r) PROVE OtpInv'
    <2>s. \A s \in Reqs : s # r => pc'[s] = pc[s]
      BY <1>3, <1>t, HandlerStep
    <2>n. /\ pc[r] = "new" /\ pc'[r] \in {"notFound", "refused", "del", "failed"}
          /\ call[r].op = "verify" /\ call[r].to \in Recipients
          /\ otp' = otp /\ drawn' = drawn
      BY <1>3, <1>t, CheckStep
    <2>1. EntriesOk' /\ DrawnOk'
      BY <1>p, <2>s, <2>n DEF OtpInv, EntriesOk, DrawnOk
    <2>2. MatchedOk'
      <3>1. CASE matched' = matched /\ pc'[r] # "del"
        BY <1>p, <2>s, <2>n, <3>1 DEF OtpInv, MatchedOk
      <3>2. CASE /\ otp[call[r].to] # NoEntry /\ pc'[r] = "del"
                 /\ matched' = [matched EXCEPT ![r] = otp[call[r].to].by]
        <4>1. otp[call[r].to].by # NoEntry /\ matched'[r] = otp[call[r].to].by
              /\ \A s \in Reqs : s # r => matched'[s] = matched[s]
          BY <1>t, <2>n, <3>2, OtpFacts DEF OtpTypeOK
        <4>2. otp[call[r].to].by \in Reqs => LET s == otp[call[r].to].by IN
                call[s].op = "send" /\ call[s].to = call[r].to /\ pc[s] # "new"
          BY <2>n, <3>2 DEF OtpInv, EntriesOk
        <4>3. ASSUME NEW v \in Reqs
              PROVE  /\ matched'[v] # NoEntry => call'[v].op = "verify"
                                /\ pc'[v] \notin {"new", "notFound", "refused"}
                     /\ pc'[v] = "del" => matched'[v] # NoEntry
                     /\ matched'[v] \in Reqs => LET s == matched'[v] IN
                            call'[s].op = "send" /\ call'[s].to = call'[v].to /\ pc'[s] # "new"
          <5>1. CASE v = r
            BY <1>p, <2>s, <2>n, <3>2, <4>1, <4>2, <5>1
          <5>2. CASE v # r
            BY <1>p, <2>s, <2>n, <4>1, <5>2 DEF OtpInv, MatchedOk
          <5> QED BY <5>1, <5>2
        <4> QED BY <4>3 DEF MatchedOk
      <3> QED BY <1>3, <1>t, <3>1, <3>2, CheckStep
    <2> QED BY <1>t, <2>1, <2>2 DEF OtpInv
  <1>4. ASSUME NEW r \in Reqs, Handler(r), DeleteOtp(r) PROVE OtpInv'
    <2>s. \A s \in Reqs : s # r => pc'[s] = pc[s]
      BY <1>4, <1>t, HandlerStep
    <2>n. /\ pc[r] = "del" /\ pc'[r] \in {"answer", "failed"} /\ call[r].to \in Recipients
          /\ drawn' = drawn /\ matched' = matched
          /\ otp' = otp \/ otp' = [otp EXCEPT ![call[r].to] = NoEntry]
      BY <1>4, <1>t, DeleteStep
    <2>1. EntriesOk'
      BY <1>t, <1>p, <2>s, <2>n DEF OtpInv, EntriesOk, OtpTypeOK
    <2>2. DrawnOk' /\ MatchedOk'
      BY <1>p, <2>s, <2>n DEF OtpInv, DrawnOk, MatchedOk
    <2> QED BY <1>t, <2>1, <2>2 DEF OtpInv
  <1>5. ASSUME NEW to \in Recipients, ExpireOtp(to), UNCHANGED requestVars PROVE OtpInv'
    <2>1. otp' = [otp EXCEPT ![to] = NoEntry] /\ drawn' = drawn /\ matched' = matched
      BY <1>5 DEF ExpireOtp
    <2> QED BY <1>5, <1>t, <2>1
            DEF requestVars, OtpInv, EntriesOk, DrawnOk, MatchedOk, OtpTypeOK
  <1> QED BY <1>1, <1>2, <1>3, <1>4, <1>5, OtpCases

(* What any step does to an entry, and to what is remembered of a request. *)
LEMMA EntrySteps ==
    ASSUME RequestInv, OtpInv, [Next]_vars, NEW to \in Recipients
    PROVE  \/ otp'[to] = otp[to]
           \/ /\ otp'[to] = NoEntry
              /\ \/ otp[to] # NoEntry /\ otp[to].by \in expired'
                 \/ \E r \in Reqs : /\ pc[r] = "del" /\ call[r].to = to
                                    /\ matched[r] # NoEntry /\ matched'[r] = matched[r]
           \/ \E r \in Reqs : /\ pc[r] = "new" /\ call[r].op = "send" /\ call[r].to = to
                              /\ otp'[to] # NoEntry /\ otp'[to].by = r /\ drawn'[r] # NoEntry
  <1>t. OtpTypeOK
    BY DEF OtpInv
  <1>1. CASE Elsewhere
    BY <1>1 DEF Elsewhere, otpVars
  <1>2. ASSUME NEW r \in Reqs, SendOtp(r), otp'[to] # otp[to]
        PROVE  /\ pc[r] = "new" /\ call[r].op = "send" /\ call[r].to = to
               /\ otp'[to] # NoEntry /\ otp'[to].by = r /\ drawn'[r] # NoEntry
    <2>1. PICK c \in Codes : /\ otp' = [otp EXCEPT ![call[r].to] = [code |-> c, by |-> r]]
                             /\ drawn' = [drawn EXCEPT ![r] = c]
      BY <1>2, <1>t, SendStep
    <2>2. /\ call[r].to = to /\ otp'[to] = [code |-> c, by |-> r] /\ drawn'[r] = c
      BY <1>2, <1>t, <2>1 DEF OtpTypeOK
    <2>3. c # NoEntry /\ [code |-> c, by |-> r] # NoEntry
      BY <1>t, OtpFacts
    <2> QED BY <1>2, <1>t, <2>2, <2>3, SendStep
  <1>3. ASSUME NEW r \in Reqs, CheckOtp(r) PROVE otp'[to] = otp[to]
    BY <1>3, <1>t, CheckStep
  <1>4. ASSUME NEW r \in Reqs, DeleteOtp(r), otp'[to] # otp[to]
        PROVE  /\ otp'[to] = NoEntry /\ pc[r] = "del" /\ call[r].to = to
               /\ matched[r] # NoEntry /\ matched'[r] = matched[r]
    BY <1>4, <1>t, DeleteStep DEF OtpInv, MatchedOk, OtpTypeOK
  <1>5. ASSUME NEW a \in Recipients, ExpireOtp(a), otp'[to] # otp[to]
        PROVE  otp'[to] = NoEntry /\ otp[to] # NoEntry /\ otp[to].by \in expired'
    BY <1>5, <1>t DEF ExpireOtp, OtpTypeOK
  <1> QED BY <1>1, <1>2, <1>3, <1>4, <1>5, OtpCases

LEMMA HistorySteps ==
    ASSUME RequestInv, OtpInv, [Next]_vars, NEW r \in Reqs
    PROVE  /\ \/ drawn'[r] = drawn[r]
              \/ drawn[r] = NoEntry /\ pc[r] = "new" /\ call[r].op = "send"
           /\ \/ matched'[r] = matched[r]
              \/ /\ matched[r] = NoEntry /\ pc[r] = "new" /\ pc'[r] = "del"
                 /\ call[r].op = "verify" /\ call[r].to \in Recipients
                 /\ otp' = otp /\ otp[call[r].to] # NoEntry
                 /\ matched'[r] = otp[call[r].to].by
           /\ expired \subseteq expired'
  <1>t. OtpTypeOK
    BY DEF OtpInv
  <1>1. CASE Elsewhere
    BY <1>1 DEF Elsewhere, otpVars
  <1>2. ASSUME NEW s \in Reqs, SendOtp(s)
        PROVE  /\ drawn'[r] = drawn[r] \/ (pc[r] = "new" /\ call[r].op = "send")
               /\ matched' = matched /\ expired' = expired
    BY <1>2, <1>t, SendStep DEF OtpTypeOK
  <1>3. ASSUME NEW s \in Reqs, CheckOtp(s)
        PROVE  /\ drawn' = drawn /\ expired' = expired
               /\ \/ matched'[r] = matched[r]
                  \/ /\ pc[r] = "new" /\ pc'[r] = "del"
                     /\ call[r].op = "verify" /\ call[r].to \in Recipients
                     /\ otp' = otp /\ otp[call[r].to] # NoEntry
                     /\ matched'[r] = otp[call[r].to].by
    BY <1>3, <1>t, CheckStep DEF OtpTypeOK
  <1>4. ASSUME NEW s \in Reqs, DeleteOtp(s)
        PROVE  drawn' = drawn /\ matched' = matched /\ expired' = expired
    BY <1>4, <1>t, DeleteStep
  <1>5. ASSUME NEW to \in Recipients, ExpireOtp(to)
        PROVE  drawn' = drawn /\ matched' = matched /\ expired \subseteq expired'
    BY <1>5 DEF ExpireOtp
  <1>6. pc[r] = "new" => matched[r] = NoEntry /\ drawn[r] = NoEntry
    BY DEF OtpInv, MatchedOk, DrawnOk
  <1> QED BY <1>1, <1>2, <1>3, <1>4, <1>5, <1>6, OtpCases

(* A send that is answered has set its entry; a verification that is, has  *)
(* deleted one.                                                            *)
LEMMA LandSteps ==
    ASSUME RequestInv, OtpInv, [Next]_vars, NEW r \in Reqs, Served(r)', ~Served(r)
    PROVE  /\ call[r].op = "send" => /\ pc[r] = "new" /\ call[r].to \in Recipients
                                     /\ otp'[call[r].to] # NoEntry
                                     /\ otp'[call[r].to].by = r
           /\ call[r].op = "verify" => /\ call[r].to \in Recipients
                                       /\ otp'[call[r].to] = NoEntry
                                       /\ matched' = matched
  <1>t. RequestTypes /\ OtpTypeOK
    BY DEF OtpInv, RequestInv
  <1>1. Handler(r) /\ pc'[r] = "answer"
    BY RequestSteps
  <1>2. pc[r] \in {"new", "del", "count", "queries"}
    BY <1>t, <1>1, HandlerStep
  <1>3. ASSUME call[r].op = "send"
        PROVE  /\ pc[r] = "new" /\ call[r].to \in Recipients
               /\ otp'[call[r].to] # NoEntry /\ otp'[call[r].to].by = r
    <2>1. SendOtp(r)
      BY <1>1, <1>2, <1>3 DEF Handler, Messaging, CheckOtp, DeleteOtp, Payment,
         InitializePayment, VerifyPayment, HandleWebhook, List, CommitRow, FindWallet, FindMany,
         CountLedger, ReturnPage, VerifyIdentity, ResolveBank, Answer, Reports, FindUsageKey,
         BeginStats, CountRows, Begin, At, RequestInv, LabelsOK
    <2>2. PICK c \in Codes : otp' = [otp EXCEPT ![call[r].to] = [code |-> c, by |-> r]]
      BY <1>1, <1>t, <2>1, SendStep
    <2>3. pc[r] = "new" /\ call[r].to \in Recipients
      BY <1>t, <2>1, SendStep
    <2>4. otp'[call[r].to] = [code |-> c, by |-> r]
      BY <1>t, <2>2, <2>3 DEF OtpTypeOK
    <2> QED BY <1>t, <2>3, <2>4, OtpFacts
  <1>4. ASSUME call[r].op = "verify"
        PROVE  call[r].to \in Recipients /\ otp'[call[r].to] = NoEntry /\ matched' = matched
    <2>1. CheckOtp(r) \/ DeleteOtp(r)
      BY <1>1, <1>2, <1>4 DEF Handler, Messaging, SendOtp, Payment,
         InitializePayment, VerifyPayment, HandleWebhook, List, CommitRow, FindWallet, FindMany,
         CountLedger, ReturnPage, VerifyIdentity, ResolveBank, Answer, Reports, FindUsageKey,
         BeginStats, CountRows, Begin, At, RequestInv, LabelsOK
    <2>2. DeleteOtp(r)
      BY <1>1, <1>t, <2>1, CheckStep
    <2>3. otp' = [otp EXCEPT ![call[r].to] = NoEntry] /\ call[r].to \in Recipients
          /\ matched' = matched
      BY <1>1, <1>t, <2>2, DeleteStep
    <2> QED BY <1>t, <2>3 DEF OtpTypeOK
  <1> QED BY <1>3, <1>4

-----------------------------------------------------------------------------
(* A code that was accepted, by an answered verification, is deleted.      *)
Spent == \A v \in Reqs : matched[v] # NoEntry /\ Served(v) =>
    otp[call[v].to] = NoEntry \/ otp[call[v].to].by # matched[v]

LEMMA SpentNext ==
    RequestInv /\ OtpInv /\ Spent /\ SpentCodeRefused /\ [Next]_vars
        => Spent' /\ SpentCodeRefused'
  <1> SUFFICES ASSUME RequestInv, OtpInv, Spent, SpentCodeRefused, [Next]_vars
               PROVE  Spent' /\ SpentCodeRefused'
    OBVIOUS
  <1>t. OtpTypeOK /\ OtpInv' /\ RequestInv' /\ call' = call
    BY OtpNext, RequestNext, CallStays DEF OtpInv
  <1>1. Spent'
    <2> SUFFICES ASSUME NEW v \in Reqs, matched'[v] # NoEntry, Served(v)',
                        otp'[call[v].to] # NoEntry
                 PROVE  otp'[call[v].to].by # matched'[v]
      BY <1>t DEF Spent
    <2>0. call[v].op = "verify" /\ call[v].to \in Recipients
      BY <1>t, CallFields DEF OtpInv, MatchedOk, RequestInv, RequestTypes
    <2>1. Served(v)
      BY <2>0, LandSteps
    <2>2. matched'[v] = matched[v]
      BY <2>1, HistorySteps DEF Served
    <2>3. CASE otp'[call[v].to] = otp[call[v].to]
      BY <2>1, <2>2, <2>3 DEF Spent
    <2>4. ASSUME NEW r \in Reqs, pc[r] = "new", otp'[call[v].to].by = r
          PROVE  otp'[call[v].to].by # matched'[v]
      BY <2>2, <2>4 DEF OtpInv, MatchedOk
    <2> QED BY <2>0, <2>3, <2>4, EntrySteps
  <1>2. SpentCodeRefused'
    <2> SUFFICES ASSUME NEW v \in Reqs, NEW w \in Reqs, matched'[v] # NoEntry,
                        matched'[v] = matched'[w], call[v].to = call[w].to, v \in seen'[w]
                 PROVE  FALSE
      BY <1>t DEF SpentCodeRefused
    <2>1. pc[v] = "ok"
      BY RequestSteps DEF RequestInv, SeenOk
    <2>2. matched'[v] = matched[v]
      BY <2>1, HistorySteps
    <2>3. CASE matched'[w] = matched[w]
      <3>1. pc[w] # "new"
        BY <2>2, <2>3 DEF OtpInv, MatchedOk
      <3>2. seen'[w] = seen[w]
        BY <3>1, RequestSteps
      <3> QED BY <2>2, <2>3, <3>2 DEF SpentCodeRefused
    <2>4. CASE otp[call[w].to] # NoEntry /\ matched'[w] = otp[call[w].to].by
      BY <2>1, <2>2, <2>4 DEF Spent, Served
    <2> QED BY <2>3, <2>4, HistorySteps
  <1> QED BY <1>1, <1>2

(* No code that a send replaced is there when that send has been answered. *)
Replaced == \A s \in Reqs : call[s].op = "send" /\ Served(s) /\ otp[call[s].to] # NoEntry =>
    otp[call[s].to].by # Earlier /\ otp[call[s].to].by \notin seen[s]

LEMMA ReplacedNext ==
    RequestInv /\ OtpInv /\ Replaced /\ ReplacedCodeRefused /\ [Next]_vars
        => Replaced' /\ ReplacedCodeRefused'
  <1> SUFFICES ASSUME RequestInv, OtpInv, Replaced, ReplacedCodeRefused, [Next]_vars
               PROVE  Replaced' /\ ReplacedCodeRefused'
    OBVIOUS
  <1>t. RequestTypes /\ OtpTypeOK /\ RequestInv' /\ call' = call /\ Earlier \notin Reqs
    BY RequestNext, CallStays, OtpAssumption DEF OtpInv, RequestInv
  <1>1. Replaced'
    <2> SUFFICES ASSUME NEW s \in Reqs, call[s].op = "send", Served(s)',
                        otp'[call[s].to] # NoEntry
                 PROVE  otp'[call[s].to].by # Earlier /\ otp'[call[s].to].by \notin seen'[s]
      BY <1>t DEF Replaced
    <2>0. call[s].to \in Recipients
      BY <1>t, CallFields DEF RequestTypes
    <2>n. \A q \in Reqs : pc[q] = "new" => q \notin seen'[s]
      BY RequestSteps DEF RequestInv, SeenOk
    <2>1. CASE ~Served(s)
      BY <1>t, <2>1, <2>n, LandSteps
    <2>2. CASE Served(s)
      <3>1. seen'[s] = seen[s]
        BY <2>2, RequestSteps DEF Served
      <3>2. CASE otp'[call[s].to] = otp[call[s].to]
        BY <2>2, <3>1, <3>2 DEF Replaced
      <3>3. ASSUME NEW r \in Reqs, pc[r] = "new", otp'[call[s].to].by = r
            PROVE  otp'[call[s].to].by # Earlier /\ otp'[call[s].to].by \notin seen'[s]
        BY <1>t, <2>n, <3>3
      <3> QED BY <2>0, <3>2, <3>3, EntrySteps
    <2> QED BY <2>1, <2>2
  <1>2. ReplacedCodeRefused'
    <2> SUFFICES ASSUME NEW v \in Reqs, NEW s \in Reqs, s \in seen'[v], call[s].op = "send",
                        call[v].op = "verify", call[v].to = call[s].to
                 PROVE  matched'[v] # Earlier /\ matched'[v] \notin seen'[s]
      BY <1>t DEF ReplacedCodeRefused
    <2>1. pc[s] = "ok"
      BY RequestSteps DEF RequestInv, SeenOk
    <2>2. seen'[s] = seen[s]
      BY <2>1, RequestSteps
    <2>3. CASE matched'[v] = matched[v]
      <3>1. CASE pc[v] = "new"
        <4>1. matched[v] = NoEntry /\ NoEntry # Earlier /\ NoEntry \notin Reqs
          BY <3>1, OtpAssumption DEF OtpInv, MatchedOk
        <4> QED BY <1>t, <2>2, <2>3, <4>1 DEF RequestTypes
      <3>2. CASE pc[v] # "new"
        <4>1. seen'[v] = seen[v]
          BY <3>2, RequestSteps
        <4> QED BY <2>2, <2>3, <4>1 DEF ReplacedCodeRefused
      <3> QED BY <3>1, <3>2
    <2>4. CASE otp[call[v].to] # NoEntry /\ matched'[v] = otp[call[v].to].by
      BY <2>1, <2>2, <2>4 DEF Replaced, Served
    <2> QED BY <2>3, <2>4, HistorySteps
  <1> QED BY <1>1, <1>2

(* Why the code of an answered send is not there any more.                 *)
Disturbed(s) == \E q \in Reqs \ (seen[s] \cup {s}) :
    (drawn[q] # NoEntry \/ matched[q] # NoEntry) /\ call[q].to = call[s].to

StillThere(s) == otp[call[s].to] # NoEntry /\ otp[call[s].to].by = s

Cause == \A s \in Reqs : call[s].op = "send" /\ Served(s) =>
    StillThere(s) \/ s \in expired \/ Disturbed(s)

LEMMA CauseNext ==
    RequestInv /\ OtpInv /\ Cause /\ CodeRefusedForCause /\ [Next]_vars
        => Cause' /\ CodeRefusedForCause'
  <1> SUFFICES ASSUME RequestInv, OtpInv, Cause, CodeRefusedForCause, [Next]_vars
               PROVE  Cause' /\ CodeRefusedForCause'
    OBVIOUS
  <1>t. RequestTypes /\ OtpTypeOK /\ call' = call
    BY CallStays DEF OtpInv, RequestInv
  <1>h. \A q \in Reqs : /\ drawn[q] # NoEntry => drawn'[q] # NoEntry
                        /\ matched[q] # NoEntry => matched'[q] # NoEntry
    BY HistorySteps
  <1>e. expired \subseteq expired'
    BY <1>t, OtpCases, SendStep, CheckStep, DeleteStep DEF Elsewhere, otpVars, ExpireOtp
  <1>1. Cause'
    <2> SUFFICES ASSUME NEW s \in Reqs, call[s].op = "send", Served(s)'
                 PROVE  StillThere(s)' \/ s \in expired' \/ Disturbed(s)'
      BY <1>t DEF Cause
    <2>0. call[s].to \in Recipients
      BY <1>t, CallFields DEF RequestTypes
    <2>1. CASE ~Served(s)
      BY <1>t, <2>1, LandSteps DEF StillThere
    <2>2. CASE Served(s)
      <3>1. seen'[s] = seen[s] /\ \A q \in seen[s] : pc[q] = "ok"
        BY <2>2, RequestSteps DEF Served, RequestInv, SeenOk
      <3>2. CASE s \in expired \/ Disturbed(s)
        BY <1>t, <1>h, <1>e, <3>1, <3>2 DEF Disturbed
      <3>3. CASE StillThere(s)
        <4>1. CASE otp'[call[s].to] = otp[call[s].to]
          BY <1>t, <3>3, <4>1 DEF StillThere
        <4>2. CASE otp[call[s].to].by \in expired'
          BY <3>3, <4>2 DEF StillThere
        <4>3. ASSUME NEW r \in Reqs, pc[r] = "del", call[r].to = call[s].to, matched'[r] # NoEntry
              PROVE  Disturbed(s)'
          <5>1. r # s /\ r \notin seen'[s]
            BY <2>2, <3>1, <4>3 DEF Served
          <5> QED BY <1>t, <4>3, <5>1 DEF Disturbed
        <4>4. ASSUME NEW r \in Reqs, pc[r] = "new", call[r].to = call[s].to, drawn'[r] # NoEntry
              PROVE  Disturbed(s)'
          <5>1. r # s /\ r \notin seen'[s]
            BY <2>2, <3>1, <4>4 DEF Served
          <5> QED BY <1>t, <4>4, <5>1 DEF Disturbed
        <4> QED BY <2>0, <4>1, <4>2, <4>3, <4>4, EntrySteps
      <3> QED BY <2>2, <3>2, <3>3 DEF Cause
    <2> QED BY <2>1, <2>2
  <1>2. CodeRefusedForCause'
    <2> SUFFICES ASSUME NEW v \in Reqs, NEW s \in seen'[v],
                        call[v].op = "verify", pc'[v] \in {"notFound", "refused"},
                        call[s].op = "send", call[s].to = call[v].to, drawn'[s] = call[v].code
                 PROVE  \/ s \in expired'
                        \/ \E q \in Reqs \ (seen'[s] \cup {s, v}) :
                             /\ drawn'[q] # NoEntry \/ matched'[q] # NoEntry
                             /\ call[q].to = call[v].to
      BY <1>t DEF CodeRefusedForCause
    <2>0. s \in Reqs /\ pc[s] = "ok"
      BY <1>t, RequestSteps DEF RequestInv, SeenOk, RequestTypes
    <2>1. seen'[s] = seen[s] /\ drawn'[s] = drawn[s]
      BY <2>0, RequestSteps, HistorySteps
    <2>2. CASE pc[v] \in {"notFound", "refused"}
      <3>1. seen'[v] = seen[v]
        BY <2>2, RequestSteps
      <3>s. s \in seen[v] /\ drawn[s] = call[v].code
        BY <2>1, <3>1
      <3>2. \/ s \in expired
            \/ \E q \in Reqs \ (seen[s] \cup {s, v}) :
                 (drawn[q] # NoEntry \/ matched[q] # NoEntry) /\ call[q].to = call[v].to
        BY <2>2, <3>s, Zenon DEF CodeRefusedForCause
      <3> QED BY <1>h, <1>e, <2>1, <3>2
    <2>3. CASE pc[v] \notin {"notFound", "refused"}
      <3>1. CheckOtp(v)
        <4>1. Handler(v)
          <5>1. ~Death
            BY <1>t, <2>3, DeathStep
          <5> QED BY <2>3, <5>1, RequestSteps
        <4>2. pc[v] = "new"
          BY <1>t, <4>1, HandlerStep
        <4> QED BY <4>1, <4>2 DEF Handler, Messaging, SendOtp, DeleteOtp, Payment,
                InitializePayment, VerifyPayment, HandleWebhook, List, CommitRow, FindWallet,
                FindMany, CountLedger, ReturnPage, VerifyIdentity, ResolveBank, Answer, Reports,
                FindUsageKey, BeginStats, CountRows, Begin, At
      <3>2. /\ pc[v] = "new" /\ matched' = matched /\ drawn' = drawn
            /\ otp[call[v].to] = NoEntry \/ otp[call[v].to].code # call[v].code
        BY <1>t, <2>3, <3>1, CheckStep
      <3>3. matched'[v] = NoEntry /\ drawn'[v] = NoEntry
        BY <3>2 DEF OtpInv, MatchedOk, DrawnOk
      <3>4. ~StillThere(s)
        <4> SUFFICES ASSUME StillThere(s) PROVE FALSE
          OBVIOUS
        <4>1. call[s].to \in Recipients
          BY <1>t, <2>0, CallFields DEF RequestTypes
        <4>2. drawn[s] = otp[call[v].to].code
          BY <2>0, <4>1 DEF StillThere, OtpInv, EntriesOk
        <4> QED BY <2>1, <3>2, <4>2 DEF StillThere
      <3>5. s \in expired \/ Disturbed(s)
        BY <2>0, <3>4 DEF Cause, Served
      <3> QED BY <1>e, <2>1, <3>2, <3>3, <3>5 DEF Disturbed
    <2> QED BY <2>2, <2>3
  <1> QED BY <1>1, <1>2

LEMMA OtpInvariant == Spec => [](RequestInv /\ OtpInv)
  <1>1. Init => RequestInv /\ OtpInv
    BY RequestInit, OtpInitInv
  <1>2. RequestInv /\ OtpInv /\ [Next]_vars => (RequestInv /\ OtpInv)'
    BY RequestNext, OtpNext
  <1> QED BY <1>1, <1>2, PTL DEF Spec

(* messaging.service.ts:45-55: verifyOtp reads and deletes in two calls,   *)
(* and still no code is accepted again once a verification of it has been  *)
(* answered: every overlap is between requests under way.                  *)
THEOREM CodesAreSpent == Spec => []SpentCodeRefused
  <1>1. Init => Spent /\ SpentCodeRefused
    BY DEF Init, OtpInit, RequestsInit, Spent, SpentCodeRefused
  <1> QED BY <1>1, SpentNext, OtpInvariant, PTL DEF Spec

(* messaging.service.ts:23: set overwrites, so when a send is answered     *)
(* whatever was sent before it is gone, and stays gone.                    *)
THEOREM OldCodesAreReplaced == Spec => []ReplacedCodeRefused
  <1>1. Init => Replaced /\ ReplacedCodeRefused
    BY DEF Init, RequestsInit, Served, Replaced, ReplacedCodeRefused
  <1> QED BY <1>1, ReplacedNext, OtpInvariant, PTL DEF Spec

(* The right code is turned down only for one of the causes the property   *)
(* names: nothing else removes or replaces an entry.                       *)
THEOREM RefusalsHaveCause == Spec => []CodeRefusedForCause
  <1>1. Init => Cause /\ CodeRefusedForCause
    BY DEF Init, RequestsInit, Served, Cause, CodeRefusedForCause
  <1> QED BY <1>1, CauseNext, OtpInvariant, PTL DEF Spec

-----------------------------------------------------------------------------
(* Payments.                                                               *)
NoPayment == UNCHANGED paymentVars /\ \A r \in Reqs :
    /\ pc'[r] = "unknown" => pc[r] = "unknown"
    /\ call[r].op = "initialize" /\ Served(r)' => Served(r)

LEMMA PaymentCases ==
    ASSUME RequestInv, [Next]_vars
    PROVE  \/ NoPayment
           \/ \E r \in Reqs : Handler(r) /\ (InitializePayment(r) \/ VerifyPayment(r))
           \/ \E r \in Reqs : CustomerPays(r)
  <1>t. RequestTypes
    BY DEF RequestInv
  <1>1. CASE UNCHANGED vars \/ (World /\ \A r \in Reqs : ~CustomerPays(r))
    BY <1>1 DEF vars, World, requestVars, NoPayment, Served
  <1>2. CASE Death
    BY <1>t, <1>2, DeathStep DEF Death, NoPayment, Served
  <1>3. ASSUME NEW r \in Reqs, Handler(r), ~InitializePayment(r), ~VerifyPayment(r)
        PROVE  NoPayment
    <2>1. UNCHANGED paymentVars
      BY <1>3 DEF Handler, Payment, HandleWebhook
    <2>2. CASE pc[r] # "new"
      <3>1. pc'[r] # "unknown" /\ (call[r].op = "initialize" => pc[r] = "answer")
        BY <1>t, <1>3, <2>2, HandlerStep DEF RequestInv, LabelsOK
      <3> QED BY <1>t, <1>3, <2>1, <3>1, HandlerStep DEF NoPayment, Served
    <2>3. CASE pc[r] = "new"
      <3>1. pc'[r] # "unknown" /\ call[r].op # "initialize"
        BY <1>t, <1>3, <2>3 DEF Handler, Messaging, SendOtp, CheckOtp, DeleteOtp, Payment,
           HandleWebhook, List, CommitRow, FindWallet, FindMany, CountLedger, ReturnPage,
           VerifyIdentity, ResolveBank, Answer, Reports, FindUsageKey, BeginStats, CountRows,
           Begin, At, Goto, Lands, RequestTypes
      <3> QED BY <1>t, <1>3, <2>1, <3>1, HandlerStep DEF NoPayment, Served
    <2> QED BY <2>2, <2>3
  <1> QED BY <1>1, <1>2, <1>3, NextCases DEF World

(* A charge is one its request may have asked for, and is there once that  *)
(* was answered; a report is the charge's, as it is or was.                *)
ChargesOk == \A q \in Reqs :
    /\ charge[q] # NoCharge => /\ call[q].op = "initialize"
                               /\ [charge[q] EXCEPT !.paid = FALSE] \in ChargesFor(call[q])
    /\ pc[q] = "new" => charge[q] = NoCharge /\ report[q] = NoCharge
    /\ call[q].op = "initialize" /\ Served(q) => charge[q] # NoCharge

ReportsOk == \A r \in Reqs : report[r] # NoCharge =>
    LET q == call[r].reference IN
    /\ call[r].op = "check" /\ charge[q] # NoCharge
    /\ report[r].amount = ReportOf(charge[q]).amount
    /\ report[r].paid => charge[q].paid

(* The first part of the property's sequence of reports.                   *)
PaidStays == \A r, s \in Reqs :
    call[r].op = "check" /\ call[s].op = "check" /\ call[s].reference = call[r].reference
    /\ report[r] # NoCharge /\ report[s] # NoCharge /\ s \in seen[r] /\ report[s].paid
    => report[r].paid

FoundAgain == \A r \in Reqs :
    LET q == call[r].reference IN
    call[r].op = "check" /\ q \in seen[r] /\ call[q].op = "initialize"
    /\ call[q].provider = call[r].provider => pc[r] # "unknown"

PaymentsInv == PaymentsTypeOK /\ ChargesOk /\ ReportsOk /\ PaidStays /\ FoundAgain

(* A charge a request may have asked for, and what a report of it says.    *)
LEMMA ChargeFacts ==
    ASSUME RequestTypes, NEW q \in Reqs, call[q].op = "initialize",
           NEW c, c \in Charges, [c EXCEPT !.paid = FALSE] \in ChargesFor(call[q])
    PROVE  /\ c # NoCharge /\ c.at = GetProvider(call[q])
           /\ ReportOf(c) \in ReportsOfCharges /\ ReportOf(c) # NoCharge
           /\ ReportOf(c).paid = c.paid
           /\ c.at = "flutterwave" \/ Exact(call[q].amount) => ReportOf(c).amount = call[q].amount
  <1> DEFINE a == call[q].amount
             p == GetProvider(call[q])
  <1>1. a \in Amounts /\ a \in Doubles
    BY CallFields, PaymentsAssumption DEF RequestTypes
  <1>2. p \in {"flutterwave", "paystack"}
    BY DEF GetProvider
  <1>3. /\ c = [at |-> c.at, units |-> c.units, paid |-> c.paid]
        /\ c.units \in Doubles /\ c.paid \in BOOLEAN /\ c # NoCharge
    BY PaymentsAssumption DEF Charges
  <1>4. [c EXCEPT !.paid = FALSE].at = c.at /\ [c EXCEPT !.paid = FALSE].units = c.units
    BY <1>3
  <1>5. CASE p = "flutterwave"
    <2>1. c.at = "flutterwave" /\ c.units = a
      BY <1>4, <1>5 DEF ChargesFor, FlutterwaveCharges
    <2>2. ReportOf(c) = [amount |-> a, paid |-> c.paid]
      BY <2>1 DEF ReportOf, FlutterwaveReport
    <2> QED BY <1>1, <1>3, <1>5, <2>1, <2>2, PaymentsAssumption DEF ReportsOfCharges
  <1>6. CASE p = "paystack"
    <2>1. /\ c.at = "paystack" /\ c.units \in Whole
          /\ Kobo[a] \in Whole => c.units = Kobo[a]
      BY <1>4, <1>6 DEF ChargesFor, PaystackCharges
    <2>2. ReportOf(c) = [amount |-> Naira[c.units], paid |-> c.paid]
      BY <2>1 DEF ReportOf, PaystackReport
    <2>3. Naira[c.units] \in Doubles
      BY <2>1, PaymentsAssumption
    <2> QED BY <1>3, <1>6, <2>1, <2>2, <2>3, PaymentsAssumption DEF ReportsOfCharges, Exact
  <1> QED BY <1>2, <1>5, <1>6

(* What a provider makes of a request is a charge, not yet paid.           *)
LEMMA NewCharges ==
    ASSUME RequestTypes, NEW q \in Reqs, call[q].op = "initialize",
           NEW c, c \in ChargesFor(call[q])
    PROVE  c \in Charges /\ [c EXCEPT !.paid = FALSE] = c /\ ~c.paid /\ c # NoCharge
  <1>1. call[q].amount \in Amounts
    BY CallFields DEF RequestTypes
  <1>2. Kobo[call[q].amount] \in Doubles /\ Whole \subseteq Doubles /\ Amounts \subseteq Doubles
    BY <1>1, PaymentsAssumption
  <1>3. c \in [at: Providers, units: Doubles, paid: {FALSE}]
    BY <1>1, <1>2 DEF ChargesFor, FlutterwaveCharges, PaystackCharges, Providers
  <1> QED BY <1>3, PaymentsAssumption DEF Charges

(* A later payment changes neither a charge's amount nor who made it.      *)
LEMMA PaidCharge ==
    ASSUME NEW c \in Charges
    PROVE  LET d == [c EXCEPT !.paid = TRUE] IN
           /\ d \in Charges /\ d # NoCharge /\ d.paid /\ d.at = c.at
           /\ [d EXCEPT !.paid = FALSE] = [c EXCEPT !.paid = FALSE]
           /\ ReportOf(d).amount = ReportOf(c).amount
  <1> DEFINE d == [c EXCEPT !.paid = TRUE]
  <1>1. d \in Charges /\ d.paid /\ d.at = c.at /\ d.units = c.units
        /\ [d EXCEPT !.paid = FALSE] = [c EXCEPT !.paid = FALSE]
    BY DEF Charges
  <1> HIDE DEF d
  <1>2. ReportOf(d).amount = ReportOf(c).amount
    BY <1>1 DEF ReportOf, FlutterwaveReport, PaystackReport
  <1> QED BY <1>1, <1>2, PaymentsAssumption DEF d

LEMMA PaymentsInitInv == Init => PaymentsInv
  BY DEF Init, PaymentsInit, RequestsInit, PaymentsInv, PaymentsTypeOK, ChargesOk, ReportsOk,
     PaidStays, FoundAgain, Served

(* A report stays, of a charge that stays; a new one is of the charge as   *)
(* it is; and only an unknown reference is called one.                     *)
Kept ==
    /\ \A r \in Reqs : report[r] # NoCharge => report'[r] = report[r]
    /\ \A q \in Reqs : charge[q] # NoCharge =>
         /\ charge'[q] # NoCharge
         /\ charge[q].paid => charge'[q].paid
         /\ ReportOf(charge'[q]).amount = ReportOf(charge[q]).amount
    /\ \A r \in Reqs : report[r] = NoCharge /\ report'[r] # NoCharge =>
         LET q == call[r].reference IN
         /\ pc[r] = "new" /\ call[r].op = "check" /\ charge'[q] # NoCharge /\ charge'[q] = charge[q]
         /\ report'[r].amount = ReportOf(charge'[q]).amount
         /\ report'[r].paid = charge'[q].paid
    /\ \A r \in Reqs : pc[r] # "unknown" /\ pc'[r] = "unknown" =>
         LET q == call[r].reference IN
         /\ pc[r] = "new" /\ call[r].op = "check"
         /\ charge[q] = NoCharge \/ charge[q].at # GetProvider(call[r])

LEMMA ReportsKept ==
    ASSUME RequestInv, PaymentsInv, [Next]_vars, Kept
    PROVE  ReportsOk' /\ PaidStays' /\ FoundAgain'
  <1>t. RequestTypes /\ PaymentsTypeOK /\ call' = call
    BY CallStays DEF RequestInv, PaymentsInv
  <1>p. \A r \in Reqs : /\ pc[r] # "new" => seen'[r] = seen[r]
                        /\ Ended(r) => pc'[r] = pc[r]
                        /\ \A q \in seen'[r] : q \in Reqs /\ pc[q] = "ok"
    BY <1>t, RequestSteps DEF RequestInv, SeenOk, RequestTypes
  <1>w. \A r \in Reqs : call[r].op = "check" => call[r].reference \in Reqs
    BY <1>t, CallFields DEF RequestTypes
  <1>1. ReportsOk'
    BY <1>t, <1>w DEF Kept, PaymentsInv, ReportsOk
  <1>2. ASSUME NEW r \in Reqs, NEW s \in Reqs, call[r].op = "check", call[s].op = "check",
               call[s].reference = call[r].reference, report'[r] # NoCharge,
               report'[s] # NoCharge, s \in seen'[r], report'[s].paid
        PROVE  report'[r].paid
    <2> DEFINE q == call[r].reference
    <2>1. pc[s] = "ok" /\ q \in Reqs
      BY <1>p, <1>w, <1>2
    <2>2. report[s] # NoCharge /\ report'[s] = report[s]
      BY <1>2, <2>1 DEF Kept
    <2>3. charge[q] # NoCharge /\ charge[q].paid
      BY <1>2, <2>2 DEF PaymentsInv, ReportsOk
    <2>4. CASE report[r] = NoCharge
      <3>1. report'[r].paid = charge'[q].paid
        BY <1>2, <2>4 DEF Kept
      <3>2. charge'[q].paid
        BY <2>1, <2>3 DEF Kept
      <3> QED BY <3>1, <3>2
    <2>5. CASE report[r] # NoCharge
      <3>1. pc[r] # "new"
        BY <2>5 DEF PaymentsInv, ChargesOk
      <3>2. s \in seen[r] /\ report'[r] = report[r]
        BY <1>2, <1>p, <2>5, <3>1 DEF Kept
      <3> QED BY <1>2, <2>2, <2>5, <3>2 DEF PaymentsInv, PaidStays
    <2> QED BY <2>4, <2>5
  <1>3. ASSUME NEW r \in Reqs, call[r].op = "check", call[r].reference \in seen'[r],
               call[call[r].reference].op = "initialize",
               call[call[r].reference].provider = call[r].provider,
               pc'[r] = "unknown"
        PROVE  FALSE
    <2> DEFINE q == call[r].reference
    <2>1. pc[q] = "ok" /\ q \in Reqs
      BY <1>p, <1>w, <1>3
    <2>2. CASE pc[r] = "unknown"
      <3>1. seen'[r] = seen[r]
        BY <1>p, <2>2
      <3> QED BY <1>3, <2>2, <3>1 DEF PaymentsInv, FoundAgain
    <2>3. CASE pc[r] # "unknown"
      <3>1. charge[q] # NoCharge
        BY <1>3, <2>1 DEF PaymentsInv, ChargesOk, Served
      <3>2. charge[q].at = GetProvider(call[q])
        BY <1>t, <1>3, <2>1, <3>1, ChargeFacts DEF PaymentsInv, ChargesOk, PaymentsTypeOK
      <3>3. GetProvider(call[q]) = GetProvider(call[r])
        BY <1>3 DEF GetProvider
      <3> QED BY <1>3, <2>3, <3>1, <3>2, <3>3 DEF Kept
    <2> QED BY <2>2, <2>3
  <1> QED BY <1>t, <1>1, <1>2, <1>3 DEF PaidStays, FoundAgain

LEMMA PaymentsNext == RequestInv /\ PaymentsInv /\ [Next]_vars => PaymentsInv'
  <1> SUFFICES ASSUME RequestInv, PaymentsInv, [Next]_vars PROVE PaymentsInv'
    OBVIOUS
  <1>t. /\ RequestTypes /\ PaymentsTypeOK /\ call' = call /\ RequestInv'
        /\ \A q \in Reqs : charge[q] = NoCharge \/ charge[q] \in Charges
    BY CallStays, RequestNext DEF RequestInv, PaymentsInv, PaymentsTypeOK
  <1>p. \A r \in Reqs : pc[r] # "new" => pc'[r] # "new"
    BY RequestSteps
  <1>a. \A q \in Reqs : ChargesFor(call[q])' = ChargesFor(call[q])
    BY <1>t
  <1>1. CASE NoPayment
    <2>1. Kept
      BY <1>1 DEF NoPayment, paymentVars, Kept
    <2>2. ChargesOk'
      BY <1>1, <1>t, <1>p, <1>a DEF NoPayment, paymentVars, PaymentsInv, ChargesOk
    <2> QED BY <1>1, <1>t, <2>1, <2>2, ReportsKept
            DEF NoPayment, paymentVars, PaymentsInv, PaymentsTypeOK
  <1>2. ASSUME NEW r \in Reqs, Handler(r), InitializePayment(r) PROVE PaymentsInv'
    <2>1. /\ pc[r] = "new" /\ call[r].op = "initialize" /\ report' = report
          /\ pc'[r] \in {"answer", "failed"} /\ charge[r] = NoCharge
          /\ \/ \E c \in ChargesFor(call[r]) : charge' = [charge EXCEPT ![r] = c]
             \/ charge' = charge /\ pc'[r] = "failed"
      BY <1>2, <1>t DEF InitializePayment, Begin, Lands, Goto, RequestTypes, PaymentsInv,
         ChargesOk
    <2>f. \A s \in Reqs : s # r => pc'[s] = pc[s]
      BY <1>2, <1>t, HandlerStep
    <2>2. /\ \A s \in Reqs : s # r => charge'[s] = charge[s]
          /\ \/ charge'[r] \in ChargesFor(call[r])
             \/ charge'[r] = NoCharge /\ pc'[r] = "failed"
      BY <1>t, <2>1 DEF PaymentsTypeOK
    <2>3. \A c \in ChargesFor(call[r]) :
             c \in Charges /\ [c EXCEPT !.paid = FALSE] = c /\ c # NoCharge
      BY <1>t, <2>1, NewCharges
    <2>4. PaymentsTypeOK'
      BY <1>t, <2>1, <2>3 DEF PaymentsTypeOK
    <2>5. ChargesOk'
      <3>1. ASSUME NEW q \in Reqs, charge'[q] # NoCharge
            PROVE  /\ call[q].op = "initialize"
                   /\ [charge'[q] EXCEPT !.paid = FALSE] \in ChargesFor(call[q])
        BY <2>1, <2>2, <2>3, <3>1 DEF PaymentsInv, ChargesOk
      <3>2. \A q \in Reqs : /\ pc'[q] = "new" => charge'[q] = NoCharge /\ report'[q] = NoCharge
                            /\ call[q].op = "initialize" /\ Served(q)' => charge'[q] # NoCharge
        BY <2>1, <2>f, <2>2, <2>3 DEF PaymentsInv, ChargesOk, Served
      <3> QED BY <1>t, <3>1, <3>2 DEF ChargesOk
    <2>6. Kept
      BY <2>1, <2>f, <2>2 DEF Kept
    <2> QED BY <2>4, <2>5, <2>6, ReportsKept DEF PaymentsInv
  <1>3. ASSUME NEW r \in Reqs, Handler(r), VerifyPayment(r) PROVE PaymentsInv'
    <2> DEFINE q == call[r].reference
               c == charge[q]
               known == c # NoCharge /\ c.at = GetProvider(call[r])
    <2>1. /\ pc[r] = "new" /\ call[r].op = "check" /\ charge' = charge /\ report[r] = NoCharge
          /\ \/ known /\ report' = [report EXCEPT ![r] = ReportOf(c)] /\ pc'[r] = "answer"
             \/ ~known /\ report' = report /\ pc'[r] = "unknown"
             \/ report' = report /\ pc'[r] = "failed"
      BY <1>3, <1>t DEF VerifyPayment, Begin, Goto, RequestTypes, PaymentsInv, ChargesOk
    <2>f. \A s \in Reqs : s # r => pc'[s] = pc[s]
      BY <1>3, <1>t, HandlerStep
    <2>q. q \in Reqs
      BY <1>t, <2>1, CallFields DEF RequestTypes
    <2>2. known => /\ ReportOf(c) \in ReportsOfCharges /\ ReportOf(c) # NoCharge
                   /\ ReportOf(c).paid = c.paid
      <3>1. known => /\ c \in Charges /\ call[q].op = "initialize"
                     /\ [c EXCEPT !.paid = FALSE] \in ChargesFor(call[q])
        BY <1>t, <2>q DEF PaymentsInv, ChargesOk
      <3> HIDE DEF known, c, q
      <3> QED BY <1>t, <2>q, <3>1, ChargeFacts
    <2> HIDE DEF known, c, q
    <2>3. PaymentsTypeOK'
      BY <1>t, <2>1, <2>2 DEF PaymentsTypeOK
    <2>4. /\ \A s \in Reqs : s # r => report'[s] = report[s]
          /\ report'[r] = NoCharge \/ (known /\ report'[r] = ReportOf(c))
      BY <1>t, <2>1 DEF PaymentsTypeOK
    <2>5. ChargesOk'
      BY <1>a, <1>p, <1>t, <2>1, <2>f, <2>4 DEF PaymentsInv, ChargesOk, Served
    <2>6. Kept
      BY <2>1, <2>f, <2>2, <2>4 DEF known, c, q, Kept
    <2> QED BY <2>3, <2>5, <2>6, ReportsKept DEF PaymentsInv
  <1>4. ASSUME NEW r \in Reqs, CustomerPays(r) PROVE PaymentsInv'
    <2>1. /\ pc' = pc /\ report' = report /\ charge[r] # NoCharge /\ charge[r] \in Charges
          /\ charge' = [charge EXCEPT ![r].paid = TRUE]
      BY <1>4, <1>t DEF CustomerPays, requestVars
    <2> DEFINE c == [charge[r] EXCEPT !.paid = TRUE]
    <2>2. /\ c \in Charges /\ c # NoCharge /\ c.paid
          /\ [c EXCEPT !.paid = FALSE] = [charge[r] EXCEPT !.paid = FALSE]
          /\ ReportOf(c).amount = ReportOf(charge[r]).amount
      BY <2>1, PaidCharge
    <2>3. charge'[r] = c /\ \A s \in Reqs : s # r => charge'[s] = charge[s]
      BY <1>t, <2>1 DEF PaymentsTypeOK
    <2>4. PaymentsTypeOK'
      BY <1>t, <2>1, <2>2 DEF PaymentsTypeOK
    <2> HIDE DEF c
    <2>5. ChargesOk'
      <3>1. \A q \in Reqs : (charge'[q] = NoCharge) = (charge[q] = NoCharge)
        BY <2>1, <2>2, <2>3
      <3>2. \A q \in Reqs :
               [charge'[q] EXCEPT !.paid = FALSE] = [charge[q] EXCEPT !.paid = FALSE]
        BY <2>2, <2>3
      <3> QED BY <1>a, <1>t, <2>1, <3>1, <3>2 DEF PaymentsInv, ChargesOk, Served
    <2>6. Kept
      BY <2>1, <2>2, <2>3 DEF Kept
    <2> QED BY <2>4, <2>5, <2>6, ReportsKept DEF PaymentsInv
  <1> QED BY <1>1, <1>2, <1>3, <1>4, PaymentCases

LEMMA PaymentsFollow == RequestInv /\ PaymentsInv => PaymentsAsAsked
  <1> SUFFICES ASSUME RequestInv, PaymentsInv, NEW r \in Reqs, call[r].op = "check"
               PROVE  LET q == call[r].reference IN
                      /\ report[r] # NoCharge =>
                           /\ report[r].paid => charge[q].paid
                           /\ charge[q].at = "flutterwave" \/ Exact(call[q].amount) =>
                                report[r].amount = call[q].amount
                           /\ \A s \in Reqs : call[s].op = "check" /\ call[s].reference = q
                                              /\ report[s] # NoCharge =>
                                /\ report[s].amount = report[r].amount
                                /\ s \in seen[r] /\ report[s].paid => report[r].paid
                      /\ q \in seen[r] /\ call[q].op = "initialize"
                         /\ call[q].provider = call[r].provider => pc[r] # "unknown"
    BY DEF PaymentsAsAsked
  <1> DEFINE q == call[r].reference
  <1>t. RequestTypes /\ PaymentsTypeOK /\ q \in Reqs
    BY CallFields DEF RequestInv, PaymentsInv, RequestTypes
  <1>1. ASSUME report[r] # NoCharge, charge[q].at = "flutterwave" \/ Exact(call[q].amount)
        PROVE  report[r].amount = call[q].amount
    <2>1. charge[q] # NoCharge /\ report[r].amount = ReportOf(charge[q]).amount
      BY <1>1 DEF PaymentsInv, ReportsOk
    <2> QED BY <1>t, <1>1, <2>1, ChargeFacts DEF PaymentsInv, ChargesOk, PaymentsTypeOK
  <1> QED BY <1>1 DEF PaymentsInv, ReportsOk, PaidStays, FoundAgain

(* payments.service.ts and its providers: nothing unpaid is reported paid, *)
(* the reports of one reference agree, with each other and with the amount *)
(* asked for where paystack.provider.ts:37 and 69 can give it back, and a  *)
(* charge is found again at the provider it was asked of, named or not.    *)
THEOREM PaymentsCorrect == Spec => []PaymentsAsAsked
  <1>1. Init => RequestInv /\ PaymentsInv
    BY RequestInit, PaymentsInitInv
  <1>2. RequestInv /\ PaymentsInv /\ [Next]_vars => (RequestInv /\ PaymentsInv)'
    BY RequestNext, PaymentsNext
  <1> QED BY <1>1, <1>2, PaymentsFollow, PTL DEF Spec

-----------------------------------------------------------------------------
(* The pages of the ledger.                                                *)
(* A set of numbers has a least one.                                       *)
LEMMA Least ==
    ASSUME NEW S \in SUBSET Nat, S # {}
    PROVE  \E m \in S : \A y \in S : m <= y
  <1>1. PICK m \in S : \A y \in S : ~ (<<y, m>> \in OpToRel(<, Nat))
    BY NatLessThanWellFounded, WFMin
  <1>2. ASSUME NEW y \in S PROVE m <= y
    <2>1. ~(y < m)
      BY <1>1 DEF OpToRel
    <2> QED BY <2>1
  <1> QED BY <1>2

(* In a chain of growing sets every one contains those before it.          *)
LEMMA Chain ==
    ASSUME NEW n \in Nat, NEW S, \A i \in 2..n : S[i - 1] \subseteq S[i],
           NEW i \in 1..n, NEW j \in i..n
    PROVE  S[i] \subseteq S[j]
  <1> SUFFICES ASSUME NEW x \in S[i] PROVE x \in S[j]
    OBVIOUS
  <1> DEFINE T == {k \in i..n : x \notin S[k]}
  <1>1. T \subseteq Nat
    OBVIOUS
  <1>2. ASSUME T # {} PROVE FALSE
    <2>1. PICK m \in T : \A y \in T : m <= y
      <3> HIDE DEF T
      <3> QED BY <1>1, <1>2, Least
    <2>2. m \in i..n /\ x \notin S[m] /\ m # i
      OBVIOUS
    <2>3. m \in 2..n /\ m - 1 \in i..n /\ ~(m <= m - 1)
      BY <2>2
    <2>4. x \in S[m - 1]
      BY <2>1, <2>3
    <2> QED BY <2>2, <2>3, <2>4
  <1>3. j \in i..n /\ j \notin T
    BY <1>2
  <1> QED BY <1>3

(* Numbers that grow, the last below n pages of P: one lies on its page.   *)
LEMMA Reached ==
    ASSUME NEW n \in Nat \ {0}, NEW A \in [1..n -> Nat], NEW P \in Nat \ {0},
           \A i \in 2..n : A[i - 1] <= A[i],
           A[n] < n * P
    PROVE  \E i \in 1..n : (i - 1) * P <= A[i] /\ A[i] < (i - 1) * P + P
  <1> DEFINE T == {i \in 1..n : A[i] < i * P}
  <1>0. \A i \in 1..n : /\ A[i] \in Nat /\ i * P \in Nat /\ (i - 1) * P \in Nat
                        /\ (i - 1) * P + P = i * P
    OBVIOUS
  <1>1. PICK i \in T : \A j \in T : i <= j
    <2>1. n \in T
      OBVIOUS
    <2>2. T \in SUBSET Nat
      OBVIOUS
    <2> HIDE DEF T
    <2> QED BY <2>1, <2>2, Least
  <1>2. i \in 1..n /\ A[i] < i * P
    BY <1>1
  <1>3. (i - 1) * P <= A[i]
    <2>1. CASE i = 1
      BY <1>0, <1>2, <2>1
    <2>2. CASE i # 1
      <3>1. i \in 2..n /\ i - 1 \in 1..n /\ ~(i <= i - 1)
        BY <1>2, <2>2
      <3>2. ~(A[i - 1] < (i - 1) * P)
        BY <1>1, <3>1
      <3> DEFINE x == (i - 1) * P
      <3>3. A[i - 1] <= A[i] /\ A[i - 1] \in Nat /\ A[i] \in Nat /\ x \in Nat
        BY <1>0, <3>1
      <3> HIDE DEF x, T
      <3> QED BY <3>2, <3>3 DEF x
    <2> QED BY <2>1, <2>2
  <1> QED BY <1>0, <1>2, <1>3

(* The rows in front of x in S, whatever the order of equals.              *)
Newer(S, x) == {y \in S : y.createdAt > x.createdAt}

LEMMA RowTimes == \A x \in Rows : x.createdAt \in Nat
  BY ListingAssumption DEF Rows

LEMMA WindowRows ==
    ASSUME NEW S, NEW n, NEW W \in Windows(S, n)
    PROVE  W \subseteq S
  BY DEF Windows, Top

(* A row that shares its createdAt with none is on the page its rank is    *)
(* on.  Skipped rows that included it would be more than skip; and a page  *)
(* that did not, with what is skipped, no more than are in front of it.    *)
LEMMA Shown ==
    ASSUME NEW S \in SUBSET Rows, IsFiniteSet(S), NEW x \in S, NEW n \in Nat \ {0},
           \A y \in S \ {x} : y.createdAt # x.createdAt,
           Skip(n) <= Cardinality(Newer(S, x)),
           Cardinality(Newer(S, x)) < Skip(n) + PageSize,
           NEW W \in Windows(S, n)
    PROVE  x \in W
  <1> DEFINE A == Newer(S, x)
             a == Cardinality(A)
             k == Skip(n)
  <1>1. PICK F \in Top(S, k) : W \in Top(S \ F, PageSize)
    BY DEF Windows
  <1>2. k \in Nat /\ PageSize \in Nat
    BY ListingAssumption DEF Skip
  <1>3. /\ F \in SUBSET S
        /\ Cardinality(F) = IF k < Cardinality(S) THEN k ELSE Cardinality(S)
        /\ \A f \in F, y \in S \ F : f.createdAt >= y.createdAt
    BY <1>1 DEF Top
  <1>4. /\ W \in SUBSET (S \ F)
        /\ Cardinality(W) = IF PageSize < Cardinality(S \ F) THEN PageSize ELSE Cardinality(S \ F)
        /\ \A w \in W, y \in (S \ F) \ W : w.createdAt >= y.createdAt
    BY <1>1 DEF Top
  <1>5. /\ A \in SUBSET S /\ x \notin A
        /\ \A y \in S : y # x /\ y.createdAt >= x.createdAt => y \in A
    BY RowTimes DEF Newer
  <1> HIDE DEF A
  <1>6. /\ IsFiniteSet(A) /\ IsFiniteSet(F) /\ IsFiniteSet(W) /\ IsFiniteSet(S \ F)
        /\ a \in Nat /\ Cardinality(F) \in Nat /\ Cardinality(W) \in Nat /\ Cardinality(S) \in Nat
        /\ Cardinality(S \ F) \in Nat
    BY <1>3, <1>4, <1>5, FS_Subset, FS_CardinalityType
  <1>7. k <= a /\ a < k + PageSize
    BY DEF A
  <1>8. Cardinality(A \cup {x}) = a + 1 /\ a + 1 <= Cardinality(S)
    <2>1. A \cup {x} \in SUBSET S
      BY <1>5
    <2>2. Cardinality(A \cup {x}) = a + 1
      BY <1>5, <1>6, FS_AddElement
    <2> QED BY <2>1, <2>2, FS_Subset
  <1> HIDE DEF a, k
  <1>9. Cardinality(F) = k
    BY <1>2, <1>3, <1>6, <1>7, <1>8
  <1>10. x \notin F
    <2> SUFFICES ASSUME x \in F PROVE FALSE
      OBVIOUS
    <2>1. A \cup {x} \in SUBSET F
      <3> SUFFICES ASSUME NEW y \in A, y \notin F PROVE FALSE
        OBVIOUS
      <3>1. x.createdAt >= y.createdAt /\ y.createdAt > x.createdAt /\ y \in S
        BY <1>3, <1>5 DEF A, Newer
      <3>2. x.createdAt \in Nat /\ y.createdAt \in Nat
        BY <3>1, RowTimes
      <3> QED BY <3>1, <3>2
    <2>2. a + 1 <= Cardinality(F)
      BY <1>6, <1>8, <2>1, FS_Subset
    <2> QED BY <1>2, <1>6, <1>7, <1>9, <2>2
  <1>11. ASSUME x \notin W PROVE FALSE
    <2>1. F \subseteq A /\ W \subseteq A /\ F \cap W = {}
      BY <1>3, <1>4, <1>5, <1>10, <1>11
    <2>2. Cardinality(F \cup W) = k + Cardinality(W)
      BY <1>6, <1>9, <2>1, FS_Union, FS_EmptySet
    <2>3. F \cup W \in SUBSET A
      BY <2>1
    <2>4. Cardinality(F \cup W) <= a
      BY <1>6, <2>3, FS_Subset DEF a
    <2>5. Cardinality(W) # PageSize
      BY <1>2, <1>6, <1>7, <2>2, <2>4
    <2>6. Cardinality(W) = Cardinality(S \ F)
      BY <1>4, <2>5
    <2>7. W = S \ F
      BY <1>4, <1>6, <2>6, FS_Subset
    <2> QED BY <1>10, <1>11, <2>7
  <1> QED BY <1>11

ListTypes ==
    /\ ledger \in SUBSET Rows /\ IsFiniteSet(ledger)
    /\ page \in [Reqs -> [rows: SUBSET Rows, total: Nat, of: SUBSET Rows]]

(* Every row that is not an old one is of a request.                       *)
Funded == {r \in Reqs : call[r].op = "fund" /\ pc[r] # "new"}

LedgerOk == Cardinality(ledger) <= Cardinality(OldRows) + Cardinality(Funded)

(* A page is a window on the ledger that was read for it.                  *)
PageOk(r) ==
    /\ pc[r] = "new" => page[r] = NotRead
    /\ page[r].total <= NoTotal /\ page[r].of \subseteq ledger
    /\ page[r].of # {} => /\ call[r].op = "list"
                          /\ page[r].rows \in Windows(page[r].of, call[r].page)
    /\ call[r].op = "list" /\ Served(r) => page[r].of # {}

(* What was read later is of a ledger that has only grown.                 *)
PagesGrow == \A r \in Reqs : \A s \in seen[r] :
    page[r].of # {} => page[s].of \subseteq page[r].of

ListInv == ListTypes /\ LedgerOk /\ (\A r \in Reqs : PageOk(r)) /\ PagesGrow

LEMMA OldFacts ==
    /\ Cardinality(OldRows) \in Nat /\ Cardinality(Reqs) \in Nat /\ NoTotal \in Nat
    /\ OldRows \subseteq Rows
  <1>1. Cardinality(OldRows) \in Nat
    BY ListingAssumption, FS_CardinalityType
  <1>2. Cardinality(Reqs) \in Nat
    BY RequestsAssumption, FS_CardinalityType
  <1> QED BY <1>1, <1>2 DEF NoTotal, Rows

(* The request itself: in its handler's order, Begin comes first.          *)
NoListing == UNCHANGED listVars /\ \A r \in Reqs : call[r].op = "list" /\ Served(r)' => Served(r)

LEMMA ListCases ==
    ASSUME RequestInv, [Next]_vars
    PROVE  \/ NoListing
           \/ \E r \in Reqs : Handler(r) /\ (CommitRow(r) \/ FindMany(r) \/ CountLedger(r)
                                             \/ ReturnPage(r))
  <1>t. RequestTypes
    BY DEF RequestInv
  <1>1. CASE UNCHANGED vars \/ World
    BY <1>1 DEF vars, World, requestVars, NoListing, Served
  <1>2. CASE Death
    BY <1>t, <1>2, DeathStep DEF Death, NoListing, Served
  <1>3. ASSUME NEW r \in Reqs, Handler(r), ~CommitRow(r), ~FindMany(r), ~CountLedger(r),
               ~ReturnPage(r)
        PROVE  NoListing
    <2>1. UNCHANGED listVars
      BY <1>3 DEF Handler, List, FindWallet
    <2>2. CASE pc[r] = "new"
      <3>1. pc'[r] # "answer" \/ call[r].op # "list"
        BY <1>t, <1>3, <2>2 DEF Handler, Messaging, SendOtp, CheckOtp, DeleteOtp, Payment,
           InitializePayment, VerifyPayment, HandleWebhook, List, FindWallet,
           VerifyIdentity, ResolveBank, Answer, Reports, FindUsageKey, BeginStats, CountRows,
           Begin, At, Goto, Lands, RequestTypes
      <3> QED BY <1>t, <1>3, <2>1, <2>2, <3>1, HandlerStep DEF NoListing, Served
    <2>3. CASE pc[r] = "queries"
      BY <1>3, <2>3 DEF Handler, Messaging, SendOtp, CheckOtp, DeleteOtp, Payment,
         InitializePayment, VerifyPayment, HandleWebhook, List, FindWallet,
         VerifyIdentity, ResolveBank, Answer, Reports, FindUsageKey, BeginStats, CountRows,
         Begin, At
    <2>4. CASE pc[r] \notin {"new", "queries"}
      <3>1. Served(r) \/ call[r].op # "list"
        BY <1>t, <1>3, <2>4, HandlerStep DEF RequestInv, LabelsOK, Served
      <3> QED BY <1>t, <1>3, <2>1, <3>1, HandlerStep DEF NoListing, Served
    <2> QED BY <2>2, <2>3, <2>4
  <1> QED BY <1>1, <1>2, <1>3, NextCases

LEMMA ListInitInv == Init => ListInv
  <1> SUFFICES ASSUME Init PROVE ListInv
    OBVIOUS
  <1>1. ledger = OldRows /\ page = [r \in Reqs |-> NotRead]
    BY DEF Init, ListInit
  <1>2. NotRead \in [rows: SUBSET Rows, total: Nat, of: SUBSET Rows]
    BY OldFacts DEF NotRead
  <1>3. ListTypes
    BY <1>1, <1>2, OldFacts, ListingAssumption DEF ListTypes
  <1>4. LedgerOk
    <2>1. Funded \in SUBSET Reqs
      BY DEF Funded
    <2>2. Cardinality(Funded) \in Nat
      BY <2>1, ReqsCount
    <2> QED BY <1>1, <2>2, OldFacts DEF LedgerOk
  <1>5. (\A r \in Reqs : PageOk(r)) /\ PagesGrow
    BY <1>1, OldFacts DEF Init, RequestsInit, PageOk, PagesGrow, NotRead, Served
  <1> QED BY <1>3, <1>4, <1>5 DEF ListInv

LEMMA ListNext == RequestInv /\ ListInv /\ [Next]_vars => ListInv'
  <1> SUFFICES ASSUME RequestInv, ListInv, [Next]_vars PROVE ListInv'
    OBVIOUS
  <1>t. RequestTypes /\ ListTypes /\ call' = call /\ Cardinality(ledger) \in Nat
    BY CallStays, FS_CardinalityType DEF RequestInv, ListInv, ListTypes
  <1>p. \A r \in Reqs : /\ pc'[r] = "new" => pc[r] = "new"
                        /\ pc[r] # "new" => seen'[r] = seen[r]
                        /\ \A q \in seen'[r] : q \in Reqs /\ pc[q] = "ok"
    BY <1>t, RequestSteps DEF RequestInv, SeenOk, RequestTypes
  <1>b. Cardinality(ledger) < NoTotal
    <2>1. Funded \in SUBSET Reqs
      BY DEF Funded
    <2>2. Cardinality(Funded) <= Cardinality(Reqs) /\ Cardinality(Funded) \in Nat
      BY <2>1, ReqsCount
    <2> QED BY <1>t, <2>2, OldFacts DEF ListInv, LedgerOk, NoTotal
  (* A ledger that stays, and pages that are not read.                     *)
  <1>l. ASSUME ledger' = ledger PROVE LedgerOk'
    <2>1. Funded \subseteq Funded'
      BY <1>t, <1>p, RequestSteps DEF Funded
    <2>2. Funded \in SUBSET Reqs /\ Funded' \in SUBSET Reqs
      BY <1>t DEF Funded
    <2>3. /\ Cardinality(Funded) \in Nat /\ Cardinality(Funded') \in Nat
          /\ Cardinality(Funded) <= Cardinality(Funded')
      BY <2>1, <2>2, ReqsCount
    <2> QED BY <1>t, <1>l, <2>3, OldFacts DEF ListInv, LedgerOk
  <1>k. ASSUME NEW r \in Reqs, page'[r] = page[r], ledger \subseteq ledger',
               call[r].op = "list" /\ Served(r)' => Served(r)
        PROVE  PageOk(r)'
    <2>1. Windows(page[r].of, call[r].page)' = Windows(page[r].of, call[r].page)
      BY <1>t, <1>k DEF Windows, Top, Skip
    <2> QED BY <1>t, <1>p, <1>k, <2>1 DEF ListInv, PageOk
  <1>g. ASSUME \A r \in Reqs : page'[r].of = page[r].of
        PROVE  PagesGrow'
    <2> SUFFICES ASSUME NEW r \in Reqs, NEW s \in seen'[r], page[r].of # {}
                 PROVE  page[s].of \subseteq page[r].of
      BY <1>g, <1>p DEF PagesGrow
    <2>1. pc[r] # "new"
      BY DEF ListInv, PageOk, NotRead
    <2> QED BY <1>p, <2>1 DEF ListInv, PagesGrow
  <1>1. CASE NoListing
    <2>1. ledger' = ledger /\ page' = page
      BY <1>1 DEF NoListing, listVars
    <2>2. \A r \in Reqs : PageOk(r)'
      BY <1>1, <1>t, <1>k, <2>1 DEF NoListing
    <2> QED BY <1>t, <1>l, <1>g, <2>1, <2>2 DEF ListInv, ListTypes
  <1>2. ASSUME NEW r \in Reqs, Handler(r), CommitRow(r) PROVE ListInv'
    <2>1. /\ pc[r] = "new" /\ call[r].op = "fund" /\ page' = page
          /\ pc'[r] \in {"answer", "failed"}
          /\ \/ ledger' = ledger
             \/ \E t \in Times : ledger' = ledger \cup {[id |-> r, createdAt |-> t]}
      BY <1>2, <1>t DEF CommitRow, Begin, Lands, Goto, RequestTypes
    <2>2. \A s \in Reqs : s # r => pc'[s] = pc[s]
      BY <1>2, <1>t, HandlerStep
    <2>3. ASSUME NEW row \in Rows, ledger' = ledger \cup {row}
          PROVE  ledger' \in SUBSET Rows /\ IsFiniteSet(ledger') /\ LedgerOk'
      <3>1. /\ IsFiniteSet(ledger') /\ Cardinality(ledger') \in Nat
            /\ Cardinality(ledger') <= Cardinality(ledger) + 1
        <4>1. IsFiniteSet(ledger)
          BY <1>t DEF ListTypes
        <4>2. /\ IsFiniteSet(ledger \cup {row})
              /\ \/ Cardinality(ledger \cup {row}) = Cardinality(ledger)
                 \/ Cardinality(ledger \cup {row}) = Cardinality(ledger) + 1
          BY <4>1, FS_AddElement
        <4> QED BY <1>t, <2>3, <4>2
      <3>2. Funded' = Funded \cup {r} /\ r \in Reqs \ Funded /\ Funded \in SUBSET Reqs
        BY <1>t, <2>1, <2>2 DEF Funded
      <3>3. Cardinality(Funded') = Cardinality(Funded) + 1 /\ Cardinality(Funded) \in Nat
        BY <3>2, ReqsCount
      <3>4. LedgerOk'
        BY <1>t, <3>1, <3>3, OldFacts DEF ListInv, LedgerOk
      <3> QED BY <1>t, <2>3, <3>1, <3>4 DEF ListTypes
    <2>4. ledger' \in SUBSET Rows /\ IsFiniteSet(ledger') /\ LedgerOk' /\ ledger \subseteq ledger'
      <3>1. \A t \in Times : [id |-> r, createdAt |-> t] \in Rows
        BY DEF Rows
      <3> QED BY <1>t, <1>l, <2>1, <2>3, <3>1 DEF ListTypes
    <2>5. \A s \in Reqs : PageOk(s)'
      <3>1. \A s \in Reqs : call[s].op = "list" /\ Served(s)' => Served(s)
        BY <2>1, <2>2 DEF Served
      <3> QED BY <1>k, <2>1, <2>4, <3>1
    <2> QED BY <1>t, <1>g, <2>1, <2>4, <2>5 DEF ListInv, ListTypes
  <1>3. ASSUME NEW r \in Reqs, Handler(r), FindMany(r) PROVE ListInv'
    <2>1. /\ pc[r] = "queries" /\ call[r].op = "list" /\ ledger' = ledger /\ pc' = pc
          /\ \E rows \in Windows(ledger, call[r].page) :
               page' = [page EXCEPT ![r].rows = rows, ![r].of = ledger]
      BY <1>3 DEF FindMany, At, RequestInv, LabelsOK
    <2>2. PICK rows \in Windows(ledger, call[r].page) :
             page' = [page EXCEPT ![r].rows = rows, ![r].of = ledger]
      BY <2>1
    <2> DEFINE new == [page[r] EXCEPT !.rows = rows, !.of = ledger]
    <2>3. rows \in SUBSET Rows
      BY <1>t, WindowRows DEF ListTypes
    <2>4. /\ new \in [rows: SUBSET Rows, total: Nat, of: SUBSET Rows]
          /\ new.of = ledger /\ new.total = page[r].total /\ new.rows = rows
      BY <1>t, <2>3 DEF ListTypes
    <2>5. page' = [page EXCEPT ![r] = new]
      BY <2>2
    <2> HIDE DEF new
    <2>6. /\ page'[r] = new
          /\ \A s \in Reqs : s # r => page'[s] = page[s]
          /\ page' \in [Reqs -> [rows: SUBSET Rows, total: Nat, of: SUBSET Rows]]
      BY <1>t, <2>4, <2>5 DEF ListTypes
    <2>7. PageOk(r)'
      <3>1. Windows(page[r].of, call[r].page)' = Windows(ledger, call[r].page)
        <4>1. page'[r].of = ledger /\ call'[r].page = call[r].page
          BY <1>t, <2>4, <2>6
        <4> QED BY <4>1 DEF Windows, Top, Skip
      <3> QED BY <1>t, <2>1, <2>2, <2>4, <2>6, <3>1 DEF ListInv, PageOk, Served
    <2>8. \A s \in Reqs : PageOk(s)'
      <3>1. ASSUME NEW s \in Reqs, s # r PROVE PageOk(s)'
        BY <1>k, <2>1, <2>6, <3>1 DEF Served
      <3> QED BY <2>7, <3>1
    <2>9. PagesGrow'
      <3> SUFFICES ASSUME NEW a \in Reqs, NEW s \in seen'[a], page'[a].of # {}
                   PROVE  page'[s].of \subseteq page'[a].of
        BY DEF PagesGrow
      <3>1. pc[s] = "ok" /\ s \in Reqs /\ s # r
        BY <1>p, <2>1
      <3>2. CASE a = r
        BY <2>4, <2>6, <3>1, <3>2 DEF ListInv, PageOk
      <3>3. CASE a # r
        <4>1. pc[a] # "new"
          BY <2>6, <3>3 DEF ListInv, PageOk, NotRead
        <4> QED BY <1>p, <2>6, <3>1, <3>3, <4>1 DEF ListInv, PagesGrow
      <3> QED BY <3>2, <3>3
    <2> QED BY <1>t, <1>l, <2>1, <2>6, <2>8, <2>9 DEF ListInv, ListTypes
  <1>4. ASSUME NEW r \in Reqs, Handler(r), CountLedger(r) PROVE ListInv'
    <2> DEFINE new == [page[r] EXCEPT !.total = Cardinality(ledger)]
    <2>1. /\ pc[r] = "queries" /\ call[r].op = "list" /\ ledger' = ledger /\ pc' = pc
          /\ page' = [page EXCEPT ![r] = new]
      BY <1>4 DEF CountLedger, At, RequestInv, LabelsOK
    <2>2. new \in [rows: SUBSET Rows, total: Nat, of: SUBSET Rows]
          /\ new.total = Cardinality(ledger) /\ new.of = page[r].of /\ new.rows = page[r].rows
      BY <1>t DEF ListTypes
    <2> HIDE DEF new
    <2>3. /\ page'[r] = new /\ \A s \in Reqs : s # r => page'[s] = page[s]
          /\ page' \in [Reqs -> [rows: SUBSET Rows, total: Nat, of: SUBSET Rows]]
      BY <1>t, <2>1, <2>2 DEF ListTypes
    <2>4. PageOk(r)'
      <3>1. Windows(page[r].of, call[r].page)' = Windows(page[r].of, call[r].page)
        <4>1. page'[r].of = page[r].of /\ call'[r].page = call[r].page
          BY <1>t, <2>2, <2>3
        <4> QED BY <4>1 DEF Windows, Top, Skip
      <3> QED BY <1>t, <1>b, <2>1, <2>2, <2>3, <3>1, OldFacts DEF ListInv, PageOk, Served
    <2>5. \A s \in Reqs : PageOk(s)'
      BY <1>k, <2>1, <2>3, <2>4 DEF Served
    <2>6. PagesGrow'
      BY <1>g, <2>2, <2>3
    <2> QED BY <1>t, <1>l, <2>1, <2>3, <2>5, <2>6 DEF ListInv, ListTypes
  <1>5. ASSUME NEW r \in Reqs, Handler(r), ReturnPage(r) PROVE ListInv'
    <2>1. /\ pc[r] = "queries" /\ ledger' = ledger /\ page' = page
          /\ pc'[r] \in {"answer", "failed"} /\ (pc'[r] = "answer" => page[r].of # {})
      BY <1>5, <1>t DEF ReturnPage, At, Goto, listVars, RequestTypes
    <2>2. \A s \in Reqs : s # r => pc'[s] = pc[s]
      BY <1>5, <1>t, HandlerStep
    <2>3. PageOk(r)'
      <3>1. Windows(page[r].of, call[r].page)' = Windows(page[r].of, call[r].page)
        BY <1>t, <2>1 DEF Windows, Top, Skip
      <3> QED BY <1>t, <2>1, <3>1 DEF ListInv, PageOk, Served
    <2>4. \A s \in Reqs : PageOk(s)'
      <3>1. ASSUME NEW s \in Reqs, s # r PROVE PageOk(s)'
        BY <1>k, <2>1, <2>2, <3>1 DEF Served
      <3> QED BY <2>3, <3>1
    <2> QED BY <1>t, <1>l, <1>g, <2>1, <2>4 DEF ListInv, ListTypes
  <1> QED BY <1>1, <1>2, <1>3, <1>4, <1>5, ListCases

(* As many pages as the total says hold the total.                         *)
LEMMA PagesHold ==
    ASSUME NEW total \in Nat, NEW n \in Nat, TotalPages(total) <= n
    PROVE  total <= n * PageSize
  <1> DEFINE P == PageSize
             a == total + P - 1
             d == a \div P
  <1>1. P \in Nat \ {0}
    BY ListingAssumption
  <1> HIDE DEF P
  <1>2. a \in Nat
    BY <1>1
  <1>3. d <= n
    BY DEF TotalPages, P
  <1> HIDE DEF a
  <1>4. d \in Nat /\ a < P * d + P
    BY <1>1, <1>2
  <1> HIDE DEF d
  <1>5. P * d <= P * n
    BY <1>1, <1>3, <1>4
  <1>6. P * d \in Nat /\ P * n \in Nat /\ n * P = P * n
    BY <1>1, <1>4
  <1>7. total <= n * P
    BY <1>1, <1>2, <1>4, <1>5, <1>6 DEF a
  <1> QED BY <1>7 DEF P

(* The rank of a row only grows from page to page, and the last is below   *)
(* the pages' end: there is a page the row's rank is on.                   *)
LEMMA PagesFollow == RequestInv /\ ListInv => PagesShowAll
  <1> SUFFICES ASSUME RequestInv, ListInv,
                      NEW n \in 1..Cardinality(Reqs), NEW q \in [1..n -> Reqs],
                      Walked(q, n), Cardinality(page[q[n]].of) <= page[q[n]].total,
                      NEW x \in page[q[1]].of,
                      \A y \in page[q[n]].of \ {x} : y.createdAt # x.createdAt
               PROVE  \E i \in 1..n : x \in page[q[i]].rows
    BY DEF PagesShowAll
  <1> DEFINE S == [i \in 1..n |-> page[q[i]].of]
             A == [i \in 1..n |-> Cardinality(Newer(S[i], x))]
  <1>1. n \in Nat \ {0} /\ PageSize \in Nat \ {0} /\ 1 \in 1..n /\ n \in 1..n
    BY ReqsCount, ListingAssumption
  <1>2. /\ \A i \in 1..n : /\ q[i] \in Reqs /\ call[q[i]].op = "list" /\ call[q[i]].page = i
                           /\ Served(q[i])
        /\ \A i \in 2..n : q[i - 1] \in seen[q[i]]
        /\ TotalPages(page[q[n]].total) <= n
    BY DEF Walked
  <1>3. \A i \in 1..n : /\ S[i] \in SUBSET Rows /\ S[i] # {} /\ IsFiniteSet(S[i])
                        /\ page[q[i]].rows \in Windows(S[i], i)
    <2>1. TAKE i \in 1..n
    <2>2. q[i] \in Reqs /\ call[q[i]].op = "list" /\ call[q[i]].page = i /\ Served(q[i])
      BY <1>2
    <2>3. /\ page[q[i]].of \in SUBSET Rows /\ page[q[i]].of # {}
          /\ page[q[i]].of \subseteq ledger /\ IsFiniteSet(ledger)
          /\ page[q[i]].rows \in Windows(page[q[i]].of, i)
      BY <2>2 DEF ListInv, ListTypes, PageOk
    <2> QED BY <2>2, <2>3, FS_Subset
  <1>4. \A i \in 2..n : S[i - 1] \subseteq S[i]
    BY <1>1, <1>2, <1>3 DEF ListInv, PagesGrow
  <1>5. x \in S[1] /\ \A y \in S[n] \ {x} : y.createdAt # x.createdAt
    BY <1>1
  <1>6. Cardinality(S[n]) <= n * PageSize
    <2>1. page[q[n]].total \in Nat
      BY <1>1, <1>2 DEF ListInv, ListTypes
    <2>2. page[q[n]].total <= n * PageSize
      BY <1>1, <1>2, <2>1, PagesHold
    <2>3. Cardinality(S[n]) \in Nat /\ Cardinality(S[n]) <= page[q[n]].total
      BY <1>1, <1>3, FS_CardinalityType
    <2> HIDE DEF S
    <2> QED BY <1>1, <2>1, <2>2, <2>3
  <1> HIDE DEF S
  <1>7. \A i \in 1..n : S[1] \subseteq S[i] /\ S[i] \subseteq S[n]
    <2> SUFFICES ASSUME NEW i \in 1..n PROVE S[1] \subseteq S[i] /\ S[i] \subseteq S[n]
      OBVIOUS
    <2>1. n \in Nat /\ 1 \in 1..n /\ i \in 1..n /\ n \in i..n
      BY <1>1
    <2>2. S[1] \subseteq S[i]
      BY <1>4, <2>1, Chain
    <2>3. S[i] \subseteq S[n]
      BY <1>4, <2>1, Chain
    <2> QED BY <2>2, <2>3
  <1>8. \A i \in 1..n : /\ Newer(S[i], x) \in SUBSET S[i] /\ IsFiniteSet(Newer(S[i], x))
                        /\ Cardinality(Newer(S[i], x)) \in Nat
    BY <1>3, FS_Subset, FS_CardinalityType DEF Newer
  <1>9. A \in [1..n -> Nat]
    BY <1>8
  <1>10. ASSUME NEW i \in 2..n PROVE A[i - 1] <= A[i]
    <2>1. i \in 1..n /\ i - 1 \in 1..n
      BY <1>1
    <2>2. Newer(S[i - 1], x) \in SUBSET Newer(S[i], x)
      BY <1>4 DEF Newer
    <2> QED BY <1>8, <2>1, <2>2, FS_Subset
  <1>11. A[n] < n * PageSize
    <2> DEFINE N == Newer(S[n], x)
    <2>1. x \in Rows /\ x \in S[n]
      BY <1>1, <1>3, <1>5, <1>7
    <2>2. x \notin N /\ N \cup {x} \in SUBSET S[n]
      BY <2>1, RowTimes DEF Newer
    <2>3. IsFiniteSet(N) /\ Cardinality(N) \in Nat /\ A[n] = Cardinality(N)
      BY <1>1, <1>8
    <2> HIDE DEF N, A
    <2>4. Cardinality(N \cup {x}) = Cardinality(N) + 1
      BY <2>2, <2>3, FS_AddElement
    <2>5. Cardinality(N) + 1 <= Cardinality(S[n]) /\ Cardinality(S[n]) \in Nat
      BY <1>1, <1>3, <2>2, <2>4, FS_Subset, FS_CardinalityType
    <2> QED BY <1>1, <1>6, <2>3, <2>5
  <1> HIDE DEF A
  <1>12. PICK i \in 1..n : (i - 1) * PageSize <= A[i] /\ A[i] < (i - 1) * PageSize + PageSize
    BY <1>1, <1>9, <1>10, <1>11, Reached
  <1>13. x \in page[q[i]].rows
    <2>1. x \in S[i] /\ \A y \in S[i] \ {x} : y.createdAt # x.createdAt
      BY <1>5, <1>7
    <2>2. A[i] = Cardinality(Newer(S[i], x)) /\ i \in Nat \ {0}
      BY <1>1 DEF A
    <2>3. /\ Skip(i) <= Cardinality(Newer(S[i], x))
          /\ Cardinality(Newer(S[i], x)) < Skip(i) + PageSize
      BY <1>12, <2>2 DEF Skip
    <2> QED BY <1>3, <2>1, <2>2, <2>3, Shown
  <1> QED BY <1>13

(* wallet.service.ts:300-308: rows committed while a client walks through  *)
(* the pages push older ones onto later pages, never out of sight: the     *)
(* client may see a row twice, and misses one only if its last page and    *)
(* its last count were read of different ledgers, or if another row has    *)
(* the same createdAt.                                                     *)
THEOREM PagesComplete == Spec => []PagesShowAll
  <1>1. Init => RequestInv /\ ListInv
    BY RequestInit, ListInitInv
  <1>2. RequestInv /\ ListInv /\ [Next]_vars => (RequestInv /\ ListInv)'
    BY RequestNext, ListNext
  <1> QED BY <1>1, <1>2, PagesFollow, PTL DEF Spec

-----------------------------------------------------------------------------
(* The request log and the reports.                                        *)
Reporting == {"usage", "stats"}

(* A row is of a request that was answered; and rows only come.            *)
LoggedOk == \A q \in logged : Served(q)

(* Nothing is counted before a report begins, and then no more than there  *)
(* is; whoever asks again counts no less.                                  *)
CountOk(r) ==
    /\ pc[r] = "new" => \A w \in What : counts[r][w] = NotYet
    /\ \A w \in {"total", "success"} :
          counts[r][w] # NotYet => counts[r][w] <= Cardinality(Counted(r))

FollowOk(r) == \A s \in seen[r] : SameReport(r, s) =>
    \A w \in What : counts[r][w] = NotYet \/ counts[s][w] <= counts[r][w]

(* The counts of a getStats are read in their order, each of a log no      *)
(* shorter than the one before; those of a getUsage are two.               *)
StatsOk(r) == call[r].op = "stats" =>
    /\ counts[r]["error"] \in {0, NotYet}
    /\ counts[r]["success"] # NotYet =>
         counts[r]["total"] # NotYet /\ counts[r]["total"] <= counts[r]["success"]
    /\ counts[r]["error"] # NotYet => counts[r]["success"] # NotYet
    /\ Served(r) => counts[r]["error"] # NotYet

UsageOk(r) == call[r].op = "usage" =>
    /\ counts[r]["error"] = NotYet
    /\ Served(r) => \A w \in {"total", "success"} : counts[r][w] # NotYet

ReportOk(r) == CountOk(r) /\ FollowOk(r) /\ StatsOk(r) /\ UsageOk(r)

ReportInv == LogTypeOK /\ LoggedOk /\ \A r \in Reqs : ReportOk(r)

(* A step without a count: a row may come, of a request that was answered. *)
NoCount ==
    /\ counts' = counts /\ lost' \in SUBSET Reqs /\ crashes' \in 0..MaxCrashes
    /\ logged' = logged \/ \E q \in Reqs : logged' = logged \cup {q} /\ Served(q)
    /\ \A r \in Reqs : call[r].op \in Reporting /\ Served(r)' => Served(r)

LEMMA ReportCases ==
    ASSUME RequestInv, LogTypeOK, [Next]_vars
    PROVE  NoCount \/ \E r \in Reqs : Handler(r) /\ CountRows(r)
  <1>t. RequestTypes /\ MaxCrashes \in Nat
    BY RequestLogAssumption DEF RequestInv
  <1>1. CASE UNCHANGED vars
    BY <1>1, <1>t DEF vars, logVars, requestVars, LogTypeOK, NoCount, Served
  <1>2. CASE World
    <2>1. CASE UNCHANGED logVars
      BY <1>2, <2>1 DEF World, logVars, requestVars, LogTypeOK, NoCount, Served
    <2>2. ASSUME NEW q \in Reqs, WriteLog(q) PROVE NoCount
      BY <2>2 DEF WriteLog, Pending, requestVars, LogTypeOK, NoCount, Served
    <2> QED BY <1>2, <2>1, <2>2 DEF World
  <1>3. CASE Death
    <2>1. /\ counts' = counts /\ logged' = logged /\ lost' = lost \cup Pending
          /\ crashes < MaxCrashes /\ crashes' = crashes + 1
      BY <1>3 DEF Death, Crash
    <2>2. Pending \in SUBSET Reqs
      BY DEF Pending
    <2>3. crashes' \in 0..MaxCrashes
      BY <1>t, <2>1 DEF LogTypeOK
    <2>4. lost' \in SUBSET Reqs
      BY <2>1, <2>2 DEF LogTypeOK
    <2>5. \A r \in Reqs : Served(r)' => Served(r)
      BY <1>t, <1>3, DeathStep DEF Served
    <2> QED BY <2>1, <2>3, <2>4, <2>5 DEF NoCount
  <1>4. ASSUME NEW r \in Reqs, Handler(r), ~CountRows(r) PROVE NoCount
    <2>1. UNCHANGED logVars
      BY <1>4 DEF Handler, Reports, FindUsageKey, BeginStats
    <2>2. CASE pc[r] = "new"
      <3>1. pc'[r] # "answer" \/ call[r].op \notin Reporting
        BY <1>t, <1>4, <2>2 DEF Handler, Messaging, SendOtp, CheckOtp, DeleteOtp, Payment,
           InitializePayment, VerifyPayment, HandleWebhook, List, CommitRow, FindWallet, FindMany,
           CountLedger, ReturnPage, VerifyIdentity, ResolveBank, Answer, Reports, FindUsageKey,
           BeginStats, Begin, At, Goto, Lands, RequestTypes, Reporting
      <3> QED BY <1>t, <1>4, <2>1, <2>2, <3>1, HandlerStep
            DEF NoCount, Served, logVars, LogTypeOK
    <2>3. CASE pc[r] = "count"
      BY <1>4, <2>3 DEF Handler, Messaging, SendOtp, CheckOtp, DeleteOtp, Payment,
         InitializePayment, VerifyPayment, HandleWebhook, List, CommitRow, FindWallet, FindMany,
         CountLedger, ReturnPage, VerifyIdentity, ResolveBank, Answer, Reports, FindUsageKey,
         BeginStats, Begin, At
    <2>4. CASE pc[r] \notin {"new", "count"}
      <3>1. Served(r) \/ call[r].op \notin Reporting
        BY <1>t, <1>4, <2>4, HandlerStep DEF RequestInv, LabelsOK, Served, Reporting
      <3> QED BY <1>t, <1>4, <2>1, <3>1, HandlerStep DEF NoCount, Served, logVars, LogTypeOK
    <2> QED BY <2>2, <2>3, <2>4
  <1> QED BY <1>1, <1>2, <1>3, <1>4, NextCases

(* No count is NotYet, and a row says that the request was answered.       *)
LEMMA CountsReal ==
    ASSUME LogTypeOK, LoggedOk, NEW r \in Reqs, NEW w \in What
    PROVE  LET rows == {q \in Counted(r) : StatusIs(q, w)} IN
           /\ Counted(r) \in SUBSET Reqs /\ Cardinality(Counted(r)) \in Nat
           /\ Cardinality(rows) \in Nat /\ Cardinality(rows) # NotYet
           /\ Cardinality(rows) \in 0..NotYet /\ Cardinality(rows) <= Cardinality(Counted(r))
           /\ w \in {"total", "success"} => rows = Counted(r)
           /\ w = "error" => Cardinality(rows) = 0
  <1> DEFINE rows == {q \in Counted(r) : StatusIs(q, w)}
  <1>1. Counted(r) \in SUBSET logged /\ logged \in SUBSET Reqs
    BY DEF Counted, LogTypeOK
  <1>2. rows \in SUBSET Counted(r) /\ rows \in SUBSET Reqs
    BY <1>1
  <1>3. w \in {"total", "success"} => rows = Counted(r)
    BY <1>1 DEF StatusIs, LoggedOk
  <1>4. w = "error" => rows = {}
    BY <1>1 DEF StatusIs, LoggedOk
  <1> HIDE DEF rows
  <1>5. w = "error" => Cardinality(rows) = 0
    BY <1>4, FS_EmptySet
  <1>6. /\ Cardinality(rows) \in Nat /\ Cardinality(rows) <= Cardinality(Reqs)
        /\ Cardinality(Reqs) \in Nat
    BY <1>2, ReqsCount
  <1>7. Cardinality(Counted(r)) \in Nat /\ Cardinality(rows) <= Cardinality(Counted(r))
    BY <1>1, <1>2, ReqsCount
  <1>8. Cardinality(rows) # NotYet /\ Cardinality(rows) \in 0..NotYet
    BY <1>6 DEF NotYet
  <1> QED BY <1>1, <1>3, <1>5, <1>6, <1>7, <1>8 DEF rows

(* What getStats has read says what it reads next.                         *)
LEMMA StatsNext ==
    ASSUME NEW r \in Reqs, call[r].op = "stats",
           counts[r]["success"] # NotYet => counts[r]["total"] # NotYet,
           counts[r]["error"] # NotYet => counts[r]["success"] # NotYet
    PROVE  /\ NextCounts(r) = IF counts[r]["total"] = NotYet THEN {"total"}
                              ELSE IF counts[r]["success"] = NotYet THEN {"success"}
                              ELSE IF counts[r]["error"] = NotYet THEN {"error"} ELSE {}
  <1> DEFINE had == {w \in What : counts[r][w] # NotYet}
  <1>n. NextCounts(r) = {StatsOrder[i] : i \in {Cardinality(had) + 1} \cap DOMAIN StatsOrder}
    BY DEF NextCounts
  <1>d. DOMAIN StatsOrder = {1, 2, 3} /\ StatsOrder[1] = "total" /\ StatsOrder[2] = "success"
        /\ StatsOrder[3] = "error"
    BY DEF StatsOrder
  <1>c. /\ Cardinality({}) = 0 /\ Cardinality({"total"}) = 1
        /\ Cardinality({"total", "success"}) = 2 /\ Cardinality(What) = 3
    <2>1. IsFiniteSet({}) /\ Cardinality({}) = 0
      BY FS_EmptySet
    <2>2. IsFiniteSet({"total"}) /\ Cardinality({"total"}) = 1
      BY FS_Singleton
    <2>3. {"total"} \cup {"success"} = {"total", "success"} /\ "success" \notin {"total"}
      OBVIOUS
    <2>a. ASSUME NEW S, NEW x, IsFiniteSet(S), x \notin S
          PROVE  IsFiniteSet(S \cup {x}) /\ Cardinality(S \cup {x}) = Cardinality(S) + 1
      BY <2>a, FS_AddElement
    <2>4. IsFiniteSet({"total", "success"}) /\ Cardinality({"total", "success"}) = 1 + 1
      <3>1. /\ IsFiniteSet({"total"} \cup {"success"})
            /\ Cardinality({"total"} \cup {"success"}) = 1 + 1
        BY <2>2, <2>3, <2>a
      <3> QED BY <3>1, <2>3
    <2>5. {"total", "success"} \cup {"error"} = What /\ "error" \notin {"total", "success"}
      BY DEF What
    <2>6. Cardinality(What) = 3
      <3>1. Cardinality({"total", "success"} \cup {"error"}) = 2 + 1
        BY <2>4, <2>5, <2>a
      <3> QED BY <3>1, <2>5
    <2> QED BY <2>1, <2>2, <2>4, <2>6
  <1> HIDE DEF had
  <1>r. ASSUME NEW n \in {0, 1, 2, 3}, Cardinality(had) = n
        PROVE  NextCounts(r) = IF n = 3 THEN {} ELSE {StatsOrder[n + 1]}
    <2>1. {n + 1} \cap {1, 2, 3} = IF n = 3 THEN {} ELSE {n + 1}
      <3>1. n + 1 \in {1, 2, 3} <=> n # 3
        OBVIOUS
      <3> QED BY <3>1
    <2>2. NextCounts(r) = {StatsOrder[i] : i \in IF n = 3 THEN {} ELSE {n + 1}}
      BY <1>n, <1>d, <1>r, <2>1
    <2> QED BY <2>2
  <1>1. CASE counts[r]["total"] = NotYet
    <2>1. had = {}
      BY <1>1 DEF What, had
    <2> QED BY <1>r, <1>d, <1>c, <1>1, <2>1
  <1>2. CASE counts[r]["total"] # NotYet /\ counts[r]["success"] = NotYet
    <2>1. had = {"total"}
      BY <1>2 DEF What, had
    <2> QED BY <1>r, <1>d, <1>c, <1>2, <2>1
  <1>3. CASE counts[r]["success"] # NotYet /\ counts[r]["error"] = NotYet
    <2>1. had = {"total", "success"}
      BY <1>3 DEF What, had
    <2> QED BY <1>r, <1>d, <1>c, <1>3, <2>1
  <1>4. CASE counts[r]["error"] # NotYet
    <2>1. had = What
      BY <1>4 DEF What, had
    <2> QED BY <1>r, <1>d, <1>c, <1>4, <2>1
  <1> QED BY <1>1, <1>2, <1>3, <1>4

LEMMA ReportInitInv == Init => ReportInv
  <1> SUFFICES ASSUME Init PROVE ReportInv
    OBVIOUS
  <1>1. /\ logged = {} /\ lost = {} /\ crashes = 0 /\ pc = [r \in Reqs |-> "new"]
        /\ counts = [r \in Reqs |-> [w \in What |-> NotYet]]
    BY DEF Init, LogInit, RequestsInit
  <1>2. NotYet \in Nat /\ MaxCrashes \in Nat
    BY ReqsCount, RequestLogAssumption DEF NotYet
  <1>3. NotYet \in 0..NotYet /\ crashes \in 0..MaxCrashes
    BY <1>1, <1>2
  <1>4. LogTypeOK
    BY <1>1, <1>3 DEF LogTypeOK
  <1>5. \A r \in Reqs : ReportOk(r)
    BY <1>1 DEF Init, RequestsInit, ReportOk, CountOk, FollowOk, StatsOk, UsageOk, What, Served
  <1> QED BY <1>1, <1>4, <1>5 DEF ReportInv, LoggedOk

(* Two reports of the same rows count the same rows, and an answered one   *)
(* has counted them.                                                       *)
LEMMA SameRows ==
    ASSUME NEW r \in Reqs, NEW s \in Reqs, SameReport(r, s)
    PROVE  Counted(s) = Counted(r) /\ call[s].op \in Reporting
  BY DEF SameReport, Counted, Reporting

(* The log only grows, so what was counted stays no more than there is.    *)
LEMMA ReportNext == RequestInv /\ ReportInv /\ [Next]_vars => ReportInv'
  <1> SUFFICES ASSUME RequestInv, ReportInv, [Next]_vars PROVE ReportInv'
    OBVIOUS
  <1>t. RequestTypes /\ LogTypeOK /\ call' = call /\ LoggedOk
    BY CallStays DEF RequestInv, ReportInv
  <1>s. \A q \in Reqs : Served(q) => Served(q)'
    BY RequestSteps
  <1>o. \A r \in Reqs : CountOk(r) /\ FollowOk(r) /\ StatsOk(r) /\ UsageOk(r)
    BY DEF ReportInv, ReportOk
  <1>c. ASSUME NEW r \in Reqs, logged \subseteq logged', logged' \in SUBSET Reqs
        PROVE  /\ Cardinality(Counted(r)) \in Nat /\ Cardinality(Counted(r)') \in Nat
               /\ Cardinality(Counted(r)) <= Cardinality(Counted(r)')
    <2>1. Counted(r) \subseteq Counted(r)' /\ Counted(r) \in SUBSET Reqs
          /\ Counted(r)' \in SUBSET Reqs
      BY <1>t, <1>c DEF Counted, LogTypeOK
    <2> QED BY <2>1, ReqsCount
  <1>n. \A r \in Reqs, w \in What : counts[r][w] \in Nat
    <2>1. NotYet \in Nat /\ 0..NotYet \subseteq Nat
      BY ReqsCount DEF NotYet
    <2> QED BY <1>t, <2>1 DEF LogTypeOK
  (* The requests a request came after are over, so they count no more.    *)
  <1>e. ASSUME NEW r \in Reqs, NEW s \in seen'[r], SameReport(r, s)'
        PROVE  /\ s \in Reqs /\ pc[s] = "ok" /\ SameReport(r, s)
               /\ pc[r] = "new" \/ s \in seen[r]
    <2>1. s \in Reqs /\ pc[s] = "ok" /\ (pc[r] = "new" \/ s \in seen[r])
      <3>1. seen'[r] = seen[r] \/ (pc[r] = "new" /\ seen'[r] = {q \in Reqs : pc[q] = "ok"})
        BY RequestSteps
      <3> QED BY <1>t, <1>e, <3>1 DEF RequestInv, RequestTypes, SeenOk
    <2> QED BY <1>t, <1>e, <2>1 DEF SameReport
  (* What was read stays right, of a request that has not just ended.      *)
  <1>k. ASSUME NEW r \in Reqs, counts'[r] = counts[r], logged \subseteq logged',
               \A s \in Reqs : pc[s] = "ok" => counts'[s] = counts[s],
               logged' \in SUBSET Reqs, call[r].op \in Reporting /\ Served(r)' => Served(r)
        PROVE  ReportOk(r)'
    <2>1. StatsOk(r)' /\ UsageOk(r)'
      BY <1>t, <1>o, <1>k DEF StatsOk, UsageOk, Reporting
    <2>2. CountOk(r)'
      <3>1. pc'[r] = "new" => pc[r] = "new"
        BY RequestSteps
      <3> QED BY <1>t, <1>o, <1>c, <1>n, <1>k, <3>1 DEF CountOk, What
    <2>3. FollowOk(r)'
      <3> SUFFICES ASSUME NEW s \in seen'[r], SameReport(r, s)', NEW w \in What
                   PROVE  counts'[r][w] = NotYet \/ counts'[s][w] <= counts'[r][w]
        BY DEF FollowOk
      <3> QED BY <1>o, <1>e, <1>k DEF FollowOk, CountOk
    <2> QED BY <2>1, <2>2, <2>3 DEF ReportOk
  <1>1. CASE NoCount
    <2>1. counts' = counts /\ logged \subseteq logged' /\ logged' \in SUBSET Reqs
      BY <1>1, <1>t DEF NoCount, LogTypeOK
    <2>2. LogTypeOK'
      BY <1>1, <1>t, <2>1 DEF NoCount, LogTypeOK
    <2>3. LoggedOk'
      BY <1>1, <1>t, <1>s, <2>1 DEF NoCount, LoggedOk, LogTypeOK
    <2>4. \A r \in Reqs : ReportOk(r)'
      BY <1>1, <1>k, <2>1 DEF NoCount
    <2> QED BY <2>2, <2>3, <2>4 DEF ReportInv
  <1>2. ASSUME NEW r \in Reqs, Handler(r), CountRows(r) PROVE ReportInv'
    <2>1. /\ pc[r] = "count" /\ logged' = logged /\ lost' = lost /\ crashes' = crashes
          /\ \A s \in Reqs : s # r => pc'[s] = pc[s]
          /\ call[r].op \in Reporting /\ seen'[r] = seen[r] /\ pc'[r] # "new"
      BY <1>2, <1>t, HandlerStep DEF CountRows, At, RequestInv, LabelsOK, Reporting
    <2>2. LoggedOk'
      BY <1>t, <1>s, <2>1 DEF LoggedOk, LogTypeOK
    <2>c. Counted(r)' = Counted(r)
      BY <1>t, <2>1 DEF Counted
    <2>3. ASSUME NEW q \in Reqs, q # r, \A s \in Reqs : s # r => counts'[s] = counts[s]
          PROVE  ReportOk(q)'
      BY <1>t, <1>k, <2>1, <2>3 DEF Served, LogTypeOK
    <2>4. ASSUME counts' = counts, NextCounts(r) = {} \/ pc'[r] = "failed" PROVE ReportInv'
      <3>1. LogTypeOK'
        BY <1>t, <2>1, <2>4 DEF LogTypeOK
      <3>2. Served(r)' => NextCounts(r) = {}
        BY <2>4 DEF Served
      <3>3. ASSUME call[r].op = "stats" PROVE StatsOk(r)'
        <4>1. NextCounts(r) = {} => counts[r]["error"] # NotYet
          BY <1>o, <3>3, StatsNext DEF StatsOk
        <4> QED BY <1>t, <1>o, <2>4, <3>2, <3>3, <4>1 DEF StatsOk
      <3>4. ASSUME call[r].op = "usage" PROVE UsageOk(r)'
        <4>1. NextCounts(r) = {} => \A w \in {"total", "success"} : counts[r][w] # NotYet
          BY <3>4 DEF NextCounts
        <4> QED BY <1>t, <1>o, <2>4, <3>2, <3>4, <4>1 DEF UsageOk
      <3>5. CountOk(r)' /\ FollowOk(r)'
        BY <1>t, <1>o, <1>e, <2>1, <2>4, <2>c DEF CountOk, FollowOk
      <3>6. ReportOk(r)'
        BY <1>t, <3>3, <3>4, <3>5 DEF ReportOk, StatsOk, UsageOk
      <3> QED BY <2>2, <2>3, <2>4, <3>1, <3>6 DEF ReportInv
    <2>5. ASSUME NEW w \in NextCounts(r), pc' = pc,
                 counts' = [counts EXCEPT
                     ![r][w] = Cardinality({q \in Counted(r) : StatusIs(q, w)})]
          PROVE  ReportInv'
      <3>1. w \in What /\ (call[r].op = "usage" => w \in {"total", "success"})
        <4>1. CASE call[r].op = "usage"
          BY <4>1 DEF NextCounts, What
        <4>2. CASE call[r].op = "stats"
          BY <1>o, <4>2, StatsNext DEF StatsOk, What
        <4> QED BY <2>1, <4>1, <4>2 DEF Reporting
      <3>m. PICK m \in Nat : m = Cardinality({q \in Counted(r) : StatusIs(q, w)})
        BY <1>t, <3>1, CountsReal
      <3>2. /\ Counted(r) \in SUBSET Reqs /\ Cardinality(Counted(r)) \in Nat
            /\ m # NotYet /\ m \in 0..NotYet /\ m <= Cardinality(Counted(r))
            /\ w \in {"total", "success"} => m = Cardinality(Counted(r))
            /\ w = "error" => m = 0
        BY <1>t, <3>1, <3>m, CountsReal
      <3>4. /\ counts'[r][w] = m /\ \A v \in What : v # w => counts'[r][v] = counts[r][v]
            /\ \A s \in Reqs : s # r => counts'[s] = counts[s]
            /\ counts' \in [Reqs -> [What -> 0..NotYet]]
        BY <1>t, <2>5, <3>1, <3>2, <3>m DEF LogTypeOK
      <3>5. LogTypeOK'
        BY <1>t, <2>1, <3>4 DEF LogTypeOK
      <3>6. ~Served(r)'
        BY <2>1, <2>5 DEF Served
      <3>7. ASSUME call[r].op = "stats" PROVE StatsOk(r)'
        <4>2. /\ counts[r]["error"] \in {0, NotYet}
              /\ counts[r]["total"] # NotYet => counts[r]["total"] <= Cardinality(Counted(r))
              /\ counts[r]["success"] # NotYet =>
                   counts[r]["total"] # NotYet /\ counts[r]["total"] <= counts[r]["success"]
              /\ counts[r]["error"] # NotYet => counts[r]["success"] # NotYet
          BY <1>o, <3>7 DEF StatsOk, CountOk
        <4>3. w = IF counts[r]["total"] = NotYet THEN "total"
                  ELSE IF counts[r]["success"] = NotYet THEN "success" ELSE "error"
          BY <3>7, <4>2, StatsNext
        <4>4. CASE counts[r]["total"] = NotYet
          BY <1>t, <3>2, <3>4, <3>6, <4>2, <4>3, <4>4 DEF StatsOk, What
        <4>5. CASE counts[r]["total"] # NotYet /\ counts[r]["success"] = NotYet
          BY <1>t, <3>2, <3>4, <3>6, <4>2, <4>3, <4>5 DEF StatsOk, What
        <4>6. CASE counts[r]["total"] # NotYet /\ counts[r]["success"] # NotYet
          BY <1>t, <3>2, <3>4, <3>6, <4>2, <4>3, <4>6 DEF StatsOk, What
        <4> QED BY <4>4, <4>5, <4>6
      <3>8. ASSUME call[r].op = "usage" PROVE UsageOk(r)'
        BY <1>o, <3>1, <3>4, <3>6, <3>8 DEF UsageOk, What
      <3>9. CountOk(r)'
        BY <1>o, <2>1, <2>c, <3>2, <3>4 DEF CountOk, What
      <3>10. FollowOk(r)'
        <4> SUFFICES ASSUME NEW s \in seen'[r], SameReport(r, s)', NEW v \in What
                     PROVE  counts'[r][v] = NotYet \/ counts'[s][v] <= counts'[r][v]
          BY DEF FollowOk
        <4>1. s \in Reqs /\ s # r /\ pc[s] = "ok" /\ SameReport(r, s) /\ s \in seen[r]
          BY <1>e, <2>1
        <4>2. CASE v # w
          BY <1>o, <3>4, <4>1, <4>2 DEF FollowOk
        <4>3. CASE v = w
          <5>1. Served(s) /\ counts'[s] = counts[s] /\ Counted(s) = Counted(r)
                /\ call[s].op = call[r].op
            BY <3>4, <4>1, SameRows DEF Served, SameReport
          <5>2. CASE w \in {"total", "success"}
            <6>1. counts[s][w] # NotYet
              BY <1>o, <2>1, <4>1, <5>1, <5>2 DEF StatsOk, UsageOk, Reporting
            <6> QED BY <1>o, <3>2, <3>4, <4>1, <4>3, <5>1, <5>2, <6>1 DEF CountOk
          <5>3. CASE w = "error"
            <6>1. call[s].op = "stats"
              BY <2>1, <3>1, <5>1, <5>3 DEF Reporting
            <6>2. counts[s]["error"] = 0
              BY <1>o, <4>1, <5>1, <6>1 DEF StatsOk
            <6> QED BY <3>2, <3>4, <4>3, <5>1, <5>3, <6>2
          <5> QED BY <3>1, <5>2, <5>3 DEF What
        <4> QED BY <4>2, <4>3
      <3>11. ReportOk(r)'
        BY <1>t, <3>7, <3>8, <3>9, <3>10 DEF ReportOk, StatsOk, UsageOk
      <3> QED BY <2>2, <2>3, <3>4, <3>5, <3>11 DEF ReportInv
    <2> QED BY <1>2, <1>t, <2>4, <2>5 DEF CountRows, Goto, RequestTypes
  <1> QED BY <1>1, <1>2, <1>t, ReportCases

LEMMA ReportsFollow == RequestInv /\ ReportInv => ReportsAddUp
  <1> SUFFICES ASSUME RequestInv, ReportInv, NEW r \in Reqs, Served(r)
               PROVE  /\ call[r].op = "stats" =>
                           counts[r]["total"] <= counts[r]["success"] + counts[r]["error"]
                      /\ call[r].op = "usage" => \A w \in {"total", "success"} :
                           counts[r][w] <= Cardinality({q \in Reqs : /\ Served(q) \/ Ended(q)
                                                                     /\ call[q].key = call[r].of})
                      /\ \A s \in seen[r] : SameReport(r, s) =>
                           \A w \in What : counts[s][w] <= counts[r][w]
    BY DEF ReportsAddUp
  <1>o. CountOk(r) /\ FollowOk(r) /\ StatsOk(r) /\ UsageOk(r) /\ LogTypeOK /\ LoggedOk
    BY DEF ReportInv, ReportOk
  <1>n. \A q \in Reqs, w \in What : counts[q][w] \in Nat
    <2>1. NotYet \in Nat /\ 0..NotYet \subseteq Nat
      BY ReqsCount DEF NotYet
    <2> QED BY <1>o, <2>1 DEF LogTypeOK
  <1>1. ASSUME call[r].op = "stats"
        PROVE  counts[r]["total"] <= counts[r]["success"] + counts[r]["error"]
    BY <1>o, <1>n, <1>1 DEF StatsOk, What
  <1>2. ASSUME call[r].op = "usage", NEW w \in {"total", "success"}
        PROVE  counts[r][w] <= Cardinality({q \in Reqs : /\ Served(q) \/ Ended(q)
                                                         /\ call[q].key = call[r].of})
    <2>1. PICK A \in SUBSET Reqs : A = {q \in Reqs : /\ Served(q) \/ Ended(q)
                                                     /\ call[q].key = call[r].of}
      OBVIOUS
    <2>2. PICK C \in SUBSET A : C = Counted(r)
      BY <1>o, <1>2, <2>1 DEF Counted, LoggedOk, LogTypeOK
    <2>3. Cardinality(C) <= Cardinality(A) /\ Cardinality(C) \in Nat /\ Cardinality(A) \in Nat
      BY ReqsCount
    <2>4. counts[r][w] <= Cardinality(C) /\ counts[r][w] \in Nat
      BY <1>o, <1>n, <1>2, <2>2 DEF UsageOk, CountOk, What
    <2> QED BY <2>1, <2>3, <2>4
  <1>3. ASSUME NEW s \in seen[r], SameReport(r, s), NEW w \in What
        PROVE  counts[s][w] <= counts[r][w]
    <2>1. s \in Reqs /\ StatsOk(s) /\ UsageOk(s) /\ Served(s)
      BY <1>3 DEF RequestInv, RequestTypes, SeenOk, ReportInv, ReportOk, Served
    <2>2. CASE counts[r][w] # NotYet
      BY <1>o, <1>3, <2>2 DEF FollowOk
    <2>3. CASE counts[r][w] = NotYet
      <3>1. call[r].op = "usage" /\ w = "error"
        BY <1>o, <1>3, <2>3 DEF StatsOk, UsageOk, SameReport, What
      <3>2. counts[s][w] = NotYet /\ counts[r][w] = NotYet /\ NotYet \in Nat
        BY <1>3, <1>n, <2>1, <2>3, <3>1 DEF UsageOk, SameReport
      <3> QED BY <3>2
    <2> QED BY <2>2, <2>3
  <1> QED BY <1>1, <1>2, <1>3

(* The counts of a report are of one growing log: however rows come in     *)
(* between, they leave none out, count none of another key, and never go   *)
(* back from one answer to the next.                                       *)
THEOREM ReportsConsistent == Spec => []ReportsAddUp
  <1>1. Init => RequestInv /\ ReportInv
    BY RequestInit, ReportInitInv
  <1>2. RequestInv /\ ReportInv /\ [Next]_vars => (RequestInv /\ ReportInv)'
    BY RequestNext, ReportNext
  <1> QED BY <1>1, <1>2, ReportsFollow, PTL DEF Spec

-----------------------------------------------------------------------------
(* The totals of pages stay in the range of what a ledger may hold.        *)
LEMMA ListTypesFollow == RequestInv /\ ListInv => ListTypeOK
  <1> SUFFICES ASSUME RequestInv, ListInv PROVE ListTypeOK
    OBVIOUS
  <1>1. ASSUME NEW r \in Reqs
        PROVE  page[r] \in [rows: SUBSET Rows, total: 0..NoTotal, of: SUBSET Rows]
    <2>1. page[r] \in [rows: SUBSET Rows, total: Nat, of: SUBSET Rows] /\ page[r].total <= NoTotal
      BY DEF ListInv, ListTypes, PageOk
    <2>2. page[r].total \in 0..NoTotal
      BY <2>1, OldFacts
    <2> QED BY <2>1, <2>2
  <1> QED BY <1>1 DEF ListInv, ListTypes, ListTypeOK

(* Whatever the handlers, the queue of rows and the deaths of the process  *)
(* do (all of Next), every variable keeps its type.                        *)
THEOREM TypeCorrect == Spec => []TypeOK
  <1> DEFINE I == RequestInv /\ OtpInv /\ PaymentsInv /\ ListInv /\ ReportInv
  <1>1. Init => I
    BY RequestInit, OtpInitInv, PaymentsInitInv, ListInitInv, ReportInitInv
  <1>2. I /\ [Next]_vars => I'
    BY RequestNext, OtpNext, PaymentsNext, ListNext, ReportNext
  <1>3. I => TypeOK
    BY ListTypesFollow DEF RequestInv, RequestTypes, Labels, OtpInv, PaymentsInv, ReportInv, TypeOK
  <1> QED BY <1>1, <1>2, <1>3, PTL DEF Spec
=============================================================================
