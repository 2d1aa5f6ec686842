------------------------------ MODULE Payments ------------------------------
(***************************************************************************)
(* Payments (src/payments/payments.service.ts and its two providers): a    *)
(* request names a charge at Paystack, which counts in kobo, or at         *)
(* Flutterwave, which counts in naira, and later asks what became of it.   *)
(* The service keeps nothing; the charges are the providers' (external).   *)
(***************************************************************************)
EXTENDS Requests

CONSTANTS
    Doubles,    \* the numbers amounts are: IEEE doubles, never added up here
    Amounts,    \* what a request may ask for, in naira: any number (@IsNumber)
    Whole,      \* external: the kobo amounts Paystack keeps as they are
    Kobo,       \* what a * 100 evaluates to in doubles
    Naira,      \* what u / 100 evaluates to
    NoCharge

VARIABLES
    charge,     \* at the providers: the charge each reference names
    report      \* what each verifyPayment was told

paymentVars == <<charge, report>>

Providers == {"paystack", "flutterwave"}
Charges == [at: Providers, units: Doubles, paid: BOOLEAN]
ReportsOfCharges == [amount: Doubles, paid: BOOLEAN]

ASSUME PaymentsAssumption ==
    /\ Amounts \cup Whole \subseteq Doubles
    /\ Kobo \in [Amounts -> Doubles] /\ Naira \in [Whole -> Doubles]
    /\ NoCharge \notin Charges \cup ReportsOfCharges

PaymentsTypeOK ==
    /\ charge \in [Reqs -> {NoCharge} \cup Charges]
    /\ report \in [Reqs -> {NoCharge} \cup ReportsOfCharges]

PaymentsInit ==
    /\ charge = [r \in Reqs |-> NoCharge]
    /\ report = [r \in Reqs |-> NoCharge]

(* getProvider: Paystack, unless the request says Flutterwave.             *)
GetProvider(c) == IF c.provider = "flutterwave" THEN "flutterwave" ELSE "paystack"

(* The charges a provider may make of what it is sent.  Paystack is sent   *)
(* amount * 100, and of that keeps kobo: where the product is no such      *)
(* number (434.99999999999994 for 4.35) it refuses, or makes it one.       *)
PaystackCharges(amount) ==
    LET units == Kobo[amount] IN
    [at: {"paystack"}, units: IF units \in Whole THEN {units} ELSE Whole, paid: {FALSE}]

FlutterwaveCharges(amount) == [at: {"flutterwave"}, units: {amount}, paid: {FALSE}]

ChargesFor(c) ==
    IF GetProvider(c) = "flutterwave" THEN FlutterwaveCharges(c.amount)
    ELSE PaystackCharges(c.amount)

(* The mutants report Paystack's kobo, or all it says, as they are.        *)
PaystackReportKobo(c) == [amount |-> c.units, paid |-> c.paid]
PaystackReportRaw(c) == c

PaystackReport(c) == [amount |-> Naira[c.units], paid |-> c.paid]

FlutterwaveReport(c) == [amount |-> c.units, paid |-> c.paid]

ReportOf(c) == IF c.at = "flutterwave" THEN FlutterwaveReport(c) ELSE PaystackReport(c)

-----------------------------------------------------------------------------
(* initializePayment: a fresh reference (the request's name stands for it) *)
(* and one POST, which may be refused, and whose answer may be lost.       *)
InitializePayment(r) ==
    /\ Begin(r, "initialize")
    /\ \/ /\ \E c \in ChargesFor(call[r]) : charge' = [charge EXCEPT ![r] = c]
          /\ Lands(r, "answer")
       \/ Goto(r, "failed") /\ UNCHANGED charge
    /\ UNCHANGED report

(* External: the customer opens the link of the answer, and pays.          *)
CustomerPays(r) ==
    /\ charge[r] # NoCharge /\ ~charge[r].paid /\ pc[r] = "ok"
    /\ charge' = [charge EXCEPT ![r].paid = TRUE]
    /\ UNCHANGED <<requestVars, report>>

(* verifyPayment asks the provider the request names, which answers an     *)
(* unknown reference with an error.                                        *)
VerifyPayment(r) ==
    LET c == charge[call[r].reference]
        known == c # NoCharge /\ c.at = GetProvider(call[r])
    IN
    /\ Begin(r, "check")
    /\ \/ known /\ report' = [report EXCEPT ![r] = ReportOf(c)] /\ Goto(r, "answer")
       \/ ~known /\ Goto(r, "unknown") /\ UNCHANGED report
       \/ Goto(r, "failed") /\ UNCHANGED report
    /\ UNCHANGED charge

(* handleWebhook checks the signature, logs, and changes nothing.          *)
HandleWebhook(r) ==
    /\ Begin(r, "notify")
    /\ Goto(r, IF call[r].signed THEN "answer" ELSE "refused")
    /\ UNCHANGED paymentVars

Payment(r) == InitializePayment(r) \/ VerifyPayment(r) \/ HandleWebhook(r)

-----------------------------------------------------------------------------
(* The amounts that Paystack's kobo and back leave as they were.           *)
Exact(a) == Kobo[a] \in Whole /\ Naira[Kobo[a]] = a

(* What requests are told of one reference, whoever asks and whenever:     *)
(* paid only if it was paid, and ever after; always the same amount; and   *)
(* that is the amount asked for, unless the doubles of                     *)
(* paystack.provider.ts:37 and 69 do not give it back.  A payment whose    *)
(* initialization was answered is found by whoever asks the provider it    *)
(* was asked of, also where no request names one (payments.service.ts:20). *)
PaymentsAsAsked ==
    \A r \in Reqs : call[r].op = "check" =>
        LET q == call[r].reference IN
        /\ report[r] # NoCharge =>
              /\ report[r].paid => charge[q].paid
              /\ charge[q].at = "flutterwave" \/ Exact(call[q].amount) =>
                    report[r].amount = call[q].amount
              /\ \A s \in Reqs :
                    call[s].op = "check" /\ call[s].reference = q /\ report[s] # NoCharge =>
                        /\ report[s].amount = report[r].amount
                        /\ s \in seen[r] /\ report[s].paid => report[r].paid
        /\ q \in seen[r] /\ call[q].op = "initialize" /\ call[q].provider = call[r].provider =>
              pc[r] # "unknown"
=============================================================================
