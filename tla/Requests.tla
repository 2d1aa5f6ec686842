------------------------------ MODULE Requests ------------------------------
(***************************************************************************)
(* HTTP requests the guards have let in, as the modules Otp, RequestLog,   *)
(* Payments and Identity share them: what each asks for, where its handler *)
(* is, and which requests it came after.                                   *)
(***************************************************************************)
EXTENDS Naturals, FiniteSets

CONSTANTS
    Reqs, Calls,    \* HTTP requests, and what they may ask for
    Devs, Nobody,   \* developers; the caller of a route without a guard
    Keys, NoKey     \* API keys, and the null of a request with a token

(* A behaviour is of finitely many requests, however many they are.        *)
ASSUME RequestsAssumption == IsFiniteSet(Reqs)

VARIABLES
    call,   \* what each request asks for
    pc,     \* where its handler is, and in the end how it was answered
    seen    \* history: the requests answered with success when it came

requestVars == <<call, pc, seen>>

(* What the guards put into req.user; the other fields are the handler's.  *)
Caller(c) == c.dev \in Devs \cup {Nobody} /\ c.key \in Keys \cup {NoKey}

RequestsInit ==
    /\ call \in [Reqs -> Calls]
    /\ pc = [r \in Reqs |-> "new"]
    /\ seen = [r \in Reqs |-> {}]

Goto(r, label) == pc' = [pc EXCEPT ![r] = label] /\ UNCHANGED call

(* The request arrives: the first step of its handler.                     *)
Begin(r, op) ==
    /\ pc[r] = "new" /\ call[r].op = op
    /\ seen' = [seen EXCEPT ![r] = {q \in Reqs : pc[q] = "ok"}]

At(r, label) == pc[r] = label /\ UNCHANGED seen

(* A call to a store or a provider that was carried out: its answer is     *)
(* read, or lost, and then the await throws and the request fails.         *)
Lands(r, label) == \E l \in {label, "failed"} : Goto(r, l)

(* The handler has returned, so its answer is under way or more.           *)
Served(r) == pc[r] \in {"answer", "ok", "unanswered"}

Answer(r) ==
    /\ At(r, "answer")
    /\ \E l \in {"ok", "unanswered"} : Goto(r, l)

Ended(r) == pc[r] \in {"ok", "unanswered", "failed", "notFound", "forbidden", "refused", "unknown"}

(* What the death of the process does to the requests in flight.           *)
Dropped ==
    [r \in Reqs |->
        IF pc[r] = "answer" THEN "unanswered"
        ELSE IF pc[r] = "new" \/ Ended(r) THEN pc[r] ELSE "failed"]
=============================================================================
