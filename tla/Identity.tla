------------------------------ MODULE Identity ------------------------------
(***************************************************************************)
(* Identity checks (src/identity/identity.service.ts): handlers without    *)
(* state, whose requests count like any other's.                           *)
(***************************************************************************)
EXTENDS Requests

(* verifyBvn and verifyNin answer with fixed data.                         *)
VerifyIdentity(r) == Begin(r, "identity") /\ Goto(r, "answer")

(* resolveBank asks Paystack, and fails when Paystack does.                *)
ResolveBank(r) == Begin(r, "resolve") /\ Lands(r, "answer")
=============================================================================
