----------------------------- MODULE MCWebhooks -----------------------------
(***************************************************************************)
(* Instances of Webhooks: developers d1 and d2, webhook h1 of d1, one      *)
(* event for d1, and requests that create, test and delete webhooks.       *)
(***************************************************************************)
EXTENDS Webhooks, TLC

CONSTANTS d1, d2, h1, e1, r1, r2

MCRegistered == h1 :> d1
MCEventDev == e1 :> d1

Ask(op, d, h) == [op |-> op, dev |-> d, hook |-> h]

(* A delete races another request and the job of e1: a test, a second      *)
(* delete, or the creation of a webhook the event is not for.  Where the   *)
(* creation adds a second job the delete is a stranger's, and refused.     *)
(* (A test and a create touch nothing in common.)                          *)
Second == Ask("create", d1, h1)
Strange == Ask("delete", d2, h1)
RaceCalls ==
    {Second, Strange, Ask("create", d2, h1), Ask("test", d1, h1), Ask("delete", d1, h1)}

RaceInit ==
    /\ Init
    /\ call[r2].op = "delete" /\ (call[r2] = Strange <=> call[r1] = Second)
RaceSpec == RaceInit /\ [][Next]_vars /\ WF_vars(Worker)

(* One request, of a stranger or for a webhook that is not there too.      *)
OneCalls ==
    {Ask("create", d1, h1), Ask("delete", d1, h1), Strange, Ask("test", d1, r1)}
=============================================================================
