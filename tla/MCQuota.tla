------------------------------ MODULE MCQuota ------------------------------
(***************************************************************************)
(* Instances of Quota: developer d1 on plan FREE has key k1; months of     *)
(* two seconds of two ticks each; plan FREE allows one request a month,    *)
(* and PRO two.                                                            *)
(***************************************************************************)
EXTENDS Quota, TLC

CONSTANTS d1, d2, k1, FREE, PRO, last

MCOwner == k1 :> d1
MCLimit == FREE :> 1 @@ PRO :> 2
MCPlan == [d \in Devs |-> FREE]

Ask(op, d, k, p) == [op |-> op, dev |-> d, key |-> k, plan |-> p]

(* Requests with k1, and with a key created on the way, against the        *)
(* revocation of k1 (by its owner, and by another) and changes of plan.    *)
RaceCalls ==
    {Ask("use", d1, k, FREE) : k \in {k1} \cup Reqs}
    \cup {Ask("create", d1, k1, FREE), Ask("revoke", d1, k1, FREE),
          Ask("revoke", d2, k1, FREE), Ask("quota", d1, k1, FREE),
          Ask("upgrade", d1, k1, PRO)}

(* Three requests ask for any of these, and the last never comes: nobody   *)
(* has its key.  Or three requests with k1 race an upgrade, in one month,  *)
(* and at most one of them fails.                                          *)
NeverComes == Ask("use", d1, last, FREE)

MCInit ==
    /\ Init
    /\ \/ /\ call[last] = NeverComes
          /\ \A r \in Reqs \ {last} :
                call[r].key \in Reqs => call[call[r].key].op = "create"
       \/ /\ call[last] = Ask("upgrade", d1, k1, PRO)
          /\ \A r \in Reqs \ {last} : call[r] = Ask("use", d1, k1, FREE)

MCSpec == MCInit /\ [][Next]_vars

FourInAMonth == call[last] # NeverComes =>
    time < Month /\ Cardinality({r \in Reqs : pc[r] = "failed"}) <= 1

ReqSymmetry == Permutations(Reqs \ {last})
=============================================================================
