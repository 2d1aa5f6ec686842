------------------------------ MODULE Webhooks ------------------------------
(***************************************************************************)
(* Webhooks: the service (src/webhooks/webhooks.service.ts), the job       *)
(* processor (webhook.processor.ts) and, as the code configures and uses   *)
(* it, the Bull queue between them.                                        *)
(*                                                                         *)
(* deliverWebhook runs under two callers: a queued job, whose delivery id  *)
(* is chosen by emitEvent, and a POST /webhooks/:id/test request.  Both    *)
(* share the actions Post, Save and SaveFails below; an id is a job        *)
(* <<event, webhook>> or the test request itself.                          *)
(***************************************************************************)
EXTENDS Integers, FiniteSets

CONSTANTS
    Devs, Nobody,   \* developers; the owner of a webhook that has no row
    Registered,     \* the owners of the webhooks that exist at the start
    Events,         \* calls of emitEvent
    EventDev,       \* the developer each is for
    Reqs, Calls,    \* HTTP requests, and what they may ask for
    MaxAttempts,    \* emitEvent's attempts: 3 in the code
    MaxStalls,      \* Bull's default maxStalledCount: 1
    MaxCrashes      \* bound: how often the process dies, or Redis fails the worker

(* A webhook is named by the request that creates it, so ids are fresh.    *)
Hooks == DOMAIN Registered \cup Reqs
Jobs == Events \X Hooks
Ids == Jobs \cup Reqs

CallType == [op: {"create", "delete", "test"}, dev: Devs, hook: Hooks]

ASSUME WebhooksAssumption ==
    /\ Nobody \notin Devs
    /\ Registered \in [DOMAIN Registered -> Devs]
    /\ DOMAIN Registered \cap Reqs = {} /\ Jobs \cap Reqs = {}
    /\ EventDev \in [Events -> Devs]
    /\ Calls \subseteq CallType
    /\ MaxAttempts \in Nat \ {0} /\ MaxStalls \in Nat /\ MaxCrashes \in Nat

VARIABLES
    owner,      \* table Webhook: who owns each, Nobody when there is no row
    rows,       \* table WebhookDelivery, by delivery id
    job,        \* the Bull job of each <<event, webhook>>
    emit, todo, \* where each emitEvent is, and the webhooks it has still to queue
    call, pc,   \* what each request asks for, and where it is
    at,         \* where the deliverWebhook of each id is
    success,    \* its local variable of that name, FALSE when it has returned
    posts,      \* history: POSTs sent for each id
    heard,      \* history: the ids whose POST the endpoint took in
    trouble,    \* history: the ids hit by a failed save, a crash or a job unfinished
    crashes

vars == <<owner, rows, job, emit, todo, call, pc, at, success, posts, heard, trouble, crashes>>

NoRow == [success |-> FALSE, attempts |-> 0]
NoJob == [state |-> "none", attemptsMade |-> 0, stalls |-> 0]

TypeOK ==
    /\ owner \in [Hooks -> Devs \cup {Nobody}]
    /\ rows \in [Ids -> [success: BOOLEAN, attempts: 0..MaxAttempts]]
    /\ job \in [Jobs -> [state: {"none", "waiting", "active", "completed", "failed"},
                         attemptsMade: 0..MaxAttempts, stalls: 0..MaxStalls + 1]]
    /\ emit \in [Events -> {"new", "adding", "ok", "failed"}]
    /\ todo \in [Events -> SUBSET Hooks]
    /\ call \in [Reqs -> Calls]
    /\ pc \in [Reqs -> {"new", "delete", "test", "ok", "failed", "notFound", "forbidden"}]
    /\ at \in [Ids -> {"idle", "post", "save", "done", "threw"}]
    /\ success \in [Ids -> BOOLEAN]
    /\ posts \in [Ids -> 0..MaxAttempts + MaxStalls + 1]
    /\ heard \in SUBSET Ids /\ trouble \in SUBSET Ids
    /\ crashes \in 0..MaxCrashes

Init ==
    /\ owner = [h \in Hooks |-> IF h \in DOMAIN Registered THEN Registered[h] ELSE Nobody]
    /\ rows = [id \in Ids |-> NoRow]
    /\ job = [j \in Jobs |-> NoJob]
    /\ emit = [e \in Events |-> "new"] /\ todo = [e \in Events |-> {}]
    /\ call \in [Reqs -> Calls] /\ pc = [r \in Reqs |-> "new"]
    /\ at = [id \in Ids |-> "idle"] /\ success = [id \in Ids |-> FALSE]
    /\ posts = [id \in Ids |-> 0] /\ heard = {} /\ trouble = {} /\ crashes = 0

HookOf(id) == IF id \in Reqs THEN call[id].hook ELSE id[2]

(* The fourth argument of deliverWebhook: 1 by default.                    *)
Attempts(id) == IF id \in Reqs THEN 1 ELSE job[id].attemptsMade + 1

HasRow(id) == rows[id].attempts > 0

-----------------------------------------------------------------------------
(* The HTTP requests.  A write may fail, or be done and its answer lost.   *)
CreateWebhook(r) ==
    /\ pc[r] = "new" /\ call[r].op = "create"
    /\ \/ /\ owner' = [owner EXCEPT ![r] = call[r].dev]
          /\ \E end \in {"ok", "failed"} : pc' = [pc EXCEPT ![r] = end]
       \/ pc' = [pc EXCEPT ![r] = "failed"] /\ UNCHANGED owner
    /\ UNCHANGED <<rows, job, emit, todo, call, at, success, posts, heard, trouble, crashes>>

(* findUnique and the checks of deleteWebhook and testWebhook.             *)
FindWebhook(r) ==
    LET c == call[r] IN
    /\ pc[r] = "new" /\ c.op # "create"
    /\ \/ /\ owner[c.hook] = c.dev
          /\ pc' = [pc EXCEPT ![r] = c.op]
          /\ at' = [at EXCEPT ![r] = IF c.op = "test" THEN "post" ELSE @]
       \/ /\ owner[c.hook] # c.dev
          /\ pc' = [pc EXCEPT ![r] = IF owner[c.hook] = Nobody THEN "notFound" ELSE "forbidden"]
          /\ UNCHANGED at
    /\ UNCHANGED <<owner, rows, job, emit, todo, call, success, posts, heard, trouble, crashes>>

(* webhook.delete fails on a webhook that is gone, by the foreign key of   *)
(* WebhookDelivery (RESTRICT) on one that has a delivery, and whenever the *)
(* database does.  The mutant is a schema with ON DELETE SET NULL.         *)
DeleteWebhookUnrestricted(r) ==
    /\ pc[r] = "delete"
    /\ owner' = [owner EXCEPT ![call[r].hook] = Nobody]
    /\ pc' = [pc EXCEPT ![r] = "ok"]
    /\ UNCHANGED <<rows, job, emit, todo, call, at, success, posts, heard, trouble, crashes>>

DeleteWebhook(r) ==
    LET h == call[r].hook IN
    /\ pc[r] = "delete"
    /\ \/ /\ owner[h] # Nobody /\ \A id \in Ids : HookOf(id) = h => ~HasRow(id)
          /\ owner' = [owner EXCEPT ![h] = Nobody]
          /\ \E end \in {"ok", "failed"} : pc' = [pc EXCEPT ![r] = end]
       \/ pc' = [pc EXCEPT ![r] = "failed"] /\ UNCHANGED owner
    /\ UNCHANGED <<rows, job, emit, todo, call, at, success, posts, heard, trouble, crashes>>

TestReturns(r) ==
    /\ pc[r] = "test" /\ at[r] \in {"done", "threw"}
    /\ pc' = [pc EXCEPT ![r] = IF at[r] = "done" THEN "ok" ELSE "failed"]
    /\ at' = [at EXCEPT ![r] = "idle"]
    /\ UNCHANGED <<owner, rows, job, emit, todo, call, success, posts, heard, trouble, crashes>>

-----------------------------------------------------------------------------
(* emitEvent: find the developer's webhooks (isActive is never cleared),   *)
(* then one queue.add per webhook, with an await between them; a failed    *)
(* add ends the loop.                                                      *)
FindTargets(e) ==
    /\ emit[e] = "new"
    /\ emit' = [emit EXCEPT ![e] = "adding"]
    /\ todo' = [todo EXCEPT ![e] = {h \in Hooks : owner[h] = EventDev[e]}]
    /\ UNCHANGED <<owner, rows, job, call, pc, at, success, posts, heard, trouble, crashes>>

AddJob(e) ==
    /\ emit[e] = "adding"
    /\ \E h \in todo[e] :
         /\ job' = [job EXCEPT ![<<e, h>>].state = "waiting"]
         /\ todo' = [todo EXCEPT ![e] = @ \ {h}]
    /\ UNCHANGED <<owner, rows, emit, call, pc, at, success, posts, heard, trouble, crashes>>

AddFails(e) ==
    /\ emit[e] = "adding" /\ todo[e] # {}
    /\ emit' = [emit EXCEPT ![e] = "failed"] /\ todo' = [todo EXCEPT ![e] = {}]
    /\ UNCHANGED <<owner, rows, job, call, pc, at, success, posts, heard, trouble, crashes>>

EmitReturns(e) ==
    /\ emit[e] = "adding" /\ todo[e] = {}
    /\ emit' = [emit EXCEPT ![e] = "ok"]
    /\ UNCHANGED <<owner, rows, job, todo, call, pc, at, success, posts, heard, trouble, crashes>>

-----------------------------------------------------------------------------
(* deliverWebhook.  The POST is answered with 2xx, taken in by an endpoint *)
(* whose answer is lost or is an error, or not taken in at all; the catch  *)
(* block turns the last two into success = FALSE.  The mutant sets success *)
(* before it sends.                                                        *)
PostOptimistic(id) ==
    /\ at[id] = "post"
    /\ at' = [at EXCEPT ![id] = "save"]
    /\ posts' = [posts EXCEPT ![id] = @ + 1]
    /\ success' = [success EXCEPT ![id] = TRUE]
    /\ heard' \in {heard, heard \cup {id}}
    /\ UNCHANGED <<owner, rows, job, emit, todo, call, pc, trouble, crashes>>

Post(id) ==
    /\ at[id] = "post"
    /\ at' = [at EXCEPT ![id] = "save"]
    /\ posts' = [posts EXCEPT ![id] = @ + 1]
    /\ \E ok \in BOOLEAN, taken \in BOOLEAN :
         /\ ok => taken
         /\ success' = [success EXCEPT ![id] = ok]
         /\ heard' = IF taken THEN heard \cup {id} ELSE heard
    /\ UNCHANGED <<owner, rows, job, emit, todo, call, pc, trouble, crashes>>

(* The upsert (or create) of the WebhookDelivery row.                      *)
Save(id) ==
    /\ at[id] = "save" /\ owner[HookOf(id)] # Nobody
    /\ rows' = [rows EXCEPT ![id] = [success |-> success[id], attempts |-> Attempts(id)]]
    /\ at' = [at EXCEPT ![id] = "done"] /\ success' = [success EXCEPT ![id] = FALSE]
    /\ UNCHANGED <<owner, job, emit, todo, call, pc, posts, heard, trouble, crashes>>

(* The row is refused because the webhook is gone, or the database fails.  *)
SaveFails(id) ==
    /\ at[id] = "save"
    /\ at' = [at EXCEPT ![id] = "threw"] /\ success' = [success EXCEPT ![id] = FALSE]
    /\ trouble' = trouble \cup {id}
    /\ UNCHANGED <<owner, rows, job, emit, todo, call, pc, posts, heard, crashes>>

-----------------------------------------------------------------------------
(* Bull's worker: one job at a time (the default concurrency of @Process). *)
TakeJob(j) ==
    /\ job[j].state = "waiting" /\ \A k \in Jobs : job[k].state # "active"
    /\ job' = [job EXCEPT ![j].state = "active"]
    /\ at' = [at EXCEPT ![j] = "post"]
    /\ UNCHANGED <<owner, rows, emit, todo, call, pc, success, posts, heard, trouble, crashes>>

(* A job that nobody finished is found stalled: it waits again, once.  The *)
(* mutant is a queue without that check.                                   *)
StalledForGood(b) == IF b.state # "active" THEN b ELSE [b EXCEPT !.stalls = @ + 1]

Stalled(b) ==
    IF b.state # "active" THEN b
    ELSE [b EXCEPT !.stalls = @ + 1,
                   !.state = IF b.stalls + 1 > MaxStalls THEN "failed" ELSE "waiting"]

(* handleDelivery drops the Boolean that deliverWebhook returns: a job     *)
(* whose POST failed completes like any other.  The mutant throws on it.   *)
JobReturnsOrRetries(j) ==
    LET again == ~rows[j].success /\ job[j].attemptsMade + 1 < MaxAttempts IN
    /\ job[j].state = "active" /\ at[j] = "done"
    /\ job' = [job EXCEPT ![j].state = IF again THEN "waiting" ELSE "completed",
                          ![j].attemptsMade = IF again THEN @ + 1 ELSE @]
    /\ at' = [at EXCEPT ![j] = "idle"]
    /\ UNCHANGED <<owner, rows, emit, todo, call, pc, success, posts, heard, trouble, crashes>>

JobReturns(j) ==
    /\ job[j].state = "active" /\ at[j] = "done"
    /\ job' = [job EXCEPT ![j].state = "completed"]
    /\ at' = [at EXCEPT ![j] = "idle"]
    /\ UNCHANGED <<owner, rows, emit, todo, call, pc, success, posts, heard, trouble, crashes>>

(* The handler threw: Bull retries it, after a delay, while attempts last. *)
(* The mutant does not count.                                              *)
JobThrowsUncounted(j) ==
    /\ job[j].state = "active" /\ at[j] = "threw"
    /\ job' = [job EXCEPT ![j].state = "waiting"]
    /\ at' = [at EXCEPT ![j] = "idle"]
    /\ UNCHANGED <<owner, rows, emit, todo, call, pc, success, posts, heard, trouble, crashes>>

JobThrows(j) ==
    LET made == job[j].attemptsMade + 1 IN
    /\ job[j].state = "active" /\ at[j] = "threw"
    /\ job' = [job EXCEPT ![j].state = IF made < MaxAttempts THEN "waiting" ELSE "failed",
                          ![j].attemptsMade = made]
    /\ at' = [at EXCEPT ![j] = "idle"]
    /\ UNCHANGED <<owner, rows, emit, todo, call, pc, success, posts, heard, trouble, crashes>>

(* The lock of the job was lost on the way, or Redis fails the worker as   *)
(* it ends the job: what the handler did is done, and the job is stalled.  *)
JobStalls(j) ==
    /\ job[j].state = "active" /\ at[j] \in {"done", "threw"}
    /\ crashes < MaxCrashes /\ crashes' = crashes + 1
    /\ job' = [job EXCEPT ![j] = Stalled(@)]
    /\ at' = [at EXCEPT ![j] = "idle"] /\ trouble' = trouble \cup {j}
    /\ UNCHANGED <<owner, rows, emit, todo, call, pc, success, posts, heard>>

(* The process dies: requests and emitEvents in flight are gone, and the   *)
(* active job is found stalled after the restart.                          *)
Crash ==
    /\ crashes < MaxCrashes
    /\ crashes' = crashes + 1
    /\ job' = [j \in Jobs |-> Stalled(job[j])]
    /\ trouble' = trouble \cup {id \in Ids : at[id] # "idle"}
    /\ at' = [id \in Ids |-> "idle"] /\ success' = [id \in Ids |-> FALSE]
    /\ pc' = [r \in Reqs |-> IF pc[r] \in {"delete", "test"} THEN "failed" ELSE pc[r]]
    /\ emit' = [e \in Events |-> IF emit[e] = "adding" THEN "failed" ELSE emit[e]]
    /\ todo' = [e \in Events |-> {}]
    /\ UNCHANGED <<owner, rows, call, posts, heard>>

Deliver(id) == Post(id) \/ Save(id) \/ SaveFails(id)
Worker ==
    \E j \in Jobs : TakeJob(j) \/ Deliver(j) \/ JobReturns(j) \/ JobThrows(j) \/ JobStalls(j)
Handle(r) == FindWebhook(r) \/ DeleteWebhook(r) \/ Deliver(r) \/ TestReturns(r)
Emit(e) == FindTargets(e) \/ AddJob(e) \/ AddFails(e) \/ EmitReturns(e)

Next ==
    \/ Worker \/ Crash
    \/ \E r \in Reqs : CreateWebhook(r) \/ Handle(r)
    \/ \E e \in Events : Emit(e)

(* Bull polls its queue for as long as the process lives, and it is        *)
(* restarted when it dies.                                                 *)
Spec == Init /\ [][Next]_vars /\ WF_vars(Worker)

-----------------------------------------------------------------------------
(* A row that says success tells of a POST the endpoint took in, whatever  *)
(* retries, stalls and lost answers came in between.                       *)
SuccessIsHeard == \A id \in Ids : rows[id].success => id \in heard

(* A job that completed, and a test that answered, left a row with the     *)
(* number of the attempt that made it, and a webhook that a racing delete  *)
(* cannot take from under that row.                                        *)
CompletedIsRecorded ==
    /\ \A j \in Jobs : job[j].state = "completed" =>
          rows[j].attempts = job[j].attemptsMade + 1 /\ owner[j[2]] # Nobody
    /\ \A r \in Reqs : pc[r] = "ok" /\ call[r].op = "test" =>
          HasRow(r) /\ owner[call[r].hook] # Nobody

(* An event goes to the webhooks of its developer and to no others; and an *)
(* emitEvent that returned has queued it for each of them that was there   *)
(* when it began and is there still.  (One that failed on the way has      *)
(* queued it for some: there is no telling which.)                         *)
EventsReachHooks ==
    \A e \in Events, h \in Hooks :
        /\ job[<<e, h>>].state # "none" => owner[h] \in {EventDev[e], Nobody}
        /\ emit[e] = "ok" /\ h \in DOMAIN Registered /\ owner[h] = EventDev[e]
              => job[<<e, h>>].state # "none"

DeliveriesAccounted == CompletedIsRecorded /\ EventsReachHooks

(* An endpoint is sent the same delivery twice only after a save failed,   *)
(* the process died under it or Redis left its job unfinished, and never   *)
(* more often than attempts and stalls allow.                              *)
RepostOnlyAfterTrouble ==
    \A id \in Ids :
        /\ posts[id] > 1 => id \in trouble
        /\ id \in Jobs => posts[id] <= job[id].attemptsMade + job[id].stalls + 1

(* Every queued job ends, whatever fails on the way.                       *)
EveryJobEnds ==
    \A j \in Jobs : job[j].state = "waiting" ~> job[j].state \in {"completed", "failed"}

(* Why it does: what is left to do for a job is bounded, and every step    *)
(* that touches it, a crash too, leaves less; and while any job waits or   *)
(* is active, the worker can take a step.                                  *)
WorkLeft(j) ==
    4 * (MaxAttempts - job[j].attemptsMade + MaxStalls + 1 - job[j].stalls)
    + CASE job[j].state = "waiting" -> 4 [] at[j] = "post" -> 3 [] at[j] = "save" -> 2
        [] at[j] \in {"done", "threw"} -> 1 [] OTHER -> 0

CanWork(j) ==
    \/ job[j].state = "waiting" /\ \A k \in Jobs : job[k].state # "active"
    \/ at[j] # "idle"

WorkRemains ==
    /\ \A j \in Jobs : WorkLeft(j) \in Nat
    /\ (\E j \in Jobs : job[j].state \in {"waiting", "active"}) => \E j \in Jobs : CanWork(j)

JobsWearOut ==
    [][\A j \in Jobs : job[j].state # "none" /\ <<job'[j], at'[j]>> # <<job[j], at[j]>>
          => WorkLeft(j)' < WorkLeft(j)]_vars

(* README.md:59 "Failed deliveries retry 3 times": a job that is over was  *)
(* delivered or had its three attempts.                                    *)
FailedDeliveriesRetry ==
    \A j \in Jobs : job[j].state = "completed" =>
        rows[j].success \/ rows[j].attempts = MaxAttempts
=============================================================================
