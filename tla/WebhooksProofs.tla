--------------------------- MODULE WebhooksProofs ---------------------------
(***************************************************************************)
(* Theorems about Webhooks, for every set of developers, webhooks, events  *)
(* and requests, every number of attempts, stalls and crashes.             *)
(***************************************************************************)
EXTENDS Webhooks, TLAPS

(* Where the deliveries are that have sent the POST of this attempt.       *)
Sent == {"save", "done", "threw"}

JobRow == [state: {"none", "waiting", "active", "completed", "failed"},
           attemptsMade: 0..MaxAttempts, stalls: 0..MaxStalls + 1]
DeliveryRow == [success: BOOLEAN, attempts: 0..MaxAttempts]

(* TypeOK but for the number of POSTs, which PostsInv bounds.              *)
Types ==
    /\ owner \in [Hooks -> Devs \cup {Nobody}]
    /\ rows \in [Ids -> DeliveryRow]
    /\ job \in [Jobs -> JobRow]
    /\ emit \in [Events -> {"new", "adding", "ok", "failed"}]
    /\ todo \in [Events -> SUBSET Hooks]
    /\ call \in [Reqs -> Calls]
    /\ pc \in [Reqs -> {"new", "delete", "test", "ok", "failed", "notFound", "forbidden"}]
    /\ at \in [Ids -> {"idle", "post", "save", "done", "threw"}]
    /\ success \in [Ids -> BOOLEAN]
    /\ posts \in [Ids -> Nat]
    /\ heard \in SUBSET Ids /\ trouble \in SUBSET Ids
    /\ crashes \in 0..MaxCrashes

(* A delivery runs for the active job and for a test that was let in; a    *)
(* job has attempts and stalls left until it has failed.                   *)
JobsOK ==
    \A j \in Jobs :
        /\ at[j] # "idle" <=> job[j].state = "active"
        /\ job[j].state # "failed" =>
              job[j].attemptsMade < MaxAttempts /\ job[j].stalls <= MaxStalls

(* emitEvent adds a job once.                                              *)
TodoOK ==
    \A e \in Events, h \in Hooks :
        emit[e] = "new" \/ h \in todo[e] => job[<<e, h>>].state = "none"

TestsOK ==
    \A r \in Reqs :
        /\ at[r] # "idle" => pc[r] = "test" /\ call[r].op = "test"
        /\ pc[r] = "delete" => call[r].op = "delete"

TypeInv == Types /\ JobsOK /\ TodoOK /\ TestsOK

-----------------------------------------------------------------------------
(* What the calls of requests are made of.                                 *)
LEMMA CallFields ==
    ASSUME TypeInv, NEW r \in Reqs
    PROVE  /\ call[r].op \in {"create", "delete", "test"} /\ call[r].dev \in Devs
           /\ call[r].hook \in Hooks /\ r \in Ids /\ r \in Hooks /\ r \notin Jobs
  BY WebhooksAssumption DEF TypeInv, Types, CallType, Ids, Hooks

(* The names of jobs.                                                      *)
LEMMA JobFields ==
    ASSUME NEW j \in Jobs
    PROVE  /\ j[1] \in Events /\ j[2] \in Hooks /\ j = <<j[1], j[2]>>
           /\ j \in Ids /\ j \notin Reqs
  BY WebhooksAssumption DEF Jobs, Ids

(* The attempt of a delivery that runs is one of those emitEvent allows.   *)
LEMMA AttemptsBound ==
    ASSUME TypeInv, NEW id \in Ids, at[id] # "idle"
    PROVE  Attempts(id) \in 1..MaxAttempts
  <1>1. CASE id \in Reqs
    BY <1>1, WebhooksAssumption DEF Attempts
  <1>2. CASE id \in Jobs
    <2>1. job[id] \in JobRow /\ job[id].state = "active" /\ id \notin Reqs
      BY <1>2, JobFields DEF TypeInv, Types, JobsOK
    <2> QED BY <1>2, <2>1, WebhooksAssumption DEF Attempts, TypeInv, JobsOK, JobRow
  <1> QED BY <1>1, <1>2 DEF Ids

(* A webhook exists for every request and job.                             *)
LEMMA HookOfType ==
    ASSUME TypeInv, NEW id \in Ids
    PROVE  HookOf(id) \in Hooks
  BY CallFields, JobFields DEF HookOf, Ids

(* At the start every variable has its type.                               *)
LEMMA TypeInit == Init => TypeInv
  <1> SUFFICES ASSUME Init PROVE TypeInv
    OBVIOUS
  <1> USE WebhooksAssumption DEF Init
  <1>1. NoRow \in DeliveryRow /\ NoJob \in JobRow
    BY DEF NoRow, NoJob, DeliveryRow, JobRow
  <1>2. owner \in [Hooks -> Devs \cup {Nobody}]
    BY DEF Hooks
  <1>3. Types
    BY <1>1, <1>2 DEF Types
  <1>4. JobsOK
    BY JobFields DEF JobsOK, NoJob
  <1>5. TodoOK
    BY DEF TodoOK, NoJob, Jobs
  <1>6. TestsOK
    BY DEF TestsOK, Ids
  <1> QED BY <1>3, <1>4, <1>5, <1>6 DEF TypeInv

(* A delivery goes from the POST to the row, and from there to its end.    *)
Delivers(j) ==
    \/ at'[j] = at[j]
    \/ at[j] = "post" /\ at'[j] = "save"
    \/ at[j] = "save" /\ at'[j] \in {"done", "threw"}

(* What a step does to the job j.                                          *)
LEMMA JobStep ==
    ASSUME TypeInv, [Next]_vars, NEW j \in Jobs
    PROVE  \/ job'[j] = job[j] /\ Delivers(j)
           \/ /\ j[2] \in todo[j[1]] \ todo'[j[1]] /\ emit'[j[1]] = "adding"
              /\ job'[j] = [job[j] EXCEPT !.state = "waiting"] /\ at' = at
           \/ TakeJob(j) /\ job'[j] = [job[j] EXCEPT !.state = "active"] /\ at'[j] = "post"
           \/ JobReturns(j) /\ job'[j] = [job[j] EXCEPT !.state = "completed"] /\ at'[j] = "idle"
           \/ /\ JobThrows(j) /\ at'[j] = "idle"
              /\ job'[j] = [job[j] EXCEPT
                    !.state = IF job[j].attemptsMade + 1 < MaxAttempts THEN "waiting" ELSE "failed",
                    !.attemptsMade = job[j].attemptsMade + 1]
           \/ (Crash \/ JobStalls(j)) /\ job'[j] = Stalled(job[j]) /\ at'[j] = "idle"
  <1> USE DEF TypeInv, Types
  <1>j. j \in Ids /\ j \notin Reqs /\ j = <<j[1], j[2]>> /\ j[1] \in Events /\ j[2] \in Hooks
    BY JobFields
  <1>1. ASSUME NEW id \in Ids, Deliver(id)
        PROVE  job' = job /\ Delivers(j)
    BY <1>1, <1>j DEF Deliver, Post, Save, SaveFails, Delivers
  <1>2. ASSUME NEW r \in Reqs,
               CreateWebhook(r) \/ FindWebhook(r) \/ DeleteWebhook(r) \/ TestReturns(r)
        PROVE  job' = job /\ at'[j] = at[j]
    BY <1>2, <1>j DEF CreateWebhook, FindWebhook, DeleteWebhook, TestReturns
  <1>3. ASSUME NEW e \in Events, FindTargets(e) \/ AddFails(e) \/ EmitReturns(e)
        PROVE  job' = job /\ at' = at
    BY <1>3 DEF FindTargets, AddFails, EmitReturns
  <1>4. ASSUME NEW e \in Events, AddJob(e), job'[j] # job[j]
        PROVE  /\ j[2] \in todo[j[1]] \ todo'[j[1]] /\ emit'[j[1]] = "adding"
               /\ job'[j] = [job[j] EXCEPT !.state = "waiting"] /\ at' = at
    <2>1. PICK h \in todo[e] : /\ job' = [job EXCEPT ![<<e, h>>].state = "waiting"]
                               /\ todo' = [todo EXCEPT ![e] = @ \ {h}]
      BY <1>4 DEF AddJob
    <2>2. j = <<e, h>>
      BY <1>4, <2>1
    <2> QED BY <1>4, <2>1, <2>2 DEF AddJob
  <1>5. ASSUME NEW k \in Jobs, k # j,
               TakeJob(k) \/ JobReturns(k) \/ JobThrows(k) \/ JobStalls(k)
        PROVE  job'[j] = job[j] /\ at'[j] = at[j]
    BY <1>5, <1>j DEF TakeJob, JobReturns, JobThrows, JobStalls
  <1>6. ASSUME TakeJob(j)
        PROVE  job'[j] = [job[j] EXCEPT !.state = "active"] /\ at'[j] = "post"
    BY <1>6, <1>j DEF TakeJob
  <1>7. ASSUME JobReturns(j)
        PROVE  job'[j] = [job[j] EXCEPT !.state = "completed"] /\ at'[j] = "idle"
    BY <1>7, <1>j DEF JobReturns
  <1>8. ASSUME JobThrows(j)
        PROVE  /\ at'[j] = "idle"
               /\ job'[j] = [job[j] EXCEPT
                    !.state = IF job[j].attemptsMade + 1 < MaxAttempts THEN "waiting" ELSE "failed",
                    !.attemptsMade = job[j].attemptsMade + 1]
    BY <1>8, <1>j DEF JobThrows
  <1>9. ASSUME Crash \/ JobStalls(j)
        PROVE  job'[j] = Stalled(job[j]) /\ at'[j] = "idle"
    BY <1>9, <1>j DEF Crash, JobStalls
  <1>10. CASE UNCHANGED vars
    BY <1>10 DEF vars, Delivers
  <1>11. CASE Worker
    <2>1. PICK k \in Jobs :
            TakeJob(k) \/ Deliver(k) \/ JobReturns(k) \/ JobThrows(k) \/ JobStalls(k)
      BY <1>11 DEF Worker
    <2>2. k \in Ids
      BY JobFields
    <2> QED BY <2>1, <2>2, <1>1, <1>5, <1>6, <1>7, <1>8, <1>9 DEF Delivers
  <1>12. CASE \E r \in Reqs : CreateWebhook(r) \/ Handle(r)
    <2>1. PICK r \in Reqs : CreateWebhook(r) \/ Handle(r)
      BY <1>12
    <2>2. r \in Ids
      BY DEF Ids
    <2> QED BY <2>1, <2>2, <1>1, <1>2 DEF Handle, Delivers
  <1>13. CASE \E e \in Events : Emit(e)
    BY <1>13, <1>3, <1>4 DEF Emit, AddJob, Delivers
  <1> QED BY <1>9, <1>10, <1>11, <1>12, <1>13 DEF Next, Delivers

(* Every step leaves the deliveries at work for active jobs.               *)
LEMMA JobsNext == TypeInv /\ [Next]_vars => JobsOK'
  <1> SUFFICES ASSUME TypeInv, [Next]_vars, NEW j \in Jobs
               PROVE  /\ at'[j] # "idle" <=> job'[j].state = "active"
                      /\ job'[j].state # "failed" =>
                            job'[j].attemptsMade < MaxAttempts /\ job'[j].stalls <= MaxStalls
    BY DEF JobsOK
  <1>t. /\ job[j] \in JobRow /\ (at[j] # "idle" <=> job[j].state = "active")
        /\ job[j].state # "failed" =>
              job[j].attemptsMade < MaxAttempts /\ job[j].stalls <= MaxStalls
    BY DEF TypeInv, Types, JobsOK
  <1> USE DEF JobRow
  <1>1. CASE job'[j] = job[j] /\ (at'[j] # "idle" <=> at[j] # "idle")
    BY <1>t, <1>1
  <1>2. CASE /\ j[2] \in todo[j[1]] \ todo'[j[1]] /\ emit'[j[1]] = "adding"
             /\ job'[j] = [job[j] EXCEPT !.state = "waiting"] /\ at' = at
    <2>1. job[j].state = "none"
      BY <1>2, JobFields DEF TypeInv, TodoOK
    <2> QED BY <1>t, <1>2, <2>1
  <1>3. CASE TakeJob(j) /\ job'[j] = [job[j] EXCEPT !.state = "active"] /\ at'[j] = "post"
    BY <1>t, <1>3 DEF TakeJob
  <1>4. CASE JobReturns(j) /\ job'[j] = [job[j] EXCEPT !.state = "completed"] /\ at'[j] = "idle"
    BY <1>t, <1>4 DEF JobReturns
  <1>5. CASE /\ JobThrows(j) /\ at'[j] = "idle"
             /\ job'[j] = [job[j] EXCEPT
                   !.state = IF job[j].attemptsMade + 1 < MaxAttempts THEN "waiting" ELSE "failed",
                   !.attemptsMade = job[j].attemptsMade + 1]
    <2>1. job[j].state = "active"
      BY <1>5 DEF JobThrows
    <2>2. job[j].attemptsMade + 1 < MaxAttempts => job'[j].attemptsMade < MaxAttempts
      BY <1>t, <1>5
    <2>3. /\ job'[j].state = IF job[j].attemptsMade + 1 < MaxAttempts THEN "waiting" ELSE "failed"
          /\ job'[j].stalls = job[j].stalls
      BY <1>t, <1>5
    <2> QED BY <1>t, <1>5, <2>1, <2>2, <2>3
  <1>6. CASE job'[j] = Stalled(job[j]) /\ at'[j] = "idle"
    <2>1. CASE job[j].state = "active"
      <3>1. job'[j] = [job[j] EXCEPT !.stalls = job[j].stalls + 1,
                          !.state = IF job[j].stalls + 1 > MaxStalls THEN "failed" ELSE "waiting"]
        BY <1>6, <2>1 DEF Stalled
      <3> QED BY <1>t, <1>6, <2>1, <3>1, WebhooksAssumption
    <2>2. CASE job[j].state # "active"
      BY <1>t, <1>6, <2>2 DEF Stalled
    <2> QED BY <2>1, <2>2
  <1> HIDE DEF JobRow
  <1> QED BY <1>1, <1>2, <1>3, <1>4, <1>5, <1>6, JobStep DEF Delivers

(* Every step keeps jobs and their counters in their range.                *)
LEMMA JobTypeNext == TypeInv /\ [Next]_vars => \A j \in Jobs : job'[j] \in JobRow
  <1> SUFFICES ASSUME TypeInv, [Next]_vars, NEW j \in Jobs PROVE job'[j] \in JobRow
    OBVIOUS
  <1>t. /\ job[j] \in JobRow /\ (at[j] # "idle" <=> job[j].state = "active")
        /\ job[j].state # "failed" =>
              job[j].attemptsMade < MaxAttempts /\ job[j].stalls <= MaxStalls
    BY DEF TypeInv, Types, JobsOK
  <1> USE DEF JobRow
  <1>1. CASE JobThrows(j) /\ job'[j] = [job[j] EXCEPT
                   !.state = IF job[j].attemptsMade + 1 < MaxAttempts THEN "waiting" ELSE "failed",
                   !.attemptsMade = job[j].attemptsMade + 1]
    <2>1. job[j].attemptsMade + 1 \in 0..MaxAttempts
      BY <1>t, <1>1, WebhooksAssumption DEF JobThrows
    <2> QED BY <1>t, <1>1, <2>1
  <1>2. CASE job'[j] = Stalled(job[j])
    <2>1. CASE job[j].state = "active"
      <3>1. job[j].stalls + 1 \in 0..MaxStalls + 1
        BY <1>t, <2>1, WebhooksAssumption
      <3> QED BY <1>t, <1>2, <2>1, <3>1 DEF Stalled
    <2> QED BY <1>t, <1>2, <2>1 DEF Stalled
  <1>3. CASE \E state \in {"waiting", "active", "completed"} :
                job'[j] = [job[j] EXCEPT !.state = state]
    BY <1>t, <1>3
  <1> QED BY <1>t, <1>1, <1>2, <1>3, JobStep

(* Every step leaves the webhooks that emitEvent has to queue without job. *)
LEMMA TodoNext == TypeInv /\ [Next]_vars => TodoOK'
  <1> SUFFICES ASSUME TypeInv, [Next]_vars, NEW e \in Events, NEW h \in Hooks,
                      emit'[e] = "new" \/ h \in todo'[e]
               PROVE  job'[<<e, h>>].state = "none"
    BY DEF TodoOK
  <1> DEFINE j == <<e, h>>
  <1>j. j \in Jobs /\ j[1] = e /\ j[2] = h /\ job[j] \in JobRow
    BY DEF Jobs, TypeInv, Types
  <1>1. emit[e] = "new" \/ h \in todo[e]
    <2> USE DEF TypeInv, Types
    <2>1. CASE \E d \in Events : Emit(d)
      <3>1. PICK d \in Events : Emit(d)
        BY <2>1
      <3>2. CASE FindTargets(d)
        BY <3>2 DEF FindTargets
      <3>3. CASE AddJob(d)
        BY <3>3 DEF AddJob
      <3>4. CASE AddFails(d) \/ EmitReturns(d)
        BY <3>4 DEF AddFails, EmitReturns
      <3> QED BY <3>1, <3>2, <3>3, <3>4 DEF Emit
    <2>2. CASE Worker
      BY <2>2 DEF Worker, Deliver, Post, Save, SaveFails, TakeJob,
         JobReturns, JobThrows, JobStalls
    <2>3. CASE \E r \in Reqs : CreateWebhook(r) \/ Handle(r)
      BY <2>3 DEF Handle, Deliver, CreateWebhook, FindWebhook, DeleteWebhook, TestReturns,
         Post, Save, SaveFails
    <2>4. CASE Crash
      BY <2>4 DEF Crash
    <2>5. CASE UNCHANGED vars
      BY <2>5 DEF vars
    <2> QED BY <2>1, <2>2, <2>3, <2>4, <2>5 DEF Next
  <1>2. job[j].state = "none"
    BY <1>1 DEF TypeInv, TodoOK
  <1>3. ~(j[2] \in todo[j[1]] \ todo'[j[1]] /\ emit'[j[1]] = "adding")
    BY <1>j
  <1>4. at[j] = "idle"
    BY <1>j, <1>2 DEF TypeInv, JobsOK
  <1>5. ~TakeJob(j) /\ ~JobReturns(j) /\ ~JobThrows(j) /\ ~JobStalls(j)
    BY <1>2 DEF TakeJob, JobReturns, JobThrows, JobStalls
  <1>6. Stalled(job[j]) = job[j]
    BY <1>2 DEF Stalled
  <1>7. job'[j] = job[j]
    BY <1>j, <1>3, <1>5, <1>6, JobStep
  <1> QED BY <1>2, <1>7

(* What a step does to the delivery of id.                                 *)
LEMMA DeliveryStep ==
    ASSUME TypeInv, [Next]_vars, NEW id \in Ids
    PROVE  \/ Post(id) \/ Save(id) \/ SaveFails(id) \/ Crash
           \/ /\ rows'[id] = rows[id] /\ success'[id] = success[id] /\ posts'[id] = posts[id]
              /\ (id \in heard' <=> id \in heard)
              /\ (id \in trouble' <=> id \in trouble) \/ (id \in Jobs /\ JobStalls(id))
              /\ \/ at'[id] = at[id]
                 \/ /\ at'[id] = "post" /\ at[id] = "idle"
                    /\ \/ id \in Jobs /\ TakeJob(id)
                       \/ id \in Reqs /\ FindWebhook(id)
                 \/ /\ at'[id] = "idle"
                    /\ \/ id \in Jobs /\ (JobReturns(id) \/ JobThrows(id) \/ JobStalls(id))
                       \/ id \in Reqs /\ TestReturns(id)
  <1> USE DEF TypeInv, Types
  <1> DEFINE Same == /\ rows'[id] = rows[id] /\ success'[id] = success[id]
                     /\ posts'[id] = posts[id]
                     /\ (id \in heard' <=> id \in heard)
                     /\ \/ id \in trouble' <=> id \in trouble
                        \/ id \in Jobs /\ JobStalls(id)
  <1>1. ASSUME NEW x \in Ids, Deliver(x), x # id PROVE Same /\ at'[id] = at[id]
    BY <1>1 DEF Deliver, Post, Save, SaveFails
  <1>2. ASSUME NEW j \in Jobs, TakeJob(j) \/ JobReturns(j) \/ JobThrows(j) \/ JobStalls(j)
        PROVE  /\ Same /\ (j # id => at'[id] = at[id])
               /\ j = id => at'[id] = IF TakeJob(j) THEN "post" ELSE "idle"
    <2>1. j \in Ids
      BY JobFields
    <2> QED BY <1>2, <2>1 DEF TakeJob, JobReturns, JobThrows, JobStalls
  <1>3. ASSUME NEW j \in Jobs, TakeJob(j) PROVE at[j] = "idle"
    BY <1>3 DEF TakeJob, JobsOK
  <1>4. ASSUME NEW r \in Reqs, FindWebhook(r)
        PROVE  /\ Same /\ (r # id => at'[id] = at[id])
               /\ r = id => at'[id] = at[id] \/ (at'[id] = "post" /\ at[id] = "idle")
    BY <1>4, CallFields DEF FindWebhook, TestsOK
  <1>5. ASSUME NEW r \in Reqs, TestReturns(r)
        PROVE  Same /\ (r # id => at'[id] = at[id]) /\ (r = id => at'[id] = "idle")
    BY <1>5, CallFields DEF TestReturns
  <1>6. ASSUME NEW r \in Reqs, CreateWebhook(r) \/ DeleteWebhook(r)
        PROVE  Same /\ at'[id] = at[id]
    BY <1>6 DEF CreateWebhook, DeleteWebhook
  <1>7. ASSUME NEW e \in Events, Emit(e)
        PROVE  Same /\ at'[id] = at[id]
    BY <1>7 DEF Emit, FindTargets, AddJob, AddFails, EmitReturns
  <1>8. CASE UNCHANGED vars
    BY <1>8 DEF vars
  <1>9. CASE Worker
    <2>1. PICK j \in Jobs :
            TakeJob(j) \/ Deliver(j) \/ JobReturns(j) \/ JobThrows(j) \/ JobStalls(j)
      BY <1>9 DEF Worker
    <2>2. CASE Deliver(j)
      <3>1. j \in Ids
        BY JobFields
      <3> QED BY <2>2, <3>1, <1>1 DEF Deliver
    <2>3. CASE TakeJob(j) \/ JobReturns(j) \/ JobThrows(j) \/ JobStalls(j)
      <3> HIDE DEF Same
      <3>1. Same /\ (j # id => at'[id] = at[id])
        BY <2>3, <1>2
      <3>2. CASE j = id
        BY <2>3, <3>1, <3>2, <1>2, <1>3 DEF Same
      <3> QED BY <3>1, <3>2 DEF Same
    <2> QED BY <2>1, <2>2, <2>3
  <1>10. CASE \E r \in Reqs : CreateWebhook(r) \/ Handle(r)
    <2>1. PICK r \in Reqs : CreateWebhook(r) \/ Handle(r)
      BY <1>10
    <2>2. r \in Ids
      BY DEF Ids
    <2> QED BY <2>1, <2>2, <1>1, <1>4, <1>5, <1>6 DEF Handle, Deliver
  <1> QED BY <1>7, <1>8, <1>9, <1>10 DEF Next

(* Every step keeps the types of the variables.                            *)
LEMMA TypesNext == TypeInv /\ [Next]_vars => Types'
  <1> SUFFICES ASSUME TypeInv, [Next]_vars PROVE Types'
    OBVIOUS
  <1> USE DEF TypeInv, Types
  <1>j. job' \in [Jobs -> JobRow]
    <2>1. DOMAIN job' = Jobs /\ job' = [j \in Jobs |-> job'[j]]
      <3>1. CASE Worker
        BY <3>1 DEF Worker, Deliver, Post, Save, SaveFails, TakeJob,
           JobReturns, JobThrows, JobStalls
      <3>2. CASE \E r \in Reqs : CreateWebhook(r) \/ Handle(r)
        BY <3>2 DEF Handle, Deliver, CreateWebhook, FindWebhook, DeleteWebhook, TestReturns,
                    Post, Save, SaveFails
      <3>3. CASE \E e \in Events : Emit(e)
        BY <3>3 DEF Emit, FindTargets, AddJob, AddFails, EmitReturns
      <3>4. CASE Crash \/ UNCHANGED vars
        BY <3>4 DEF Crash, vars
      <3> QED BY <3>1, <3>2, <3>3, <3>4 DEF Next
    <2> QED BY <2>1, JobTypeNext
  <1>1. ASSUME NEW id \in Ids, Deliver(id) PROVE Types'
    <2>1. CASE Post(id)
      BY <1>j, <2>1 DEF Post
    <2>2. CASE Save(id)
      <3>1. Attempts(id) \in 0..MaxAttempts
        BY <2>2, AttemptsBound, WebhooksAssumption DEF Save
      <3>2. [success |-> success[id], attempts |-> Attempts(id)] \in DeliveryRow
        BY <3>1 DEF DeliveryRow
      <3> QED BY <1>j, <2>2, <3>2 DEF Save
    <2>3. CASE SaveFails(id)
      BY <1>j, <2>3 DEF SaveFails
    <2> QED BY <1>1, <2>1, <2>2, <2>3 DEF Deliver
  <1>2. ASSUME NEW j \in Jobs, TakeJob(j) \/ JobReturns(j) \/ JobThrows(j) \/ JobStalls(j)
        PROVE  Types'
    <2>1. CASE TakeJob(j)
      BY <2>1, <1>j DEF TakeJob
    <2>2. CASE JobReturns(j) \/ JobThrows(j)
      BY <2>2, <1>j DEF JobReturns, JobThrows
    <2>3. CASE JobStalls(j)
      <3>1. crashes' \in 0..MaxCrashes /\ trouble' \in SUBSET Ids
        BY <2>3, JobFields, WebhooksAssumption DEF JobStalls
      <3> QED BY <2>3, <3>1, <1>j DEF JobStalls
    <2> QED BY <1>2, <2>1, <2>2, <2>3
  <1>3. ASSUME NEW r \in Reqs,
               CreateWebhook(r) \/ FindWebhook(r) \/ DeleteWebhook(r) \/ TestReturns(r)
        PROVE  Types'
    <2>1. CASE CreateWebhook(r)
      BY <2>1, <1>j, CallFields DEF CreateWebhook
    <2>2. CASE FindWebhook(r)
      <3>1. pc' \in [Reqs -> {"new", "delete", "test", "ok", "failed", "notFound", "forbidden"}]
        BY <2>2, CallFields DEF FindWebhook
      <3>2. at' \in [Ids -> {"idle", "post", "save", "done", "threw"}]
        BY <2>2 DEF FindWebhook
      <3> QED BY <2>2, <1>j, <3>1, <3>2 DEF FindWebhook
    <2>3. CASE DeleteWebhook(r)
      BY <2>3, <1>j DEF DeleteWebhook
    <2>4. CASE TestReturns(r)
      BY <2>4, <1>j DEF TestReturns
    <2> QED BY <1>3, <2>1, <2>2, <2>3, <2>4
  <1>4. ASSUME NEW e \in Events, Emit(e) PROVE Types'
    <2>1. CASE FindTargets(e)
      BY <2>1, <1>j DEF FindTargets
    <2>2. CASE AddJob(e)
      BY <2>2, <1>j DEF AddJob
    <2>3. CASE AddFails(e) \/ EmitReturns(e)
      BY <2>3, <1>j DEF AddFails, EmitReturns
    <2> QED BY <1>4, <2>1, <2>2, <2>3 DEF Emit
  <1>5. CASE Crash
    BY <1>5, <1>j, WebhooksAssumption DEF Crash
  <1>6. CASE UNCHANGED vars
    BY <1>6 DEF vars
  <1>7. CASE Worker
    <2>1. PICK j \in Jobs :
            TakeJob(j) \/ Deliver(j) \/ JobReturns(j) \/ JobThrows(j) \/ JobStalls(j)
      BY <1>7 DEF Worker
    <2> QED BY <2>1, <1>1, <1>2, JobFields
  <1>8. CASE \E r \in Reqs : CreateWebhook(r) \/ Handle(r)
    <2>1. PICK r \in Reqs : CreateWebhook(r) \/ Handle(r)
      BY <1>8
    <2> QED BY <2>1, <1>1, <1>3, CallFields DEF Handle
  <1> QED BY <1>4, <1>5, <1>6, <1>7, <1>8 DEF Next

(* What answers a request, or takes it on.                                 *)
LEMMA PcStep ==
    ASSUME TypeInv, [Next]_vars, NEW r \in Reqs, pc'[r] # pc[r]
    PROVE  \/ CreateWebhook(r) \/ FindWebhook(r) \/ DeleteWebhook(r) \/ TestReturns(r)
           \/ Crash /\ pc'[r] = "failed"
  <1> USE DEF TypeInv, Types
  <1>1. ~Worker
    BY DEF Worker, Deliver, Post, Save, SaveFails, TakeJob,
       JobReturns, JobThrows, JobStalls
  <1>2. ~\E e \in Events : Emit(e)
    BY DEF Emit, FindTargets, AddJob, AddFails, EmitReturns
  <1>3. ASSUME NEW q \in Reqs, Deliver(q) PROVE FALSE
    BY <1>3 DEF Deliver, Post, Save, SaveFails
  <1>4. ASSUME NEW q \in Reqs, q # r,
               CreateWebhook(q) \/ FindWebhook(q) \/ DeleteWebhook(q) \/ TestReturns(q)
        PROVE  FALSE
    BY <1>4 DEF CreateWebhook, FindWebhook, DeleteWebhook, TestReturns
  <1>5. CASE Crash
    BY <1>5 DEF Crash
  <1>6. CASE UNCHANGED vars
    BY <1>6 DEF vars
  <1> QED BY <1>1, <1>2, <1>3, <1>4, <1>5, <1>6 DEF Next, Handle

(* What requests ask for never changes.                                    *)
LEMMA CallStays == [Next]_vars => call' = call
  BY DEF Next, Worker, Deliver, Post, Save, SaveFails, TakeJob, JobReturns, JobThrows, JobStalls,
     Handle, CreateWebhook, FindWebhook, DeleteWebhook, TestReturns, Emit, FindTargets, AddJob,
     AddFails, EmitReturns, Crash, vars

(* Every step leaves the deliveries of requests to their tests.            *)
LEMMA TestsNext == TypeInv /\ [Next]_vars => TestsOK'
  <1> SUFFICES ASSUME TypeInv, [Next]_vars, NEW r \in Reqs
               PROVE  /\ at'[r] # "idle" => pc'[r] = "test" /\ call'[r].op = "test"
                      /\ pc'[r] = "delete" => call'[r].op = "delete"
    BY DEF TestsOK
  <1>c. r \in Ids /\ r \notin Jobs /\ call' = call
    BY CallStays, CallFields
  <1>d. ASSUME pc'[r] = "delete" PROVE call'[r].op = "delete"
    <2>1. CASE pc[r] = "delete"
      BY <1>c, <2>1 DEF TypeInv, TestsOK
    <2>2. CASE pc[r] # "delete"
      <3>1. FindWebhook(r)
        BY <1>d, <2>2, PcStep DEF CreateWebhook, DeleteWebhook, TestReturns, TypeInv, Types
      <3> QED BY <1>c, <1>d, <3>1 DEF FindWebhook, TypeInv, Types
    <2> QED BY <2>1, <2>2
  <1> SUFFICES ASSUME at'[r] # "idle" PROVE pc'[r] = "test" /\ call'[r].op = "test"
    BY <1>d
  <1>1. CASE FindWebhook(r) /\ at'[r] = "post" /\ at[r] = "idle"
    BY <1>1, <1>c, CallFields DEF FindWebhook, TypeInv, Types
  <1>2. CASE at[r] # "idle"
    <2>1. pc[r] = "test" /\ call[r].op = "test"
      BY <1>2 DEF TypeInv, TestsOK
    <2>2. pc'[r] = pc[r]
      <3>1. ~CreateWebhook(r) /\ ~FindWebhook(r) /\ ~DeleteWebhook(r)
        BY <2>1 DEF CreateWebhook, FindWebhook, DeleteWebhook
      <3>2. ~TestReturns(r) /\ ~Crash
        BY <1>c DEF TestReturns, Crash, TypeInv, Types
      <3> QED BY <3>1, <3>2, PcStep
    <2> QED BY <1>c, <2>1, <2>2
  <1>3. CASE at[r] = "idle" /\ ~(FindWebhook(r) /\ at'[r] = "post")
    BY <1>3, <1>c, DeliveryStep DEF Post, Save, SaveFails, Crash, TakeJob, TypeInv, Types
  <1> QED BY <1>1, <1>2, <1>3

(* Every step keeps all of it.                                             *)
LEMMA TypeNext == TypeInv /\ [Next]_vars => TypeInv'
  BY TypesNext, JobsNext, TodoNext, TestsNext DEF TypeInv

-----------------------------------------------------------------------------
(* What deliverWebhook has in `success` and saves is what the endpoint     *)
(* said.                                                                   *)
HeardInv == \A id \in Ids : success[id] \/ rows[id].success => id \in heard

(* Every step keeps that.                                                  *)
LEMMA HeardNext == TypeInv /\ HeardInv /\ [Next]_vars => HeardInv'
  <1> SUFFICES ASSUME TypeInv, HeardInv, [Next]_vars, NEW id \in Ids
               PROVE  success'[id] \/ rows'[id].success => id \in heard'
    BY DEF HeardInv
  <1> USE DEF TypeInv, Types, HeardInv
  <1>1. CASE Post(id)
    BY <1>1 DEF Post
  <1>2. CASE Save(id)
    <2>1. /\ rows'[id] = [success |-> success[id], attempts |-> Attempts(id)]
          /\ success'[id] = FALSE /\ heard' = heard
      BY <1>2 DEF Save
    <2>2. rows'[id].success = success[id]
      BY <2>1
    <2> QED BY <2>1, <2>2
  <1>3. CASE SaveFails(id)
    BY <1>3 DEF SaveFails
  <1>4. CASE Crash
    BY <1>4 DEF Crash
  <1>5. CASE rows'[id] = rows[id] /\ success'[id] = success[id] /\ (id \in heard' <=> id \in heard)
    BY <1>5
  <1> QED BY <1>1, <1>2, <1>3, <1>4, <1>5, DeliveryStep

(* A delivery recorded as a success was taken in by the endpoint, however  *)
(* many attempts, stalls and lost answers it took (deliverWebhook).        *)
THEOREM SuccessesAreHeard == Spec => []SuccessIsHeard
  <1>1. Init => TypeInv /\ HeardInv
    <2> SUFFICES ASSUME Init PROVE HeardInv
      BY TypeInit
    <2> QED BY DEF Init, HeardInv, NoRow
  <1>2. TypeInv /\ HeardInv /\ [Next]_vars => (TypeInv /\ HeardInv)'
    BY TypeNext, HeardNext
  <1>3. HeardInv => SuccessIsHeard
    BY DEF HeardInv, SuccessIsHeard
  <1> QED BY <1>1, <1>2, <1>3, PTL DEF Spec

-----------------------------------------------------------------------------
(* The foreign key of WebhookDelivery, and what a delivery that has saved  *)
(* its row, a job that completed and a test that answered have left.       *)
RowsInv ==
    /\ \A id \in Ids : HasRow(id) => owner[HookOf(id)] # Nobody
    /\ \A id \in Ids : at[id] = "done" => rows[id].attempts = Attempts(id)
    /\ \A j \in Jobs : job[j].state = "completed" => rows[j].attempts = job[j].attemptsMade + 1
    /\ \A r \in Reqs : pc[r] = "ok" /\ call[r].op = "test" => HasRow(r)

(* What a step does to the owner of a webhook.                             *)
LEMMA OwnerStep ==
    ASSUME TypeInv, [Next]_vars, NEW h \in Hooks
    PROVE  \/ owner'[h] = owner[h]
           \/ owner'[h] # Nobody
           \/ (\A id \in Ids : HookOf(id) = h => ~HasRow(id)) /\ rows' = rows
  <1> USE DEF TypeInv, Types
  <1>1. CASE \E r \in Reqs : CreateWebhook(r)
    BY <1>1, CallFields, WebhooksAssumption DEF CreateWebhook
  <1>2. CASE \E r \in Reqs : DeleteWebhook(r)
    BY <1>2 DEF DeleteWebhook
  <1>3. CASE owner' = owner
    BY <1>3
  <1>4. CASE \E r \in Reqs : FindWebhook(r) \/ Deliver(r) \/ TestReturns(r)
    BY <1>3, <1>4 DEF FindWebhook, Deliver, Post, Save, SaveFails, TestReturns
  <1>5. CASE Worker
    BY <1>3, <1>5 DEF Worker, Deliver, Post, Save, SaveFails, TakeJob,
       JobReturns, JobThrows, JobStalls
  <1>6. CASE \E e \in Events : Emit(e)
    BY <1>3, <1>6 DEF Emit, FindTargets, AddJob, AddFails, EmitReturns
  <1>7. CASE Crash \/ UNCHANGED vars
    BY <1>3, <1>7 DEF Crash, vars
  <1> QED BY <1>1, <1>2, <1>4, <1>5, <1>6, <1>7 DEF Next, Handle

(* The row of a delivery changes only as it is saved.                      *)
LEMMA RowStep ==
    ASSUME TypeInv, [Next]_vars, NEW id \in Ids, rows'[id] # rows[id]
    PROVE  Save(id) /\ rows'[id].attempts = Attempts(id)
  <1>1. Save(id)
    BY DeliveryStep DEF Post, SaveFails, Crash
  <1>2. rows'[id] = [success |-> success[id], attempts |-> Attempts(id)]
    BY <1>1 DEF Save, TypeInv, Types
  <1> QED BY <1>1, <1>2

(* Every step keeps the rows and their webhooks.                           *)
LEMMA RowsNext == TypeInv /\ RowsInv /\ [Next]_vars => RowsInv'
  <1> SUFFICES ASSUME TypeInv, RowsInv, [Next]_vars PROVE RowsInv'
    OBVIOUS
  <1>h. \A id \in Ids : HookOf(id)' = HookOf(id) /\ HookOf(id) \in Hooks
    BY CallStays, HookOfType DEF HookOf
  \* a row stays: it is overwritten by a later attempt, never removed
  <1>r. \A id \in Ids : HasRow(id) => HasRow(id)'
    <2> SUFFICES ASSUME NEW id \in Ids, HasRow(id), rows'[id] # rows[id] PROVE HasRow(id)'
      BY DEF HasRow
    <2>1. Attempts(id) \in 1..MaxAttempts /\ rows'[id].attempts = Attempts(id)
      BY RowStep, AttemptsBound DEF Save
    <2> QED BY <2>1, WebhooksAssumption DEF HasRow
  <1>1. ASSUME NEW id \in Ids, HasRow(id)' PROVE owner'[HookOf(id)] # Nobody
    <2>1. owner[HookOf(id)] # Nobody
      <3>1. CASE HasRow(id)
        BY <3>1 DEF RowsInv
      <3>2. CASE ~HasRow(id)
        BY <1>1, <3>2, RowStep DEF HasRow, Save
      <3> QED BY <3>1, <3>2
    <2>2. CASE (\A x \in Ids : HookOf(x) = HookOf(id) => ~HasRow(x)) /\ rows' = rows
      BY <1>1, <2>2 DEF HasRow
    <2> QED BY <1>h, <2>1, <2>2, OwnerStep
  <1>2. ASSUME NEW id \in Ids, at'[id] = "done" PROVE rows'[id].attempts = Attempts(id)'
    <2>1. Attempts(id)' = Attempts(id)
      <3>1. CASE id \in Reqs
        BY <3>1 DEF Attempts
      <3>2. CASE id \in Jobs
        <4>1. job'[id] = job[id] \/ job'[id] = [job[id] EXCEPT !.state = "waiting"]
          BY <1>2, <3>2, JobStep
        <4>2. job[id] \in JobRow
          BY <3>2 DEF TypeInv, Types
        <4>3. job'[id].attemptsMade = job[id].attemptsMade
          BY <4>1, <4>2 DEF JobRow
        <4> QED BY <3>2, <4>3, JobFields DEF Attempts
      <3> QED BY <3>1, <3>2 DEF Ids
    <2>2. CASE Save(id)
      BY <2>1, <2>2 DEF Save, TypeInv, Types
    <2>3. CASE ~Save(id)
      <3>1. rows'[id] = rows[id]
        BY <2>3, RowStep
      <3>2. at[id] = "done"
        BY <1>2, <2>3, DeliveryStep DEF Post, SaveFails, Crash, TypeInv, Types
      <3> QED BY <2>1, <3>1, <3>2 DEF RowsInv
    <2> QED BY <2>2, <2>3
  <1>3. ASSUME NEW j \in Jobs, job'[j].state = "completed"
        PROVE  rows'[j].attempts = job'[j].attemptsMade + 1
    <2>j. j \in Ids /\ j \notin Reqs /\ job[j] \in JobRow
      BY JobFields DEF TypeInv, Types
    <2>1. CASE job[j].state = "completed"
      <3>1. at[j] = "idle" /\ rows[j].attempts = job[j].attemptsMade + 1
        BY <2>1, <2>j DEF TypeInv, JobsOK, RowsInv
      <3>2. rows'[j] = rows[j]
        BY <2>j, <3>1, RowStep DEF Save
      <3>3. job'[j].attemptsMade = job[j].attemptsMade
        BY <2>1, <2>j, JobStep DEF TakeJob, JobThrows, Stalled, JobRow
      <3> QED BY <3>1, <3>2, <3>3
    <2>2. CASE job[j].state # "completed"
      <3>1. JobReturns(j) /\ job'[j] = [job[j] EXCEPT !.state = "completed"]
        <4>1. ~(job'[j] = [job[j] EXCEPT !.state = "waiting"])
          BY <1>3, <2>j DEF JobRow
        <4>2. ~(job'[j] = [job[j] EXCEPT !.state = "active"])
          BY <1>3, <2>j DEF JobRow
        <4>3. ~(job'[j] = Stalled(job[j]))
          BY <1>3, <2>2, <2>j DEF JobRow, Stalled
        <4>4. ~(job'[j] = [job[j] EXCEPT
                  !.state = IF job[j].attemptsMade + 1 < MaxAttempts THEN "waiting" ELSE "failed",
                  !.attemptsMade = job[j].attemptsMade + 1])
          BY <1>3, <2>j DEF JobRow
        <4> QED BY <1>3, <2>2, <4>1, <4>2, <4>3, <4>4, JobStep
      <3>2. at[j] = "done" /\ rows' = rows
        BY <3>1 DEF JobReturns
      <3>3. rows[j].attempts = job[j].attemptsMade + 1
        BY <2>j, <3>2 DEF RowsInv, Attempts
      <3>4. job'[j].attemptsMade = job[j].attemptsMade
        BY <3>1, <2>j DEF JobRow
      <3> QED BY <3>2, <3>3, <3>4
    <2> QED BY <2>1, <2>2
  <1>4. ASSUME NEW r \in Reqs, pc'[r] = "ok", call'[r].op = "test" PROVE HasRow(r)'
    <2>1. call[r].op = "test" /\ r \in Ids
      BY <1>4, CallStays, CallFields
    <2>2. CASE pc[r] = "ok"
      BY <2>1, <2>2, <1>r DEF RowsInv
    <2>3. CASE pc[r] # "ok"
      <3>1. TestReturns(r) /\ at[r] = "done"
        <4>1. pc'[r] # pc[r]
          BY <1>4, <2>3
        <4>2. ~CreateWebhook(r) /\ ~FindWebhook(r) /\ ~DeleteWebhook(r)
          BY <1>4, <2>1, <2>3 DEF CreateWebhook, FindWebhook, DeleteWebhook, TypeInv, Types, TestsOK
        <4>3. TestReturns(r)
          BY <1>4, <4>1, <4>2, PcStep
        <4> QED BY <1>4, <4>3 DEF TestReturns, TypeInv, Types
      <3>2. rows[r].attempts = Attempts(r) /\ Attempts(r) \in 1..MaxAttempts
        BY <2>1, <3>1, AttemptsBound DEF RowsInv
      <3> QED BY <2>1, <3>2, <1>r, WebhooksAssumption DEF HasRow
    <2> QED BY <2>2, <2>3
  <1> QED BY <1>h, <1>1, <1>2, <1>3, <1>4 DEF RowsInv

LEMMA RowsInit == Init => RowsInv
  <1> SUFFICES ASSUME Init PROVE RowsInv
    OBVIOUS
  <1>1. \A id \in Ids : rows[id].attempts = 0 /\ at[id] = "idle"
    BY DEF Init, NoRow
  <1> QED BY <1>1, JobFields DEF Init, RowsInv, NoJob, HasRow

LEMMA RowsRecorded == TypeInv /\ RowsInv => CompletedIsRecorded
  <1> SUFFICES ASSUME TypeInv, RowsInv PROVE CompletedIsRecorded
    OBVIOUS
  <1>1. ASSUME NEW j \in Jobs, job[j].state = "completed"
        PROVE  rows[j].attempts = job[j].attemptsMade + 1 /\ owner[j[2]] # Nobody
    <2>1. rows[j].attempts = job[j].attemptsMade + 1
      BY <1>1 DEF RowsInv
    <2>2. job[j].attemptsMade \in Nat /\ HookOf(j) = j[2] /\ j \in Ids
      BY JobFields DEF TypeInv, Types, JobRow, HookOf
    <2> QED BY <2>1, <2>2 DEF RowsInv, HasRow
  <1>2. ASSUME NEW r \in Reqs, pc[r] = "ok", call[r].op = "test"
        PROVE  HasRow(r) /\ owner[call[r].hook] # Nobody
    BY <1>2, CallFields DEF RowsInv, HookOf
  <1> QED BY <1>1, <1>2 DEF CompletedIsRecorded

-----------------------------------------------------------------------------
(* Whom an event reaches.  What emitEvent still has to queue, and what it  *)
(* has queued, are webhooks of its developer or such as were deleted       *)
(* since; what was there at the start is one or the other until the call   *)
(* returns.  A webhook whose request has not run belongs to nobody.        *)
Queued(e, h) == job[<<e, h>>].state # "none"

Targeted(e, h) == h \in todo[e] \/ Queued(e, h)

NotYet(h) == h \in Reqs /\ pc[h] = "new"

ReachInv ==
    /\ \A h \in Hooks : NotYet(h) => owner[h] = Nobody
    /\ \A e \in Events, h \in Hooks :
         /\ Targeted(e, h) => owner[h] \in {EventDev[e], Nobody} /\ ~NotYet(h)
         /\ h \in DOMAIN Registered /\ owner[h] = EventDev[e] =>
              /\ emit[e] = "adding" => Targeted(e, h)
              /\ emit[e] = "ok" => Queued(e, h)

(* A webhook is created by its own request, deleted, or as it was.         *)
LEMMA HookStep ==
    ASSUME TypeInv, [Next]_vars, NEW h \in Hooks
    PROVE  /\ owner'[h] \in {owner[h], Nobody} \/ NotYet(h)
           /\ NotYet(h)' => NotYet(h) /\ owner'[h] \in {owner[h], Nobody}
  <1> USE DEF TypeInv, Types, NotYet
  <1>1. ASSUME NEW r \in Reqs, CreateWebhook(r)
        PROVE  /\ owner'[h] = owner[h] \/ h = r
               /\ pc[r] = "new" /\ pc'[r] # "new" /\ \A q \in Reqs : q # r => pc'[q] = pc[q]
    BY <1>1, CallFields DEF CreateWebhook
  <1>2. CASE \E r \in Reqs : CreateWebhook(r)
    BY <1>1, <1>2
  <1>3. ASSUME NEW r \in Reqs, DeleteWebhook(r)
        PROVE  owner'[h] \in {owner[h], Nobody}
    BY <1>3 DEF DeleteWebhook
  <1>4. CASE ~\E r \in Reqs : CreateWebhook(r)
    <2>1. owner'[h] \in {owner[h], Nobody}
      <3>1. CASE \E r \in Reqs : FindWebhook(r) \/ Deliver(r) \/ TestReturns(r)
        BY <3>1 DEF FindWebhook, Deliver, Post, Save, SaveFails, TestReturns
      <3>2. CASE Worker
        BY <3>2 DEF Worker, Deliver, Post, Save, SaveFails, TakeJob,
           JobReturns, JobThrows, JobStalls
      <3>3. CASE \E e \in Events : Emit(e)
        BY <3>3 DEF Emit, FindTargets, AddJob, AddFails, EmitReturns
      <3>4. CASE Crash \/ UNCHANGED vars
        BY <3>4 DEF Crash, vars
      <3> QED BY <1>3, <1>4, <3>1, <3>2, <3>3, <3>4 DEF Next, Handle
    <2>2. ASSUME NEW r \in Reqs, pc'[r] = "new" PROVE pc[r] = "new"
      <3>1. CASE pc'[r] # pc[r]
        BY <1>4, <2>2, <3>1, PcStep DEF FindWebhook, DeleteWebhook, TestReturns, TestsOK,
           CallType
      <3> QED BY <2>2, <3>1
    <2> QED BY <2>1, <2>2
  <1> QED BY <1>2, <1>4

(* What a step does to the emitEvent e.                                    *)
LEMMA EmitStep ==
    ASSUME TypeInv, [Next]_vars, NEW e \in Events
    PROVE  \/ FindTargets(e)
           \/ \E h \in todo[e] : /\ emit[e] = "adding" /\ emit'[e] = "adding"
                                 /\ todo'[e] = todo[e] \ {h} /\ Queued(e, h)'
           \/ emit'[e] = "failed" /\ todo'[e] = {}
           \/ emit[e] = "adding" /\ emit'[e] = "ok" /\ todo[e] = {} /\ todo'[e] = {}
           \/ /\ emit'[e] = emit[e] /\ todo'[e] \subseteq todo[e]
              /\ emit[e] = "adding" => todo'[e] = todo[e]
  <1> USE DEF TypeInv, Types
  <1>1. CASE \E d \in Events : Emit(d)
    <2>1. PICK d \in Events : Emit(d)
      BY <1>1
    <2>2. CASE FindTargets(d)
      <3>1. CASE d = e
        BY <2>2, <3>1
      <3>2. CASE d # e
        <4>1. emit'[e] = emit[e] /\ todo'[e] = todo[e]
          BY <2>2, <3>2 DEF FindTargets
        <4> HIDE DEF TypeInv, Types
        <4> QED BY <4>1
      <3> QED BY <3>1, <3>2
    <2>3. CASE AddJob(d)
      <3>1. PICK h \in todo[d] : /\ emit[d] = "adding" /\ emit' = emit
                                 /\ job' = [job EXCEPT ![<<d, h>>].state = "waiting"]
                                 /\ todo' = [todo EXCEPT ![d] = @ \ {h}]
        BY <2>3 DEF AddJob
      <3>2. <<d, h>> \in Jobs /\ job[<<d, h>>] \in JobRow
        BY DEF Jobs
      <3>3. Queued(d, h)'
        BY <3>1, <3>2 DEF Queued, JobRow
      <3>4. CASE d = e
        <4>1. emit'[e] = "adding" /\ todo'[e] = todo[e] \ {h}
          BY <3>1, <3>4
        <4> QED BY <3>1, <3>3, <3>4, <4>1
      <3>5. CASE d # e
        <4>1. emit'[e] = emit[e] /\ todo'[e] = todo[e]
          BY <3>1, <3>5
        <4> QED BY <4>1
      <3> QED BY <3>4, <3>5
    <2>4. CASE AddFails(d)
      BY <2>4 DEF AddFails
    <2>5. CASE EmitReturns(d)
      BY <2>5 DEF EmitReturns
    <2> QED BY <2>1, <2>2, <2>3, <2>4, <2>5 DEF Emit
  <1>2. CASE Worker
    BY <1>2 DEF Worker, Deliver, Post, Save, SaveFails, TakeJob,
       JobReturns, JobThrows, JobStalls
  <1>3. CASE \E r \in Reqs : CreateWebhook(r) \/ Handle(r)
    BY <1>3 DEF Handle, Deliver, CreateWebhook, FindWebhook, DeleteWebhook, TestReturns,
       Post, Save, SaveFails
  <1>4. CASE Crash
    BY <1>4 DEF Crash
  <1>5. CASE UNCHANGED vars
    BY <1>5 DEF vars
  <1> QED BY <1>1, <1>2, <1>3, <1>4, <1>5 DEF Next

(* A job is queued off the list of its emitEvent, and stays in the queue's *)
(* books.                                                                  *)
LEMMA QueuedStep ==
    ASSUME TypeInv, [Next]_vars, NEW e \in Events, NEW h \in Hooks
    PROVE  /\ Queued(e, h) => Queued(e, h)'
           /\ Queued(e, h)' => Targeted(e, h)
  <1> DEFINE j == <<e, h>>
  <1>1. j \in Jobs /\ j[1] = e /\ j[2] = h /\ job[j] \in JobRow
    BY DEF Jobs, TypeInv, Types
  <1>2. CASE job[j].state = "none" /\ h \notin todo[e]
    <2>1. /\ ~TakeJob(j) /\ ~JobReturns(j) /\ ~JobThrows(j) /\ ~JobStalls(j)
          /\ Stalled(job[j]) = job[j]
      BY <1>2 DEF TakeJob, JobReturns, JobThrows, JobStalls, Stalled
    <2>2. job'[j] = job[j]
      BY <1>1, <1>2, <2>1, JobStep
    <2> QED BY <1>2, <2>2 DEF Queued
  <1>3. CASE job[j].state # "none"
    <2>1. job'[j].state # "none"
      BY <1>1, <1>3, JobStep DEF JobRow, Stalled
    <2> QED BY <1>3, <2>1 DEF Queued, Targeted
  <1> QED BY <1>2, <1>3 DEF Queued, Targeted

LEMMA ReachNext == TypeInv /\ ReachInv /\ [Next]_vars => ReachInv'
  <1> SUFFICES ASSUME TypeInv, ReachInv, [Next]_vars PROVE ReachInv'
    OBVIOUS
  <1>1. ASSUME NEW h \in Hooks, NotYet(h)' PROVE owner'[h] = Nobody
    BY <1>1, HookStep DEF ReachInv
  <1>2. ASSUME NEW e \in Events, NEW h \in Hooks, Targeted(e, h)'
        PROVE  owner'[h] \in {EventDev[e], Nobody} /\ ~NotYet(h)'
    <2>1. CASE Targeted(e, h)
      BY <2>1, HookStep DEF ReachInv
    <2>2. CASE ~Targeted(e, h)
      <3>1. h \in todo'[e] /\ h \notin todo[e]
        BY <1>2, <2>2, QueuedStep DEF Targeted
      <3>2. FindTargets(e)
        BY <3>1, EmitStep
      <3>3. todo'[e] = {g \in Hooks : owner[g] = EventDev[e]} /\ owner' = owner /\ pc' = pc
        BY <3>2 DEF FindTargets, TypeInv, Types
      <3>4. owner[h] = EventDev[e]
        BY <3>1, <3>3
      <3>5. EventDev[e] # Nobody
        BY WebhooksAssumption
      <3> QED BY <3>3, <3>4, <3>5 DEF ReachInv, NotYet
    <2> QED BY <2>1, <2>2
  <1>3. ASSUME NEW e \in Events, NEW h \in Hooks, h \in DOMAIN Registered,
               owner'[h] = EventDev[e]
        PROVE  /\ emit'[e] = "adding" => Targeted(e, h)'
               /\ emit'[e] = "ok" => Queued(e, h)'
    <2>1. owner[h] = EventDev[e]
      <3>1. h \notin Reqs /\ EventDev[e] # Nobody
        BY <1>3, WebhooksAssumption
      <3> QED BY <1>3, <3>1, HookStep DEF NotYet
    <2>2. /\ emit[e] = "adding" => Targeted(e, h)
          /\ emit[e] = "ok" => Queued(e, h)
      BY <1>3, <2>1 DEF ReachInv
    <2>3. Queued(e, h) => Queued(e, h)'
      BY QueuedStep
    <2>4. CASE FindTargets(e)
      <3>1. emit'[e] = "adding" /\ h \in todo'[e]
        BY <2>1, <2>4 DEF FindTargets, TypeInv, Types
      <3> QED BY <3>1 DEF Targeted
    <2>5. ASSUME NEW g \in todo[e], emit[e] = "adding", emit'[e] = "adding",
                 todo'[e] = todo[e] \ {g}, Queued(e, g)'
          PROVE  Targeted(e, h)'
      BY <2>2, <2>3, <2>5 DEF Targeted
    <2> QED BY <2>2, <2>3, <2>4, <2>5, EmitStep DEF Targeted
  <1> QED BY <1>1, <1>2, <1>3 DEF ReachInv

LEMMA ReachInit == Init => ReachInv
  <1> SUFFICES ASSUME Init PROVE ReachInv
    OBVIOUS
  <1>1. ASSUME NEW e \in Events, NEW h \in Hooks PROVE ~Targeted(e, h) /\ emit[e] = "new"
    <2>1. <<e, h>> \in Jobs
      BY DEF Jobs
    <2> QED BY <2>1 DEF Init, Targeted, Queued, NoJob
  <1>2. ASSUME NEW h \in Hooks, NotYet(h) PROVE owner[h] = Nobody
    BY <1>2, WebhooksAssumption DEF Init, NotYet
  <1> QED BY <1>1, <1>2 DEF ReachInv

(* A job that completed and a test that answered have left a row, with the *)
(* number of its attempt, and under the row its webhook, whatever deletes  *)
(* race with them; and an event is queued for its developer's webhooks     *)
(* only, and for all of them once emitEvent returns (deliverWebhook,       *)
(* deleteWebhook, emitEvent).                                              *)
THEOREM DeliveriesAreAccounted == Spec => []DeliveriesAccounted
  <1>1. Init => TypeInv /\ RowsInv /\ ReachInv
    BY TypeInit, RowsInit, ReachInit
  <1>2. TypeInv /\ RowsInv /\ ReachInv /\ [Next]_vars => (TypeInv /\ RowsInv /\ ReachInv)'
    BY TypeNext, RowsNext, ReachNext
  <1>3. ReachInv => EventsReachHooks
    BY DEF ReachInv, EventsReachHooks, Targeted, Queued
  <1>4. TypeInv /\ RowsInv /\ ReachInv => DeliveriesAccounted
    BY <1>3, RowsRecorded DEF DeliveriesAccounted
  <1> QED BY <1>1, <1>2, <1>4, PTL DEF Spec

-----------------------------------------------------------------------------
(* The POSTs of a job: one for every attempt and every stall, and one for  *)
(* the attempt at work or the one that completed it.                       *)
Current(j) == IF at[j] \in Sent \/ job[j].state = "completed" THEN 1 ELSE 0

PostsInv ==
    /\ \A j \in Jobs :
        /\ posts[j] <= job[j].attemptsMade + job[j].stalls + Current(j)
        /\ posts[j] > 0 => \/ j \in trouble
                           \/ posts[j] = 1 /\ (at[j] \in {"save", "done"}
                                               \/ job[j].state = "completed")
    /\ \A r \in Reqs : posts[r] <= IF pc[r] = "new" \/ at[r] = "post" THEN 0 ELSE 1

(* Every step keeps the POSTs of a job within attempts and stalls.         *)
LEMMA JobPostsNext ==
    ASSUME TypeInv, PostsInv, [Next]_vars, NEW j \in Jobs
    PROVE  /\ posts'[j] <= job'[j].attemptsMade + job'[j].stalls + Current(j)'
           /\ posts'[j] > 0 => \/ j \in trouble'
                               \/ posts'[j] = 1 /\ (at'[j] \in {"save", "done"}
                                                    \/ job'[j].state = "completed")
  <1>t. /\ job[j] \in JobRow /\ j \in Ids /\ j \notin Reqs /\ posts[j] \in Nat
        /\ at[j] # "idle" <=> job[j].state = "active"
        /\ posts[j] <= job[j].attemptsMade + job[j].stalls + Current(j)
        /\ posts[j] > 0 => \/ j \in trouble
                           \/ posts[j] = 1 /\ (at[j] \in {"save", "done"}
                                               \/ job[j].state = "completed")
    BY JobFields DEF TypeInv, Types, JobsOK, PostsInv
  <1>n. job[j].attemptsMade \in Nat /\ job[j].stalls \in Nat
    BY <1>t, WebhooksAssumption DEF JobRow
  <1>1. CASE Post(j)
    <2>1. /\ at[j] = "post" /\ at'[j] = "save" /\ posts'[j] = posts[j] + 1
          /\ job' = job /\ trouble' = trouble
      BY <1>1, <1>t DEF Post, TypeInv, Types
    <2>2. job[j].state = "active"
      BY <1>t, <2>1
    <2> QED BY <1>t, <1>n, <2>1, <2>2 DEF Current, Sent
  <1>2. CASE Save(j) \/ SaveFails(j)
    <2>1. /\ at[j] = "save" /\ posts' = posts /\ job' = job
          /\ \/ at'[j] = "done" /\ trouble' = trouble
             \/ at'[j] = "threw" /\ j \in trouble'
      BY <1>2, <1>t DEF Save, SaveFails, TypeInv, Types
    <2> QED BY <1>t, <1>n, <2>1 DEF Current, Sent
  <1>3. CASE Crash \/ JobStalls(j)
    <2>1. /\ posts' = posts /\ job'[j] = Stalled(job[j]) /\ at'[j] = "idle"
          /\ trouble \subseteq trouble' /\ (at[j] # "idle" => j \in trouble')
      BY <1>3, <1>t DEF Crash, JobStalls, TypeInv, Types
    <2>2. CASE job[j].state = "active"
      <3>1. /\ job'[j].attemptsMade = job[j].attemptsMade
            /\ job'[j].stalls = job[j].stalls + 1
        BY <2>1, <2>2, <1>t DEF Stalled, JobRow
      <3>2. j \in trouble'
        BY <1>t, <2>1, <2>2
      <3> QED BY <1>t, <1>n, <2>1, <2>2, <3>1, <3>2 DEF Current
    <2>3. CASE job[j].state # "active"
      <3>1. job'[j] = job[j] /\ at[j] = "idle"
        BY <1>t, <2>1, <2>3 DEF Stalled
      <3> QED BY <1>t, <2>1, <3>1 DEF Current, Sent
    <2> QED BY <2>2, <2>3
  <1>4. CASE ~Post(j) /\ ~Save(j) /\ ~SaveFails(j) /\ ~Crash /\ ~JobStalls(j)
    <2>1. posts'[j] = posts[j] /\ (j \in trouble' <=> j \in trouble)
      BY <1>t, <1>4, DeliveryStep
    <2>2. CASE JobReturns(j)
      <3>1. /\ at[j] = "done" /\ job'[j].state = "completed"
            /\ job'[j].attemptsMade = job[j].attemptsMade /\ job'[j].stalls = job[j].stalls
        BY <1>t, <2>2 DEF JobReturns, TypeInv, Types, JobRow
      <3> QED BY <1>t, <1>n, <2>1, <3>1 DEF Current, Sent
    <2>3. CASE JobThrows(j)
      <3>1. job'[j] = [job[j] EXCEPT
               !.state = IF job[j].attemptsMade + 1 < MaxAttempts THEN "waiting" ELSE "failed",
               !.attemptsMade = job[j].attemptsMade + 1]
        BY <2>3 DEF JobThrows, TypeInv, Types
      <3>2. /\ at[j] = "threw" /\ at'[j] = "idle" /\ job[j].state = "active"
            /\ job'[j].attemptsMade = job[j].attemptsMade + 1 /\ job'[j].stalls = job[j].stalls
            /\ job'[j].state # "completed"
        BY <1>t, <2>3, <3>1 DEF JobThrows, TypeInv, Types, JobRow
      <3> QED BY <1>t, <1>n, <2>1, <3>2 DEF Current, Sent
    <2>4. CASE TakeJob(j)
      <3>1. /\ job[j].state = "waiting" /\ job'[j].state = "active" /\ at'[j] = "post"
            /\ job'[j].attemptsMade = job[j].attemptsMade /\ job'[j].stalls = job[j].stalls
        BY <1>t, <2>4 DEF TakeJob, TypeInv, Types, JobRow
      <3> QED BY <1>t, <1>n, <2>1, <3>1 DEF Current, Sent
    <2>5. CASE ~JobReturns(j) /\ ~JobThrows(j) /\ ~JobStalls(j) /\ ~TakeJob(j)
      <3>1. at'[j] = at[j]
        BY <1>t, <1>4, <2>5, DeliveryStep
      <3>2. CASE job'[j] = job[j]
        BY <1>t, <2>1, <3>1, <3>2 DEF Current
      <3>3. CASE /\ job'[j] = [job[j] EXCEPT !.state = "waiting"]
                 /\ j[2] \in todo[j[1]]
        <4>1. job[j].state = "none"
          BY <3>3, JobFields DEF TypeInv, TodoOK
        <4>2. /\ job'[j].state = "waiting"
              /\ job'[j].attemptsMade = job[j].attemptsMade /\ job'[j].stalls = job[j].stalls
          BY <1>t, <3>3 DEF JobRow
        <4> QED BY <1>t, <1>n, <2>1, <3>1, <4>1, <4>2 DEF Current, Sent
      <3> QED BY <1>4, <2>5, <3>2, <3>3, JobStep
    <2> QED BY <1>4, <2>2, <2>3, <2>4, <2>5
  <1> QED BY <1>1, <1>2, <1>3, <1>4

(* Every step keeps a test to its one POST.                                *)
LEMMA TestPostsNext ==
    ASSUME TypeInv, PostsInv, [Next]_vars, NEW r \in Reqs
    PROVE  posts'[r] <= IF pc'[r] = "new" \/ at'[r] = "post" THEN 0 ELSE 1
  <1>t. /\ r \in Ids /\ r \notin Jobs /\ posts[r] \in Nat
        /\ posts[r] <= IF pc[r] = "new" \/ at[r] = "post" THEN 0 ELSE 1
        /\ at[r] # "idle" => pc[r] = "test"
    BY CallFields DEF TypeInv, Types, TestsOK, PostsInv
  <1>1. pc'[r] = "new" => pc[r] = "new"
    BY PcStep, CallFields DEF CreateWebhook, FindWebhook, DeleteWebhook, TestReturns, TypeInv, Types
  <1>2. CASE Post(r)
    BY <1>t, <1>1, <1>2 DEF Post, TypeInv, Types
  <1>3. CASE Save(r) \/ SaveFails(r) \/ Crash
    BY <1>t, <1>1, <1>3 DEF Save, SaveFails, Crash, TypeInv, Types
  <1>4. CASE posts'[r] = posts[r] /\ (at'[r] = at[r] \/ at'[r] = "idle")
    BY <1>t, <1>1, <1>4
  <1>5. CASE posts'[r] = posts[r] /\ FindWebhook(r)
    BY <1>t, <1>5 DEF FindWebhook
  <1> QED BY <1>t, <1>2, <1>3, <1>4, <1>5, DeliveryStep

(* Every step keeps the count of POSTs.                                    *)
LEMMA PostsNext == TypeInv /\ PostsInv /\ [Next]_vars => PostsInv'
  BY JobPostsNext, TestPostsNext DEF PostsInv, Current

(* At the start nothing was sent.                                          *)
LEMMA PostsInit == Init => TypeInv /\ PostsInv
  <1> SUFFICES ASSUME Init PROVE PostsInv
    BY TypeInit
  <1>1. \A id \in Ids : posts[id] = 0 /\ at[id] = "idle"
    BY DEF Init
  <1> QED BY <1>1, JobFields, CallFields, TypeInit DEF Init, PostsInv, NoJob, Current

(* Every variable of Webhooks keeps its type: the number of POSTs of any   *)
(* delivery is bounded by attempts and stalls.                             *)
THEOREM TypeCorrect == Spec => []TypeOK
  <1>1. TypeInv /\ PostsInv /\ [Next]_vars => (TypeInv /\ PostsInv)'
    BY TypeNext, PostsNext
  <1>2. TypeInv /\ PostsInv => TypeOK
    <2> SUFFICES ASSUME TypeInv, PostsInv PROVE TypeOK
      OBVIOUS
    <2>1. ASSUME NEW id \in Ids PROVE posts[id] \in 0..MaxAttempts + MaxStalls + 1
      <3>n. posts[id] \in Nat
        BY DEF TypeInv, Types
      <3>1. CASE id \in Jobs
        <4>1. /\ job[id] \in JobRow
              /\ at[id] # "idle" <=> job[id].state = "active"
              /\ job[id].state # "failed" =>
                    job[id].attemptsMade < MaxAttempts /\ job[id].stalls <= MaxStalls
              /\ posts[id] <= job[id].attemptsMade + job[id].stalls + Current(id)
          BY <3>1 DEF TypeInv, Types, JobsOK, PostsInv
        <4>2. job[id].attemptsMade \in 0..MaxAttempts /\ job[id].stalls \in 0..MaxStalls + 1
          BY <4>1 DEF JobRow
        <4>3. Current(id) \in {0, 1} /\ (job[id].state = "failed" => Current(id) = 0)
          BY <4>1 DEF Current, Sent
        <4> QED BY <3>n, <4>1, <4>2, <4>3, WebhooksAssumption
      <3>2. CASE id \in Reqs
        <4>1. posts[id] <= 1
          BY <3>n, <3>2 DEF PostsInv
        <4> QED BY <3>n, <4>1, WebhooksAssumption
      <3> QED BY <3>1, <3>2 DEF Ids
    <2> QED BY <2>1 DEF TypeOK, TypeInv, Types, JobRow, DeliveryRow
  <1> QED BY <1>1, <1>2, PostsInit, PTL DEF Spec

(* An endpoint hears of the same delivery again only after a failed save,  *)
(* a crash or a job left unfinished, and at most once for every attempt    *)
(* and every stall (webhook.processor.ts, and Bull as emitEvent configures *)
(* it).                                                                    *)
THEOREM RepostsAreExplained == Spec => []RepostOnlyAfterTrouble
  <1>1. TypeInv /\ PostsInv /\ [Next]_vars => (TypeInv /\ PostsInv)'
    BY TypeNext, PostsNext
  <1>2. TypeInv /\ PostsInv => RepostOnlyAfterTrouble
    <2> SUFFICES ASSUME TypeInv, PostsInv, NEW id \in Ids
                 PROVE  /\ posts[id] > 1 => id \in trouble
                        /\ id \in Jobs => posts[id] <= job[id].attemptsMade + job[id].stalls + 1
      BY DEF RepostOnlyAfterTrouble
    <2>1. CASE id \in Reqs
      BY <2>1, CallFields DEF PostsInv, TypeInv, Types
    <2>2. CASE id \in Jobs
      <3>1. /\ job[id].attemptsMade \in Nat /\ job[id].stalls \in Nat /\ Current(id) \in {0, 1}
            /\ posts[id] \in Nat
        BY <2>2, WebhooksAssumption DEF TypeInv, Types, JobRow, Current
      <3>2. /\ posts[id] <= job[id].attemptsMade + job[id].stalls + Current(id)
            /\ posts[id] > 0 => id \in trouble \/ posts[id] = 1
        BY <2>2 DEF PostsInv
      <3> QED BY <3>1, <3>2
    <2> QED BY <2>1, <2>2 DEF Ids
  <1> QED BY <1>1, <1>2, PostsInit, PTL DEF Spec

-----------------------------------------------------------------------------
(* What is left to do for a job.                                           *)
LEMMA WorkIsLeft ==
    ASSUME TypeInv, NEW j \in Jobs
    PROVE  WorkLeft(j) \in Nat
  <1>1. /\ job[j].attemptsMade \in 0..MaxAttempts /\ job[j].stalls \in 0..MaxStalls + 1
        /\ MaxAttempts \in Nat /\ MaxStalls \in Nat
    BY WebhooksAssumption DEF TypeInv, Types, JobRow
  <1> QED BY <1>1 DEF WorkLeft

LEMMA WorkGoesDown ==
    ASSUME TypeInv, [Next]_vars, NEW j \in Jobs, job[j].state # "none",
           <<job'[j], at'[j]>> # <<job[j], at[j]>>
    PROVE  WorkLeft(j)' < WorkLeft(j)
  <1>1. /\ job[j] \in JobRow /\ at[j] \in {"idle", "post", "save", "done", "threw"}
        /\ at[j] # "idle" <=> job[j].state = "active"
        /\ MaxAttempts \in Nat /\ MaxStalls \in Nat
    BY JobFields, WebhooksAssumption DEF TypeInv, Types, JobsOK
  <1>2. job[j].attemptsMade \in Int /\ job[j].stalls \in Int
    BY <1>1 DEF JobRow
  <1>3. CASE job'[j] = job[j] /\ Delivers(j)
    BY <1>1, <1>2, <1>3 DEF WorkLeft, Delivers
  <1>4. CASE j[2] \in todo[j[1]]
    BY <1>4, JobFields DEF TypeInv, TodoOK
  <1>5. CASE TakeJob(j) /\ job'[j] = [job[j] EXCEPT !.state = "active"] /\ at'[j] = "post"
    BY <1>1, <1>2, <1>5 DEF WorkLeft, TakeJob, JobRow
  <1>6. CASE JobReturns(j) /\ job'[j] = [job[j] EXCEPT !.state = "completed"] /\ at'[j] = "idle"
    BY <1>1, <1>2, <1>6 DEF WorkLeft, JobReturns, JobRow
  <1>7. CASE /\ JobThrows(j) /\ at'[j] = "idle"
             /\ job'[j] = [job[j] EXCEPT
                   !.state = IF job[j].attemptsMade + 1 < MaxAttempts THEN "waiting" ELSE "failed",
                   !.attemptsMade = job[j].attemptsMade + 1]
    <2>1. at[j] = "threw" /\ job[j].state = "active"
      BY <1>7 DEF JobThrows
    <2>2. /\ job'[j].state \in {"waiting", "failed"}
          /\ job'[j].attemptsMade = job[j].attemptsMade + 1 /\ job'[j].stalls = job[j].stalls
      BY <1>1, <1>7 DEF JobRow
    <2>3. WorkLeft(j) = 4 * (MaxAttempts - job[j].attemptsMade + MaxStalls + 1 - job[j].stalls) + 1
      BY <2>1 DEF WorkLeft
    <2>4. WorkLeft(j)' <= 4 * (MaxAttempts - (job[j].attemptsMade + 1)
                               + MaxStalls + 1 - job[j].stalls) + 4
      BY <1>1, <1>2, <1>7, <2>2 DEF WorkLeft
    <2> QED BY <1>1, <1>2, <2>2, <2>3, <2>4 DEF WorkLeft
  <1>8. CASE job'[j] = Stalled(job[j]) /\ at'[j] = "idle"
    BY <1>1, <1>2, <1>8 DEF WorkLeft, Stalled, JobRow
  <1> QED BY <1>3, <1>4, <1>5, <1>6, <1>7, <1>8, JobStep

(* A queued job wears out: whatever fails, stalls or crashes, the steps    *)
(* for it are bounded (attempts: 3 of emitEvent, and Bull's one stall),    *)
(* and while one is left the worker can take it.                           *)
THEOREM QueueWearsOut == Spec => []WorkRemains /\ JobsWearOut
  <1>1. ASSUME TypeInv PROVE WorkRemains
    <2>1. ASSUME NEW j \in Jobs, job[j].state = "active" PROVE CanWork(j)
      BY <1>1, <2>1 DEF CanWork, TypeInv, JobsOK
    <2>2. ASSUME NEW j \in Jobs, job[j].state = "waiting",
                 \A k \in Jobs : job[k].state # "active"
          PROVE  CanWork(j)
      BY <2>2 DEF CanWork
    <2> QED BY <1>1, <2>1, <2>2, WorkIsLeft DEF WorkRemains
  <1>2. TypeInv /\ [Next]_vars
          => [\A j \in Jobs : job[j].state # "none" /\ <<job'[j], at'[j]>> # <<job[j], at[j]>>
                 => WorkLeft(j)' < WorkLeft(j)]_vars
    BY WorkGoesDown
  <1> QED BY <1>1, <1>2, TypeInit, TypeNext, PTL DEF Spec, JobsWearOut
=============================================================================
