------------------------------- MODULE Quota -------------------------------
(***************************************************************************)
(* API keys and their monthly quota: the key service                       *)
(* (src/keys/keys.service.ts), the guard in front of every request that    *)
(* carries a key (src/keys/guards/api-key.guard.ts), the Redis counters    *)
(* (src/common/redis.service.ts) and the admin's upgradePlan.  One action  *)
(* is one call of the database or of Redis and the synchronous code after  *)
(* it; time passes, and other requests run, between any two.               *)
(*                                                                         *)
(* Time is counted in ticks of a fraction of a second, because the time to *)
(* live of a counter is cut to whole seconds.                              *)
(***************************************************************************)
EXTENDS Integers, FiniteSets

CONSTANTS
    Devs,
    Keys, Owner,    \* the API keys that exist at the start, and whose they are
    Plans, Limit,   \* PLAN_LIMITS: FREE 1000 and PRO 10000 in the code
    Plan,           \* the plan of each developer at the start
    Reqs, Calls,    \* the HTTP requests, and what they may ask for
    Second,         \* ticks in a second
    MonthLength,    \* seconds in a month
    MaxTime         \* bound: the clock stops at this tick

(* A key is named by the request that creates it, so ids are fresh.        *)
KeyIds == Keys \cup Reqs

CallType == [op: {"use", "create", "revoke", "quota", "upgrade"},
             dev: Devs, key: KeyIds, plan: Plans]

ASSUME QuotaAssumption ==
    /\ Keys \cap Reqs = {} /\ IsFiniteSet(Reqs)
    /\ Owner \in [Keys -> Devs]
    /\ Limit \in [Plans -> Nat \ {0}] /\ Plan \in [Devs -> Plans]
    /\ Calls \subseteq CallType
    /\ Second \in Nat \ {0} /\ MonthLength \in Nat \ {0} /\ MaxTime \in Nat

VARIABLES
    time,
    apiKey,     \* table ApiKey
    plan,       \* the plan column of table Developer
    counter,    \* Redis, quota:usage:<key>:<year>:<month>
    call, pc,   \* what each request asks for, and where it is
    row,        \* the plan in the row that validateKey, or getQuota, read
    now, count, \* the clock it read; what INCR, or getCount (used), gave it
    admitted,   \* history: the requests let through, by key and month
    orphaned,   \* history: counters whose first increment set no time to live
    had,        \* history: the plans each developer has had
    seen        \* history: the requests answered before each one arrived, for one
                \* with a key those of the owner and the admin, and the reverse

vars == <<time, apiKey, plan, counter, call, pc, row, now, count,
          admitted, orphaned, had, seen>>

Month == Second * MonthLength
Never == -1
MonthOf(t) == t \div Month
Counters == KeyIds \X (0..MonthOf(MaxTime))

Answers == {"ok", "unauthorized", "quotaExceeded", "notFound", "forbidden", "failed"}
Waiting == {"validate", "compare", "incr", "expire", "create", "find",
            "revoke", "audit", "getCount", "upgrade"}

TypeOK ==
    /\ time \in 0..MaxTime
    /\ apiKey \in [KeyIds -> [exists: BOOLEAN, isActive: BOOLEAN, dev: Devs]]
    /\ plan \in [Devs -> Plans]
    /\ counter \in [Counters -> [count: 0..Cardinality(Reqs),
                                 expireAt: {Never} \cup 0..MaxTime + Month]]
    /\ call \in [Reqs -> Calls]
    /\ pc \in [Reqs -> {"new"} \cup Waiting \cup Answers]
    /\ row \in [Reqs -> Plans]
    /\ now \in [Reqs -> 0..MaxTime]
    /\ count \in [Reqs -> 0..Cardinality(Reqs)]
    /\ admitted \in [Counters -> SUBSET Reqs]
    /\ orphaned \subseteq Counters /\ had \in [Devs -> SUBSET Plans]
    /\ seen \in [Reqs -> SUBSET Reqs]

NoCounter == [count |-> 0, expireAt |-> Never]

Init ==
    /\ time = 0
    /\ apiKey = [k \in KeyIds |-> [exists |-> k \in Keys, isActive |-> k \in Keys,
                    dev |-> IF k \in Keys THEN Owner[k] ELSE CHOOSE d \in Devs : TRUE]]
    /\ plan = Plan
    /\ counter = [c \in Counters |-> NoCounter]
    /\ call \in [Reqs -> Calls] /\ pc = [r \in Reqs |-> "new"]
    /\ row = [r \in Reqs |-> CHOOSE p \in Plans : TRUE]
    /\ now = [r \in Reqs |-> 0] /\ count = [r \in Reqs |-> 0]
    /\ admitted = [c \in Counters |-> {}] /\ orphaned = {}
    /\ had = [d \in Devs |-> {Plan[d]}] /\ seen = [r \in Reqs |-> {}]

Goto(r, label) == pc' = [pc EXCEPT ![r] = label]

(* The first await of each operation.  The key itself is in one place, the *)
(* answer of createKey; its id is in listKeys too, for a createKey whose   *)
(* row is there and whose answer never came.                               *)
FirstStep(op) ==
    CASE op = "use" -> "validate" [] op = "create" -> "create" [] OTHER -> "find"

Arrive(r) ==
    LET c == call[r] IN
    /\ pc[r] = "new"
    /\ c.key \in Reqs => /\ call[c.key].op = "create"
                         /\ pc[c.key] \in IF c.op = "use" THEN {"ok"} ELSE {"ok", "failed"}
    /\ Goto(r, FirstStep(c.op))
    /\ seen' = [seen EXCEPT ![r] = {s \in Reqs : /\ pc[s] \in Answers
                                                 /\ (call[s].op = "use") # (c.op = "use")}]
    /\ UNCHANGED <<time, apiKey, plan, counter, call, row, now, count, admitted, orphaned, had>>

-----------------------------------------------------------------------------
(* validateKey: the active keys, each with its developer, in one query;    *)
(* the mutant forgets where: { isActive: true }.                           *)
ValidateAnyKey(r) ==
    LET k == call[r].key IN
    /\ pc[r] = "validate" /\ apiKey[k].exists
    /\ row' = [row EXCEPT ![r] = plan[apiKey[k].dev]]
    /\ Goto(r, "compare")
    /\ UNCHANGED <<time, apiKey, plan, counter, call, now, count, admitted, orphaned, had, seen>>

ValidateKey(r) ==
    LET k == call[r].key IN
    /\ pc[r] = "validate"
    /\ \/ /\ apiKey[k].isActive
          /\ row' = [row EXCEPT ![r] = plan[apiKey[k].dev]]
          /\ Goto(r, "compare")
       \/ /\ ~apiKey[k].isActive
          /\ Goto(r, "unauthorized")
          /\ UNCHANGED row
    /\ UNCHANGED <<time, apiKey, plan, counter, call, now, count, admitted, orphaned, had, seen>>

(* The bcrypt comparisons are over; the guard reads the clock, from which  *)
(* the counter's name and its time to live are made.                       *)
Compare(r) ==
    /\ pc[r] = "compare"
    /\ now' = [now EXCEPT ![r] = time]
    /\ Goto(r, "incr")
    /\ UNCHANGED <<time, apiKey, plan, counter, call, row, count, admitted, orphaned, had, seen>>

(* quotaKey, and its mutant: a name without the month.                     *)
QuotaKeyForAllTime(r) == <<call[r].key, 0>>

QuotaKey(r) == <<call[r].key, MonthOf(now[r])>>

(* getSecondsUntilMonthEnd: floor of the rest of the month.  The mutant    *)
(* takes the end of the next month.                                        *)
SecondsUntilNextMonthEnd(t) == ((MonthOf(t) + 2) * Month - t) \div Second

SecondsUntilMonthEnd(t) == ((MonthOf(t) + 1) * Month - t) \div Second

(* count === 1 && ttlSeconds, and its mutant: the count before INCR.       *)
SetsTtlFromZero(n, ttl) == n = 0 /\ ttl # 0

SetsTtl(n, ttl) == n = 1 /\ ttl # 0

(* count > limit, and its mutant: the count before INCR.                   *)
OverLimitBefore(r, n) == n - 1 > Limit[row[r]]

OverLimit(r, n) == n > Limit[row[r]]

(* What the guard does with the count.                                     *)
Decide(r, n) ==
    \/ /\ OverLimit(r, n)
       /\ Goto(r, "quotaExceeded")
       /\ UNCHANGED admitted
    \/ /\ ~OverLimit(r, n)
       /\ Goto(r, "ok")
       /\ admitted' = [admitted EXCEPT ![<<call[r].key, MonthOf(now[r])>>] = @ \cup {r}]

(* client.incr creates the counter without a time to live.  Its answer may *)
(* be lost: the request fails, and has counted.                            *)
Incr(r) ==
    LET q == QuotaKey(r)
        n == counter[q].count + 1
        ttl == SecondsUntilMonthEnd(now[r]) IN
    /\ pc[r] = "incr"
    /\ counter' = [counter EXCEPT ![q].count = n]
    /\ count' = [count EXCEPT ![r] = n]
    /\ \/ SetsTtl(n, ttl) /\ Goto(r, "expire") /\ UNCHANGED admitted
       \/ ~SetsTtl(n, ttl) /\ Decide(r, n)
       \/ Goto(r, "failed") /\ UNCHANGED admitted
    /\ orphaned' = IF n = 1 /\ (ttl = 0 \/ pc'[r] = "failed")
                   THEN orphaned \cup {q} ELSE orphaned
    /\ UNCHANGED <<time, apiKey, plan, call, row, now, had, seen>>

(* client.expire counts from the moment Redis runs it; without its answer  *)
(* the request fails.                                                      *)
Expire(r) ==
    LET q == QuotaKey(r) IN
    /\ pc[r] = "expire"
    /\ counter' = [counter EXCEPT ![q].expireAt =
                       IF counter[q].count = 0 THEN Never
                       ELSE time + Second * SecondsUntilMonthEnd(now[r])]
    /\ Decide(r, count[r]) \/ (Goto(r, "failed") /\ UNCHANGED admitted)
    /\ UNCHANGED <<time, apiKey, plan, call, row, now, count, orphaned, had, seen>>

-----------------------------------------------------------------------------
(* A row is written; the answer of the database may be lost.               *)
Written(r) == Goto(r, "ok") \/ Goto(r, "failed")

CreateKey(r) ==
    /\ pc[r] = "create"
    /\ apiKey' = [apiKey EXCEPT ![r] = [exists |-> TRUE, isActive |-> TRUE, dev |-> call[r].dev]]
    /\ Written(r)
    /\ UNCHANGED <<time, plan, counter, call, row, now, count, admitted, orphaned, had, seen>>

(* The findUnique and the checks of revokeKey.                             *)
FindKey(r) ==
    LET c == call[r] IN
    /\ pc[r] = "find" /\ c.op = "revoke"
    /\ Goto(r, IF ~apiKey[c.key].exists THEN "notFound"
               ELSE IF apiKey[c.key].dev # c.dev THEN "forbidden" ELSE "revoke")
    /\ UNCHANGED <<time, apiKey, plan, counter, call, row, now, count, admitted, orphaned, had,
                   seen>>

RevokeKey(r) ==
    /\ pc[r] = "revoke"
    /\ apiKey' = [apiKey EXCEPT ![call[r].key].isActive = FALSE]
    /\ Goto(r, "audit")
    /\ UNCHANGED <<time, plan, counter, call, row, now, count, admitted, orphaned, had, seen>>

AuditRevocation(r) ==
    /\ pc[r] = "audit"
    /\ Goto(r, "ok")
    /\ UNCHANGED <<time, apiKey, plan, counter, call, row, now, count, admitted, orphaned, had,
                   seen>>

(* getQuota: the key with its developer in one query, the same checks,     *)
(* then the clock, then the counter it names.                              *)
FindQuota(r) ==
    LET c == call[r] IN
    /\ pc[r] = "find" /\ c.op = "quota"
    /\ row' = [row EXCEPT ![r] = plan[apiKey[c.key].dev]]
    /\ now' = [now EXCEPT ![r] = time]
    /\ Goto(r, IF ~apiKey[c.key].exists THEN "notFound"
               ELSE IF apiKey[c.key].dev # c.dev THEN "forbidden" ELSE "getCount")
    /\ UNCHANGED <<time, apiKey, plan, counter, call, count, admitted, orphaned, had, seen>>

(* The name getQuota makes for itself, and its mutant.                     *)
UsageKeyForAllTime(r) == <<call[r].key, 0>>

UsageKey(r) == <<call[r].key, MonthOf(now[r])>>

GetCount(r) ==
    /\ pc[r] = "getCount"
    /\ count' = [count EXCEPT ![r] = counter[UsageKey(r)].count]
    /\ Goto(r, "ok")
    /\ UNCHANGED <<time, apiKey, plan, counter, call, row, now, admitted, orphaned, had, seen>>

(* What the answer of getQuota says is left: Math.max(0, limit - used).    *)
Remaining(r) ==
    LET limit == Limit[row[r]] IN IF count[r] < limit THEN limit - count[r] ELSE 0

FindDeveloper(r) ==
    /\ pc[r] = "find" /\ call[r].op = "upgrade"
    /\ Goto(r, "upgrade")
    /\ UNCHANGED <<time, apiKey, plan, counter, call, row, now, count, admitted, orphaned, had,
                   seen>>

UpgradePlan(r) ==
    /\ pc[r] = "upgrade"
    /\ plan' = [plan EXCEPT ![call[r].dev] = call[r].plan]
    /\ had' = [had EXCEPT ![call[r].dev] = @ \cup {call[r].plan}]
    /\ Written(r)
    /\ UNCHANGED <<time, apiKey, counter, call, row, now, count, admitted, orphaned, seen>>

-----------------------------------------------------------------------------
(* The process dies, or a call of the database or of Redis is not carried  *)
(* out.                                                                    *)
Fail(r) ==
    /\ pc[r] \in Waiting
    /\ Goto(r, "failed")
    /\ orphaned' = IF pc[r] = "expire" THEN orphaned \cup {QuotaKey(r)} ELSE orphaned
    /\ UNCHANGED <<time, apiKey, plan, counter, call, row, now, count, admitted, had, seen>>

(* Time passes, and Redis drops the counters whose time has come.          *)
Tick ==
    /\ time < MaxTime
    /\ time' = time + 1
    /\ counter' = [c \in Counters |->
           IF counter[c].expireAt # Never /\ counter[c].expireAt <= time'
           THEN NoCounter ELSE counter[c]]
    /\ UNCHANGED <<apiKey, plan, call, pc, row, now, count, admitted, orphaned, had, seen>>

Guard(r) == ValidateKey(r) \/ Compare(r) \/ Incr(r) \/ Expire(r)

Manage(r) ==
    \/ CreateKey(r)
    \/ FindKey(r) \/ RevokeKey(r) \/ AuditRevocation(r)
    \/ FindQuota(r) \/ GetCount(r)
    \/ FindDeveloper(r) \/ UpgradePlan(r)

Next == Tick \/ \E r \in Reqs : Arrive(r) \/ Guard(r) \/ Manage(r) \/ Fail(r)

Spec == Init /\ [][Next]_vars

-----------------------------------------------------------------------------
(* A plan the developer of a key has had by now.                           *)
HadPlan(d, p) == p \in had[d]

WithinQuota(c) == \E p \in Plans : /\ HadPlan(apiKey[c[1]].dev, p)
                                   /\ Cardinality(admitted[c]) <= Limit[p]

(* Until the last second of a month no key has had more requests let       *)
(* through in it than its plan allows, however requests race: INCR hands   *)
(* out every count once, and no counter is dropped before that second.     *)
(* After it the count starts again from 1 under the same month's name, so  *)
(* README.md:56 ("FREE tier allows 1,000 requests/month") cannot be said   *)
(* without the premise on time.                                            *)
QuotaUntilLastSecond ==
    \A c \in Counters : time <= (c[2] + 1) * Month - Second => WithinQuota(c)

(* A counter is left without a time to live only if its first increment    *)
(* came in the month's last second, or failed before EXPIRE.               *)
CountersExpire ==
    \A c \in Counters : counter[c].count > 0 /\ counter[c].expireAt = Never =>
        \/ c \in orphaned
        \/ \E r \in Reqs : pc[r] = "expire" /\ QuotaKey(r) = c

(* A request is told "Quota Exceeded" only if the limit it was compared    *)
(* with was used up by other requests with that key in the same month:     *)
(* neither an earlier month nor another key ever counts against it.        *)
RefusedForCause ==
    \A r \in Reqs : pc[r] = "quotaExceeded" =>
        Limit[row[r]] <= Cardinality({s \in Reqs \ {r} :
            /\ call[s].op = "use" /\ call[s].key = call[r].key /\ count[s] > 0
            /\ MonthOf(now[s]) = MonthOf(now[r])})

(* What getQuota said was left is there: a request that arrives after the  *)
(* answer, in the same month and on a plan as large, is told "Quota        *)
(* Exceeded" only if that many other requests with the key have counted    *)
(* that were not over when the quota was asked for.                        *)
RemainingIsThere ==
    \A r \in Reqs : \A s \in seen[r] :
        /\ pc[r] = "quotaExceeded" /\ call[s].op = "quota" /\ pc[s] = "ok"
        /\ call[s].key = call[r].key /\ MonthOf(now[s]) = MonthOf(now[r])
        /\ Limit[row[s]] <= Limit[row[r]]
        => Remaining(s) <= Cardinality({q \in Reqs \ {r} :
               /\ call[q].op = "use" /\ call[q].key = call[r].key /\ count[q] > 0
               /\ MonthOf(now[q]) = MonthOf(now[r]) /\ q \notin seen[s]})

(* A request that arrives after the key's revocation was answered is not   *)
(* let through; one that was already past validateKey may be.              *)
RevokedKeyRefused ==
    \A r \in Reqs : \A s \in seen[r] :
        /\ call[r].op = "use" /\ call[s].op = "revoke" /\ pc[s] = "ok"
        /\ call[s].key = call[r].key
        => pc[r] # "ok"
=============================================================================
