---------------------------- MODULE QuotaProofs ----------------------------
(***************************************************************************)
(* Theorems about Quota, for every set of developers, keys, plans,         *)
(* requests and calls, and any length of seconds and months.               *)
(***************************************************************************)
EXTENDS Quota, TLAPS, FiniteSetTheorems

(* Time.  What the names and the times to live of counters rest on.        *)
LEMMA Division ==
    ASSUME NEW a \in Nat, NEW n \in Nat \ {0}
    PROVE  /\ a \div n \in Nat
           /\ n * (a \div n) <= a /\ a < n * (a \div n) + n
  OBVIOUS

LEMMA DivisionMonotone ==
    ASSUME NEW a \in Nat, NEW b \in Nat, NEW n \in Nat \ {0}, a <= b
    PROVE  a \div n <= b \div n
  <1> DEFINE x == a \div n
             y == b \div n
  <1>1. x \in Nat /\ y \in Nat /\ n * x <= a /\ b < n * y + n
    BY Division
  <1> HIDE DEF x, y
  <1>2. n * x < n * (y + 1)
    BY <1>1
  <1>3. x < y + 1
    BY <1>1, <1>2
  <1> QED BY <1>1, <1>3 DEF x, y

LEMMA MonthType == Month \in Nat \ {0}
  <1>1. Second \in Nat \ {0} /\ MonthLength \in Nat \ {0}
    BY QuotaAssumption
  <1> QED BY <1>1 DEF Month

(* A moment lies in its month, and the clock in one that has a counter.    *)
LEMMA MonthFacts ==
    ASSUME NEW t \in 0..MaxTime
    PROVE  /\ MonthOf(t) \in 0..MonthOf(MaxTime)
           /\ MonthOf(t) * Month <= t /\ t < (MonthOf(t) + 1) * Month
  <1>1. t \in Nat /\ MaxTime \in Nat /\ t <= MaxTime
    BY QuotaAssumption
  <1>2. MonthOf(t) \in Nat /\ MonthOf(MaxTime) \in Nat /\ MonthOf(t) <= MonthOf(MaxTime)
    BY <1>1, MonthType, Division, DivisionMonotone DEF MonthOf
  <1>3. Month * MonthOf(t) <= t /\ t < Month * MonthOf(t) + Month
    BY <1>1, MonthType, Division DEF MonthOf
  <1> HIDE DEF Month
  <1>4. /\ MonthOf(t) * Month = Month * MonthOf(t)
        /\ (MonthOf(t) + 1) * Month = Month * MonthOf(t) + Month
    BY <1>2, MonthType
  <1> QED BY <1>1, <1>2, <1>3, <1>4, MonthType

(* The time to live never passes the end of the month, and falls short of  *)
(* it by less than a second.                                               *)
LEMMA TtlFacts ==
    ASSUME NEW t \in 0..MaxTime
    PROVE  LET ttl == SecondsUntilMonthEnd(t) IN
           /\ ttl \in Nat
           /\ Second * ttl \in Nat /\ Second * ttl <= Month
           /\ (MonthOf(t) + 1) * Month - Second < t + Second * ttl
  <1> DEFINE rest == (MonthOf(t) + 1) * Month - t
             ttl == rest \div Second
  <1>1. t \in Nat /\ Second \in Nat \ {0} /\ Month \in Nat
    BY MonthType, QuotaAssumption
  <1>2. /\ MonthOf(t) \in Nat /\ MonthOf(t) * Month <= t /\ t < (MonthOf(t) + 1) * Month
    BY MonthFacts
  <1>3. (MonthOf(t) + 1) * Month = MonthOf(t) * Month + Month /\ MonthOf(t) * Month \in Nat
    BY <1>1, <1>2
  <1>4. rest \in Nat /\ rest <= Month
    BY <1>1, <1>2, <1>3
  <1>5. ttl \in Nat /\ Second * ttl <= rest /\ rest < Second * ttl + Second
    BY <1>1, <1>4, Division
  <1>6. Second * ttl \in Nat
    BY <1>1, <1>5
  <1>7. SecondsUntilMonthEnd(t) = ttl
    BY DEF SecondsUntilMonthEnd
  <1>8. (MonthOf(t) + 1) * Month = rest + t
    BY <1>1, <1>2, <1>3
  <1> HIDE DEF ttl, rest
  <1>9. (MonthOf(t) + 1) * Month - Second < t + Second * ttl
    BY <1>1, <1>4, <1>5, <1>6, <1>8
  <1> QED BY <1>1, <1>4, <1>5, <1>6, <1>7, <1>9

-----------------------------------------------------------------------------
(* TypeOK with counts of any size: CountInv bounds them, below.            *)
CounterRow == [count: Nat, expireAt: {Never} \cup 0..MaxTime + Month]

Types ==
    /\ time \in 0..MaxTime
    /\ apiKey \in [KeyIds -> [exists: BOOLEAN, isActive: BOOLEAN, dev: Devs]]
    /\ plan \in [Devs -> Plans]
    /\ counter \in [Counters -> CounterRow]
    /\ call \in [Reqs -> Calls]
    /\ pc \in [Reqs -> {"new"} \cup Waiting \cup Answers]
    /\ row \in [Reqs -> Plans]
    /\ now \in [Reqs -> 0..MaxTime]
    /\ count \in [Reqs -> Nat]
    /\ admitted \in [Counters -> SUBSET Reqs]
    /\ orphaned \subseteq Counters /\ had \in [Devs -> SUBSET Plans]
    /\ seen \in [Reqs -> SUBSET Reqs]

(* Only requests of an operation come to its labels.                       *)
LabelsOK == \A r \in Reqs :
    /\ pc[r] \in {"validate", "compare", "incr", "expire", "quotaExceeded", "unauthorized"}
         => call[r].op = "use"
    /\ pc[r] = "create" => call[r].op = "create"
    /\ pc[r] = "find" => call[r].op \in {"revoke", "quota", "upgrade"}
    /\ pc[r] \in {"revoke", "audit"} => call[r].op = "revoke"
    /\ pc[r] = "getCount" => call[r].op = "quota"
    /\ pc[r] = "upgrade" => call[r].op = "upgrade"

(* A request's clock is one it has read.                                   *)
NowPast == \A r \in Reqs : now[r] <= time

TypeInv == Types /\ LabelsOK /\ NowPast

LEMMA CallFields ==
    ASSUME Types, NEW r \in Reqs
    PROVE  /\ call[r] \in CallType
           /\ call[r].op \in {"use", "create", "revoke", "quota", "upgrade"}
           /\ call[r].dev \in Devs /\ call[r].key \in KeyIds /\ call[r].plan \in Plans
           /\ QuotaKey(r) \in Counters /\ UsageKey(r) = QuotaKey(r)
  <1>1. call[r] \in CallType /\ now[r] \in 0..MaxTime
    BY QuotaAssumption DEF Types
  <1>2. MonthOf(now[r]) \in 0..MonthOf(MaxTime)
    BY <1>1, MonthFacts
  <1> QED BY <1>1, <1>2 DEF CallType, QuotaKey, UsageKey, Counters

(* A step is the clock's or one request's.                                 *)
Step(r) == Arrive(r) \/ Guard(r) \/ Manage(r) \/ Fail(r)

LEMMA NextCases ==
    ASSUME [Next]_vars
    PROVE  UNCHANGED vars \/ Tick \/ \E r \in Reqs : Step(r)
  BY DEF Next, Step

(* A step of one request leaves the others where they are, and the clock.  *)
LEMMA StepFrame ==
    ASSUME Types, NEW r \in Reqs, Step(r)
    PROVE  /\ call' = call /\ time' = time
           /\ \A s \in Reqs : s # r => /\ pc'[s] = pc[s] /\ row'[s] = row[s] /\ now'[s] = now[s]
                                       /\ count'[s] = count[s] /\ seen'[s] = seen[s]
  <1> USE DEF Types, Goto
  <1>1. CASE Arrive(r) \/ Fail(r)
    BY <1>1 DEF Arrive, Fail
  <1>2. CASE Guard(r)
    BY <1>2 DEF Guard, ValidateKey, Compare, Incr, Expire, Decide
  <1>3. CASE Manage(r)
    BY <1>3 DEF Manage, CreateKey, FindKey, RevokeKey, AuditRevocation, FindQuota, GetCount,
       FindDeveloper, UpgradePlan, Written
  <1> QED BY <1>1, <1>2, <1>3 DEF Step

LEMMA TypeInit == Init => TypeInv
  <1> SUFFICES ASSUME Init PROVE TypeInv
    OBVIOUS
  <1>1. time \in 0..MaxTime /\ plan \in [Devs -> Plans] /\ orphaned \subseteq Counters
    BY QuotaAssumption DEF Init
  <1>2. \A r \in Reqs : call[r] \in CallType
    BY QuotaAssumption DEF Init
  <1>3. apiKey \in [KeyIds -> [exists: BOOLEAN, isActive: BOOLEAN, dev: Devs]]
    <2> SUFFICES ASSUME NEW k \in KeyIds
                 PROVE  (IF k \in Keys THEN Owner[k] ELSE CHOOSE d \in Devs : TRUE) \in Devs
      BY DEF Init
    <2>1. CASE k \in Keys
      BY <2>1, QuotaAssumption
    <2>2. CASE k \notin Keys
      <3>1. \E d \in Devs : TRUE
        BY <1>2, <2>2 DEF KeyIds, CallType
      <3> QED BY <2>2, <3>1
    <2> QED BY <2>1, <2>2
  <1>4. row \in [Reqs -> Plans]
    <2> SUFFICES ASSUME NEW r \in Reqs PROVE (CHOOSE p \in Plans : TRUE) \in Plans
      BY DEF Init
    <2>1. \E p \in Plans : TRUE
      BY <1>2 DEF CallType
    <2> QED BY <2>1
  <1>5. counter \in [Counters -> CounterRow]
    BY DEF Init, NoCounter, CounterRow
  <1>6. /\ call \in [Reqs -> Calls] /\ pc \in [Reqs -> {"new"} \cup Waiting \cup Answers]
        /\ now \in [Reqs -> 0..MaxTime] /\ count \in [Reqs -> Nat]
        /\ had \in [Devs -> SUBSET Plans]
        /\ admitted \in [Counters -> SUBSET Reqs] /\ seen \in [Reqs -> SUBSET Reqs]
    BY <1>1, QuotaAssumption DEF Init
  <1>7. LabelsOK /\ NowPast
    BY DEF Init, LabelsOK, NowPast
  <1> QED BY <1>1, <1>3, <1>4, <1>5, <1>6, <1>7 DEF TypeInv, Types

(* What a step of the guard does to the counter it names.                  *)
LEMMA IncrStep ==
    ASSUME Types, NEW r \in Reqs, Incr(r)
    PROVE  LET q == QuotaKey(r)
               n == counter[q].count + 1
               ttl == SecondsUntilMonthEnd(now[r]) IN
           /\ q \in Counters /\ n \in Nat \ {0} /\ ttl \in Nat
           /\ counter' \in [Counters -> CounterRow]
           /\ counter'[q].count = n /\ counter'[q].expireAt = counter[q].expireAt
           /\ \A c \in Counters : c # q => counter'[c] = counter[c]
           /\ count'[r] = n /\ count' \in [Reqs -> Nat]
           /\ orphaned' = IF n = 1 /\ (ttl = 0 \/ pc'[r] = "failed")
                          THEN orphaned \cup {q} ELSE orphaned
           /\ \/ n = 1 /\ ttl # 0 /\ pc'[r] = "expire" /\ admitted' = admitted
              \/ ~(n = 1 /\ ttl # 0) /\ Decide(r, n)
              \/ pc'[r] = "failed" /\ admitted' = admitted
           /\ now' = now /\ row' = row
  <1> DEFINE q == QuotaKey(r)
             n == counter[q].count + 1
             ttl == SecondsUntilMonthEnd(now[r])
  <1>1. q \in Counters /\ counter[q] \in CounterRow /\ ttl \in Nat
    BY CallFields, TtlFacts DEF Types
  <1>2. n \in Nat \ {0}
    BY <1>1 DEF CounterRow
  <1>3. /\ counter' = [counter EXCEPT ![q].count = n] /\ count' = [count EXCEPT ![r] = n]
        /\ orphaned' = IF n = 1 /\ (ttl = 0 \/ pc'[r] = "failed")
                       THEN orphaned \cup {q} ELSE orphaned
        /\ \/ n = 1 /\ ttl # 0 /\ pc'[r] = "expire" /\ admitted' = admitted
           \/ ~(n = 1 /\ ttl # 0) /\ Decide(r, n)
           \/ pc'[r] = "failed" /\ admitted' = admitted
        /\ now' = now /\ row' = row
    BY DEF Incr, SetsTtl, Goto, Types
  <1> HIDE DEF q, n, ttl
  <1>4. [counter[q] EXCEPT !.count = n] \in CounterRow
    BY <1>1, <1>2 DEF CounterRow
  <1>5. /\ counter' \in [Counters -> CounterRow]
        /\ counter'[q].count = n /\ counter'[q].expireAt = counter[q].expireAt
        /\ \A c \in Counters : c # q => counter'[c] = counter[c]
    BY <1>1, <1>2, <1>3, <1>4 DEF Types, CounterRow
  <1>6. count'[r] = n /\ count' \in [Reqs -> Nat]
    BY <1>2, <1>3 DEF Types
  <1> QED BY <1>1, <1>2, <1>3, <1>5, <1>6 DEF q, n, ttl

LEMMA ExpireStep ==
    ASSUME TypeInv, NEW r \in Reqs, Expire(r)
    PROVE  LET q == QuotaKey(r) IN
           /\ q \in Counters /\ pc[r] = "expire"
           /\ Decide(r, count[r]) \/ (pc'[r] = "failed" /\ admitted' = admitted)
           /\ counter' \in [Counters -> CounterRow]
           /\ counter'[q].count = counter[q].count
           /\ IF counter[q].count = 0 THEN counter'[q].expireAt = Never
              ELSE /\ counter'[q].expireAt # Never
                   /\ (q[2] + 1) * Month - Second < counter'[q].expireAt
           /\ \A c \in Counters : c # q => counter'[c] = counter[c]
           /\ now' = now /\ row' = row /\ count' = count /\ orphaned' = orphaned
  <1> DEFINE q == QuotaKey(r)
             t == now[r]
             ttl == SecondsUntilMonthEnd(t)
             e == IF counter[q].count = 0 THEN Never ELSE time + Second * ttl
  <1>1. /\ q \in Counters /\ counter[q] \in CounterRow /\ q[2] = MonthOf(t)
        /\ t \in 0..MaxTime /\ time \in 0..MaxTime /\ t <= time
        /\ MaxTime \in Nat /\ Month \in Nat /\ Second \in Nat
    BY CallFields, QuotaAssumption, MonthType DEF TypeInv, Types, NowPast, QuotaKey
  <1>2. /\ Second * ttl \in Nat /\ Second * ttl <= Month
        /\ (MonthOf(t) + 1) * Month - Second < t + Second * ttl
    BY <1>1, TtlFacts
  <1>3. (MonthOf(t) + 1) * Month - Second \in Int
    BY <1>1, MonthFacts
  <1>4. /\ pc[r] = "expire"
        /\ Decide(r, count[r]) \/ (pc'[r] = "failed" /\ admitted' = admitted)
        /\ counter' = [counter EXCEPT ![q].expireAt = e]
        /\ now' = now /\ row' = row /\ count' = count /\ orphaned' = orphaned
    BY DEF Expire, Goto, TypeInv, Types
  <1> HIDE DEF q, t, ttl
  <1>5. e \in {Never} \cup 0..MaxTime + Month
    BY <1>1, <1>2
  <1>6. counter[q].count # 0 => e # Never /\ (MonthOf(t) + 1) * Month - Second < e
    BY <1>1, <1>2, <1>3 DEF Never
  <1>7. counter[q].count = 0 => e = Never
    OBVIOUS
  <1> HIDE DEF e
  <1>8. [counter[q] EXCEPT !.expireAt = e] \in CounterRow
    BY <1>1, <1>5 DEF CounterRow
  <1>9. /\ counter' \in [Counters -> CounterRow]
        /\ counter'[q].count = counter[q].count /\ counter'[q].expireAt = e
        /\ \A c \in Counters : c # q => counter'[c] = counter[c]
    BY <1>1, <1>4, <1>8 DEF TypeInv, Types, CounterRow
  <1> QED BY <1>1, <1>4, <1>6, <1>7, <1>9 DEF q

(* The guard's decision: refused, or let through with its key and month.   *)
LEMMA DecideStep ==
    ASSUME Types, NEW r \in Reqs, NEW n, Decide(r, n)
    PROVE  /\ QuotaKey(r) \in Counters
           /\ \/ OverLimit(r, n) /\ pc'[r] = "quotaExceeded" /\ admitted' = admitted
              \/ /\ ~OverLimit(r, n) /\ pc'[r] = "ok"
                 /\ admitted' = [admitted EXCEPT ![QuotaKey(r)] = @ \cup {r}]
  BY CallFields DEF Decide, Goto, Types, QuotaKey

LEMMA TickStep ==
    ASSUME Types, Tick
    PROVE  /\ time' \in 0..MaxTime /\ time' = time + 1
           /\ \A c \in Counters :
                counter'[c] = IF counter[c].expireAt # Never /\ counter[c].expireAt <= time'
                              THEN NoCounter ELSE counter[c]
           /\ counter' \in [Counters -> CounterRow]
           /\ UNCHANGED <<apiKey, plan, call, pc, row, now, count, admitted, orphaned, had, seen>>
  <1>1. time' \in 0..MaxTime /\ time' = time + 1
    BY QuotaAssumption DEF Tick, Types
  <1>2. NoCounter \in CounterRow
    BY DEF NoCounter, CounterRow
  <1> QED BY <1>1, <1>2 DEF Tick, Types

-----------------------------------------------------------------------------
LEMMA TypesNext == TypeInv /\ [Next]_vars => Types'
  <1> SUFFICES ASSUME TypeInv, [Next]_vars PROVE Types'
    OBVIOUS
  <1>1. CASE UNCHANGED vars
    BY <1>1 DEF vars, TypeInv, Types
  <1>2. CASE Tick
    BY <1>2, TickStep DEF TypeInv, Types
  <1>3. ASSUME NEW r \in Reqs, Step(r) PROVE Types'
    <2> DEFINE c == call[r]
    <2>t. /\ Types /\ c.dev \in Devs /\ c.key \in KeyIds /\ c.plan \in Plans
          /\ apiKey[c.key] \in [exists: BOOLEAN, isActive: BOOLEAN, dev: Devs]
          /\ QuotaKey(r) \in Counters /\ UsageKey(r) = QuotaKey(r) /\ r \in KeyIds
      BY CallFields DEF TypeInv, Types, KeyIds
    <2> HIDE DEF c
    <2>m. ASSUME NEW label \in Waiting \cup Answers, Goto(r, label)
          PROVE  pc' \in [Reqs -> {"new"} \cup Waiting \cup Answers]
      BY <2>m, <2>t DEF Goto, Types
    <2>d. ASSUME NEW n, Decide(r, n) PROVE admitted' \in [Counters -> SUBSET Reqs]
      <3>1. QuotaKey(r) \in Counters /\ admitted \in [Counters -> SUBSET Reqs]
        BY <2>t DEF Types
      <3>2. \/ admitted' = admitted
            \/ admitted' = [admitted EXCEPT ![QuotaKey(r)] = @ \cup {r}]
        BY <2>d, <2>t, DecideStep
      <3> QED BY <3>1, <3>2
    <2>1. CASE Incr(r)
      <3>0. /\ counter' \in [Counters -> CounterRow] /\ count' \in [Reqs -> Nat]
            /\ orphaned' \in {orphaned, orphaned \cup {QuotaKey(r)}}
        BY <2>1, <2>t, IncrStep
      <3>1. /\ counter' \in [Counters -> CounterRow] /\ count' \in [Reqs -> Nat]
            /\ orphaned' \subseteq Counters
        BY <2>t, <3>0 DEF Types
      <3>2. admitted' \in [Counters -> SUBSET Reqs]
        <4>1. CASE admitted' = admitted
          BY <2>t, <4>1 DEF Types
        <4> QED BY <2>1, <2>t, <2>d, <4>1, IncrStep
      <3>3. pc' \in [Reqs -> {"new"} \cup Waiting \cup Answers]
        <4>1. PICK label \in {"expire", "ok", "quotaExceeded", "failed"} : Goto(r, label)
          BY <2>1 DEF Incr, Decide
        <4>2. label \in Waiting \cup Answers
          BY DEF Waiting, Answers
        <4> QED BY <2>m, <4>1, <4>2
      <3> QED BY <2>1, <2>t, <3>1, <3>2, <3>3 DEF Incr, Types
    <2>2. CASE Expire(r)
      <3>1. counter' \in [Counters -> CounterRow]
        BY <2>2, ExpireStep
      <3>2. admitted' \in [Counters -> SUBSET Reqs]
        <4>1. CASE admitted' = admitted
          BY <2>t, <4>1 DEF Types
        <4> QED BY <2>2, <2>d, <4>1 DEF Expire
      <3>3. pc' \in [Reqs -> {"new"} \cup Waiting \cup Answers]
        <4>1. PICK label \in {"ok", "quotaExceeded", "failed"} : Goto(r, label)
          BY <2>2 DEF Expire, Decide
        <4>2. label \in Waiting \cup Answers
          BY DEF Answers
        <4> QED BY <2>m, <4>1, <4>2
      <3> QED BY <2>2, <2>t, <3>1, <3>2, <3>3 DEF Expire, Types
    <2>3. CASE ValidateKey(r) \/ Compare(r)
      <3>1. PICK label \in {"compare", "unauthorized", "incr"} : Goto(r, label)
        BY <2>3 DEF ValidateKey, Compare
      <3>2. label \in Waiting \cup Answers
        BY DEF Waiting, Answers
      <3>3. row' \in [Reqs -> Plans] /\ now' \in [Reqs -> 0..MaxTime]
        BY <2>3, <2>t DEF ValidateKey, Compare, Types, c
      <3> QED BY <2>3, <2>t, <2>m, <3>1, <3>2, <3>3 DEF ValidateKey, Compare, Types
    <2>4. CASE CreateKey(r) \/ RevokeKey(r)
      <3>1. apiKey' \in [KeyIds -> [exists: BOOLEAN, isActive: BOOLEAN, dev: Devs]]
        <4>1. CASE CreateKey(r)
          BY <4>1, <2>t DEF CreateKey, Types, c
        <4>2. CASE RevokeKey(r)
          <5>1. [apiKey[c.key] EXCEPT !.isActive = FALSE]
                  \in [exists: BOOLEAN, isActive: BOOLEAN, dev: Devs]
            BY <2>t
          <5>2. apiKey' = [apiKey EXCEPT ![c.key].isActive = FALSE]
            BY <4>2 DEF RevokeKey, c
          <5> QED BY <2>t, <5>1, <5>2 DEF Types
        <4> QED BY <2>4, <4>1, <4>2
      <3>2. PICK label \in {"ok", "failed", "audit"} : Goto(r, label)
        BY <2>4 DEF CreateKey, Written, RevokeKey
      <3>3. label \in Waiting \cup Answers
        BY DEF Waiting, Answers
      <3> QED BY <2>4, <2>t, <2>m, <3>1, <3>2, <3>3 DEF CreateKey, RevokeKey, Types
    <2>5. CASE FindKey(r) \/ AuditRevocation(r) \/ FindQuota(r) \/ FindDeveloper(r)
      <3>1. PICK label \in {"notFound", "forbidden", "revoke", "ok", "getCount", "upgrade"} :
               Goto(r, label)
        BY <2>5 DEF FindKey, AuditRevocation, FindQuota, FindDeveloper
      <3>2. label \in Waiting \cup Answers
        BY DEF Waiting, Answers
      <3>3. now' \in [Reqs -> 0..MaxTime] /\ row' \in [Reqs -> Plans]
        <4>1. CASE FindQuota(r)
          BY <4>1, <2>t DEF FindQuota, Types, c
        <4>2. CASE now' = now /\ row' = row
          BY <4>2, <2>t DEF Types
        <4> QED BY <2>5, <4>1, <4>2 DEF FindKey, AuditRevocation, FindDeveloper
      <3> QED BY <2>5, <2>t, <2>m, <3>1, <3>2, <3>3
              DEF FindKey, AuditRevocation, FindQuota, FindDeveloper, Types
    <2>6. CASE GetCount(r)
      <3>1. counter[UsageKey(r)].count \in Nat
        BY <2>t DEF Types, CounterRow
      <3> QED BY <2>6, <2>t, <3>1 DEF GetCount, Goto, Types, Answers
    <2>7. CASE UpgradePlan(r)
      <3>1. PICK label \in {"ok", "failed"} : Goto(r, label)
        BY <2>7 DEF UpgradePlan, Written
      <3>2. label \in Waiting \cup Answers
        BY DEF Answers
      <3>3. plan' \in [Devs -> Plans] /\ had' \in [Devs -> SUBSET Plans]
        BY <2>7, <2>t DEF UpgradePlan, Types, c
      <3> QED BY <2>7, <2>t, <2>m, <3>1, <3>2, <3>3 DEF UpgradePlan, Types
    <2>8. CASE Arrive(r) \/ Fail(r)
      <3>1. PICK label \in {"validate", "create", "find", "failed"} : Goto(r, label)
        BY <2>8 DEF Arrive, Fail, FirstStep
      <3>2. label \in Waiting \cup Answers
        BY DEF Waiting, Answers
      <3>3. seen' \in [Reqs -> SUBSET Reqs] /\ orphaned' \subseteq Counters
        BY <2>8, <2>t DEF Arrive, Fail, Types
      <3> QED BY <2>8, <2>t, <2>m, <3>1, <3>2, <3>3 DEF Arrive, Fail, Types
    <2> QED BY <1>3, <2>1, <2>2, <2>3, <2>4, <2>5, <2>6, <2>7, <2>8 DEF Step, Guard, Manage
  <1> QED BY <1>1, <1>2, <1>3, NextCases

LEMMA LabelsNext == TypeInv /\ [Next]_vars => LabelsOK'
  <1> SUFFICES ASSUME TypeInv, [Next]_vars PROVE LabelsOK'
    OBVIOUS
  <1>1. CASE UNCHANGED vars
    BY <1>1 DEF vars, TypeInv, LabelsOK
  <1>2. CASE Tick
    BY <1>2 DEF Tick, TypeInv, LabelsOK
  <1>3. ASSUME NEW r \in Reqs, Step(r) PROVE LabelsOK'
    <2>t. /\ Types /\ LabelsOK
          /\ call[r].op \in {"use", "create", "revoke", "quota", "upgrade"}
      BY CallFields DEF TypeInv
    <2>f. /\ call' = call /\ \A s \in Reqs : s # r => pc'[s] = pc[s]
      BY <1>3, <2>t, StepFrame
    <2>1. CASE Arrive(r) \/ Fail(r)
      BY <2>1, <2>t, <2>f DEF Arrive, Fail, FirstStep, Goto, Types, LabelsOK
    <2>2. CASE Guard(r)
      BY <2>2, <2>t, <2>f DEF Guard, ValidateKey, Compare, Incr, Expire, Decide, Goto, Types,
         LabelsOK
    <2>3. CASE Manage(r)
      BY <2>3, <2>t, <2>f DEF Manage, CreateKey, FindKey, RevokeKey, AuditRevocation, FindQuota,
         GetCount, FindDeveloper, UpgradePlan, Written, Goto, Types, LabelsOK
    <2> QED BY <1>3, <2>1, <2>2, <2>3 DEF Step
  <1> QED BY <1>1, <1>2, <1>3, NextCases

LEMMA NowNext == TypeInv /\ [Next]_vars => NowPast'
  <1> SUFFICES ASSUME TypeInv, [Next]_vars PROVE NowPast'
    OBVIOUS
  <1>1. CASE UNCHANGED vars
    BY <1>1 DEF vars, TypeInv, NowPast
  <1>t. Types /\ NowPast /\ MaxTime \in Nat /\ time \in 0..MaxTime
        /\ \A s \in Reqs : now[s] \in 0..MaxTime
    BY QuotaAssumption DEF TypeInv, Types
  <1>2. CASE Tick
    BY <1>2, <1>t, TickStep DEF NowPast
  <1>3. ASSUME NEW r \in Reqs, Step(r) PROVE NowPast'
    <2>1. now'[r] = now[r] \/ now'[r] = time
      BY <1>3, <1>t DEF Step, Arrive, Fail, Guard, ValidateKey, Compare, Incr, Expire, Manage,
         CreateKey, FindKey, RevokeKey, AuditRevocation, FindQuota, GetCount, FindDeveloper,
         UpgradePlan, Types
    <2>2. time' = time /\ \A s \in Reqs : s # r => now'[s] = now[s]
      BY <1>3, <1>t, StepFrame
    <2> QED BY <1>t, <2>1, <2>2 DEF NowPast
  <1> QED BY <1>1, <1>2, <1>3, NextCases

LEMMA TypeNext == TypeInv /\ [Next]_vars => TypeInv'
  BY TypesNext, LabelsNext, NowNext DEF TypeInv

-----------------------------------------------------------------------------
(* Counting.  A counter never says more than the requests that counted     *)
(* with its key in its month, each of which counted once.                  *)
Counted(c) == {r \in Reqs : call[r].op = "use" /\ count[r] > 0 /\ QuotaKey(r) = c}

CountOf(r) ==
    /\ count[r] <= Cardinality(Reqs)
    /\ call[r].op = "use" /\ pc[r] \in {"new", "validate", "compare", "incr"} => count[r] = 0
    /\ pc[r] = "expire" => count[r] = 1

CountInv ==
    /\ \A c \in Counters : counter[c].count <= Cardinality(Counted(c))
    /\ \A r \in Reqs : CountOf(r)

(* Sets of requests are finite, and counted as numbers are.                *)
LEMMA ReqsCount ==
    ASSUME NEW S \in SUBSET Reqs
    PROVE  /\ IsFiniteSet(S) /\ Cardinality(S) \in Nat /\ Cardinality(S) <= Cardinality(Reqs)
           /\ Cardinality(Reqs) \in Nat
           /\ \A T \in SUBSET S : Cardinality(T) <= Cardinality(S)
           /\ \A r \in Reqs \ S : Cardinality(S \cup {r}) = Cardinality(S) + 1
  BY FS_Subset, FS_CardinalityType, FS_AddElement, QuotaAssumption

(* Who has counted stays counted, under the same counter.                  *)
LEMMA CountedStays ==
    ASSUME TypeInv, CountInv, [Next]_vars, NEW r \in Reqs, call[r].op = "use", count[r] > 0
    PROVE  count'[r] = count[r] /\ QuotaKey(r)' = QuotaKey(r) /\ row'[r] = row[r]
  <1>0. pc[r] \notin {"new", "validate", "compare", "incr", "create", "find", "revoke", "audit",
                     "getCount", "upgrade"}
    BY DEF CountInv, CountOf, TypeInv, LabelsOK
  <1>t. Types
    BY DEF TypeInv
  <1>1. CASE UNCHANGED vars
    BY <1>1 DEF vars, QuotaKey
  <1>2. CASE Tick
    BY <1>2 DEF Tick, QuotaKey
  <1>3. ASSUME NEW s \in Reqs, Step(s)
        PROVE  count'[r] = count[r] /\ QuotaKey(r)' = QuotaKey(r) /\ row'[r] = row[r]
    <2>1. CASE s # r
      BY <1>3, <1>t, <2>1, StepFrame DEF QuotaKey
    <2>2. CASE Expire(r) \/ Fail(r)
      BY <2>2 DEF Expire, Fail, QuotaKey
    <2>3. CASE s = r /\ ~Expire(r) /\ ~Fail(r)
      BY <1>0, <1>3, <2>3 DEF Step, Arrive, Guard, ValidateKey, Compare, Incr, Manage, CreateKey,
         FindKey, RevokeKey, AuditRevocation, FindQuota, GetCount, FindDeveloper, UpgradePlan
    <2> QED BY <1>3, <2>1, <2>2, <2>3
  <1> QED BY <1>1, <1>2, <1>3, NextCases

LEMMA CountedGrows ==
    ASSUME TypeInv, CountInv, [Next]_vars, NEW c
    PROVE  Counted(c) \subseteq Counted(c)'
  <1>1. Reqs = {} \/ call' = call
    BY StepFrame, NextCases DEF TypeInv, vars, Tick
  <1> QED BY <1>1, CountedStays DEF Counted

(* A request that counts is one more of those its counter counts.          *)
LEMMA IncrCounts ==
    ASSUME TypeInv, CountInv, [Next]_vars, NEW r \in Reqs, Incr(r),
           NEW c \in Counters, c = QuotaKey(r)
    PROVE  /\ r \notin Counted(c) /\ Counted(c) \cup {r} \subseteq Counted(c)'
           /\ Cardinality(Counted(c)) + 1 <= Cardinality(Counted(c)')
           /\ counter[c].count + 1 <= Cardinality(Counted(c)')
  <1> DEFINE C == Counted(c)
             D == Counted(c)'
  <1>1. pc[r] = "incr" /\ call[r].op = "use" /\ call' = call /\ QuotaKey(r)' = c
    BY DEF Incr, TypeInv, LabelsOK, QuotaKey
  <1>2. r \notin C
    BY <1>1 DEF CountInv, CountOf, Counted
  <1>3. r \in D
    BY <1>1, IncrStep DEF Counted, TypeInv
  <1>4. C \subseteq D /\ C \in SUBSET Reqs /\ D \in SUBSET Reqs
    BY CountedGrows DEF Counted
  <1>5. counter[c].count \in Nat /\ counter[c].count <= Cardinality(C)
    BY DEF TypeInv, Types, CounterRow, CountInv
  <1> HIDE DEF C, D
  <1>6. C \cup {r} \in SUBSET D
    BY <1>3, <1>4
  <1>7. Cardinality(C \cup {r}) = Cardinality(C) + 1 /\ Cardinality(C \cup {r}) <= Cardinality(D)
        /\ Cardinality(C) \in Nat /\ Cardinality(D) \in Nat
    BY <1>2, <1>4, <1>6, ReqsCount
  <1> QED BY <1>2, <1>5, <1>6, <1>7 DEF C, D

LEMMA CountInit == Init => CountInv
  <1> SUFFICES ASSUME Init PROVE CountInv
    OBVIOUS
  <1>1. \A c \in Counters : counter[c].count <= Cardinality(Counted(c))
    <2> SUFFICES ASSUME NEW c \in Counters PROVE 0 <= Cardinality(Counted(c))
      BY DEF Init, NoCounter
    <2>1. Counted(c) \in SUBSET Reqs
      BY DEF Counted
    <2> QED BY <2>1, ReqsCount
  <1>2. Cardinality(Reqs) \in Nat
    BY ReqsCount
  <1>3. \A r \in Reqs : count[r] = 0 /\ pc[r] = "new"
    BY DEF Init
  <1> QED BY <1>1, <1>2, <1>3 DEF CountInv, CountOf

(* Only the guard's own steps and the clock touch counters.                *)
LEMMA CounterFrame ==
    ASSUME Types, [Next]_vars
    PROVE  \/ UNCHANGED counter \/ Tick
           \/ \E r \in Reqs : Incr(r) \/ Expire(r)
  <1>1. ASSUME NEW r \in Reqs, Step(r), ~Incr(r), ~Expire(r) PROVE UNCHANGED counter
    BY <1>1 DEF Step, Arrive, Fail, Guard, ValidateKey, Compare, Manage, CreateKey, FindKey,
       RevokeKey, AuditRevocation, FindQuota, GetCount, FindDeveloper, UpgradePlan
  <1> QED BY <1>1, NextCases DEF vars

LEMMA CountNext == TypeInv /\ CountInv /\ [Next]_vars => CountInv'
  <1> SUFFICES ASSUME TypeInv, CountInv, [Next]_vars PROVE CountInv'
    OBVIOUS
  <1>t. Types /\ TypeInv'
    BY TypeNext DEF TypeInv
  <1>1. ASSUME NEW c \in Counters PROVE counter'[c].count <= Cardinality(Counted(c)')
    <2> DEFINE C == Counted(c)
               D == Counted(c)'
    <2>1. /\ counter[c] \in CounterRow /\ counter'[c] \in CounterRow
          /\ counter[c].count <= Cardinality(C)
      BY <1>t DEF Types, TypeInv, CountInv
    <2>2. C \subseteq D /\ C \in SUBSET Reqs /\ D \in SUBSET Reqs
      BY CountedGrows DEF Counted
    <2>3. CASE \E r \in Reqs : Incr(r) /\ c = QuotaKey(r)
      BY <2>3, <1>t, IncrStep, IncrCounts
    <2>4. CASE counter'[c].count = counter[c].count \/ counter'[c].count = 0
      <3> HIDE DEF C, D
      <3>1. Cardinality(C) <= Cardinality(D) /\ Cardinality(C) \in Nat /\ Cardinality(D) \in Nat
        BY <2>2, ReqsCount
      <3>2. counter[c].count \in Nat /\ counter[c].count <= Cardinality(C)
        BY <2>1 DEF CounterRow
      <3>3. counter'[c].count <= Cardinality(D)
        BY <2>4, <3>1, <3>2
      <3> QED BY <3>3 DEF D
    <2>5. CASE Tick
      BY <2>4, <2>5, <1>t, TickStep DEF NoCounter
    <2>6. ASSUME NEW r \in Reqs, Incr(r), c # QuotaKey(r) PROVE counter'[c] = counter[c]
      BY <2>6, <1>t, IncrStep
    <2>7. ASSUME NEW r \in Reqs, Expire(r) PROVE counter'[c].count = counter[c].count
      BY <2>7, ExpireStep
    <2> QED BY <2>3, <2>4, <2>5, <2>6, <2>7, <1>t, CounterFrame
  <1>2. ASSUME NEW r \in Reqs PROVE CountOf(r)'
    <2>c. CountOf(r) /\ Cardinality(Reqs) \in Nat
      BY ReqsCount DEF CountInv
    <2>1. CASE UNCHANGED vars \/ Tick
      BY <2>1, <2>c DEF vars, Tick, CountOf
    <2>2. ASSUME NEW s \in Reqs, s # r, Step(s) PROVE CountOf(r)'
      <3>1. pc'[r] = pc[r] /\ count'[r] = count[r] /\ call' = call
        BY <2>2, <1>t, StepFrame
      <3> QED BY <3>1, <2>c DEF CountOf
    <2>3. ASSUME Step(r) PROVE CountOf(r)'
      <3>f. call' = call
        BY <2>3, <1>t, StepFrame
      <3>1. CASE Incr(r)
        <4> PICK c \in Counters : c = QuotaKey(r)
          BY <3>1, <1>t, IncrStep
        <4>1. Counted(c)' \in SUBSET Reqs
          BY DEF Counted
        <4>2. counter[c].count + 1 <= Cardinality(Counted(c)')
          BY <3>1, IncrCounts
        <4>3. /\ Cardinality(Counted(c)') <= Cardinality(Reqs)
              /\ Cardinality(Counted(c)') \in Nat
          BY <4>1, ReqsCount
        <4>4. count'[r] = counter[c].count + 1 /\ counter[c].count \in Nat
          BY <3>1, <1>t, IncrStep DEF Types, CounterRow
        <4>5. count'[r] <= Cardinality(Reqs)
          BY <4>2, <4>3, <4>4, <2>c
        <4>6. pc'[r] = "expire" => count'[r] = 1
          BY <3>1, <1>t, IncrStep, DecideStep
        <4>7. pc'[r] \notin {"new", "validate", "compare", "incr"}
          BY <3>1, <1>t, IncrStep, DecideStep
        <4> QED BY <4>5, <4>6, <4>7 DEF CountOf
      <3>2. CASE GetCount(r)
        <4>1. count'[r] = counter[QuotaKey(r)].count /\ QuotaKey(r) \in Counters /\ pc'[r] = "ok"
          BY <3>2, <1>t, CallFields DEF GetCount, Goto, Types
        <4> PICK c \in Counters : c = QuotaKey(r)
          BY <4>1
        <4>2. Counted(c) \in SUBSET Reqs
          BY DEF Counted
        <4>3. Cardinality(Counted(c)) <= Cardinality(Reqs) /\ Cardinality(Counted(c)) \in Nat
          BY <4>2, ReqsCount
        <4>4. counter[c].count <= Cardinality(Counted(c)) /\ counter[c].count \in Nat
          BY <1>t DEF CountInv, Types, CounterRow
        <4>5. count'[r] <= Cardinality(Reqs)
          BY <4>1, <4>3, <4>4, <2>c
        <4> QED BY <4>1, <4>5 DEF CountOf
      <3>3. CASE ~Incr(r) /\ ~GetCount(r)
        <4>1. count'[r] = count[r]
          BY <2>3, <3>3 DEF Step, Arrive, Fail, Guard, ValidateKey, Compare, Expire, Manage,
             CreateKey, FindKey, RevokeKey, AuditRevocation, FindQuota, FindDeveloper, UpgradePlan
        <4>2. /\ pc'[r] # "expire"
              /\ call[r].op = "use" /\ pc'[r] \in {"new", "validate", "compare", "incr"}
                 => pc[r] \in {"new", "validate", "compare"}
          <5>1. CASE Arrive(r)
            BY <5>1, <1>t DEF Arrive, FirstStep, Goto, Types
          <5>2. CASE ValidateKey(r) \/ Compare(r) \/ Fail(r)
            BY <5>2, <1>t DEF ValidateKey, Compare, Fail, Goto, Types
          <5>3. CASE Expire(r)
            <6>1. /\ pc[r] = "expire"
                  /\ Decide(r, count[r]) \/ pc'[r] = "failed"
              BY <5>3, ExpireStep
            <6> QED BY <6>1, <1>t, DecideStep
          <5>4. CASE Manage(r)
            BY <5>4, <3>3, <1>t DEF Manage, CreateKey, FindKey, RevokeKey, AuditRevocation,
                     FindQuota, FindDeveloper, UpgradePlan, Goto, Types, TypeInv, LabelsOK
          <5> QED BY <2>3, <3>3, <5>1, <5>2, <5>3, <5>4 DEF Step, Guard
        <4> QED BY <2>c, <3>f, <4>1, <4>2 DEF CountOf
      <3> QED BY <3>1, <3>2, <3>3
    <2> QED BY <2>1, <2>2, <2>3, NextCases
  <1> QED BY <1>1, <1>2 DEF CountInv

LEMMA Invariant == Spec => [](TypeInv /\ CountInv)
  <1>1. Init => TypeInv /\ CountInv
    BY TypeInit, CountInit
  <1>2. TypeInv /\ CountInv /\ [Next]_vars => (TypeInv /\ CountInv)'
    BY TypeNext, CountNext
  <1> QED BY <1>1, <1>2, PTL DEF Spec

(* Every table, counter and local variable keeps its type: in particular   *)
(* no counter passes the number of requests made.                          *)
THEOREM TypeCorrect == Spec => []TypeOK
  <1>1. TypeInv /\ CountInv => TypeOK
    <2> SUFFICES ASSUME TypeInv, CountInv PROVE TypeOK
      OBVIOUS
    <2>1. counter \in [Counters -> [count: 0..Cardinality(Reqs),
                                    expireAt: {Never} \cup 0..MaxTime + Month]]
      <3> SUFFICES ASSUME NEW c \in Counters
                   PROVE  counter[c].count \in 0..Cardinality(Reqs)
        BY DEF TypeInv, Types, CounterRow
      <3>1. Counted(c) \in SUBSET Reqs
        BY DEF Counted
      <3>2. Cardinality(Counted(c)) <= Cardinality(Reqs) /\ Cardinality(Counted(c)) \in Nat
            /\ Cardinality(Reqs) \in Nat
        BY <3>1, ReqsCount
      <3>3. counter[c].count <= Cardinality(Counted(c)) /\ counter[c].count \in Nat
        BY DEF CountInv, TypeInv, Types, CounterRow
      <3> QED BY <3>2, <3>3
    <2>2. \A r \in Reqs : count[r] \in 0..Cardinality(Reqs)
      BY ReqsCount DEF CountInv, CountOf, TypeInv, Types
    <2> QED BY <2>1, <2>2 DEF TypeOK, TypeInv, Types
  <1> QED BY <1>1, Invariant, PTL

-----------------------------------------------------------------------------
(* A counter without a time to live was left so by a first increment that  *)
(* found the month's last second, or whose EXPIRE failed, or is still to   *)
(* come.  By itself the property is inductive.                             *)
LEMMA ExpiryNext == TypeInv /\ CountersExpire /\ [Next]_vars => CountersExpire'
  <1> SUFFICES ASSUME TypeInv, CountersExpire, [Next]_vars,
                      NEW c \in Counters, counter'[c].count > 0, counter'[c].expireAt = Never
               PROVE  \/ c \in orphaned'
                      \/ \E r \in Reqs : pc'[r] = "expire" /\ QuotaKey(r)' = c
    BY DEF CountersExpire
  <1>t. Types /\ counter[c] \in CounterRow
    BY DEF TypeInv, Types
  <1> DEFINE Explained == c \in orphaned \/ \E r \in Reqs : pc[r] = "expire" /\ QuotaKey(r) = c
  <1>e. counter[c].count > 0 /\ counter[c].expireAt = Never => Explained
    BY DEF CountersExpire
  <1> HIDE DEF Explained
  <1>1. CASE UNCHANGED vars
    BY <1>1, <1>e DEF vars, Explained, QuotaKey
  <1>2. CASE Tick
    BY <1>2, <1>t, <1>e, TickStep DEF Explained, NoCounter, QuotaKey
  <1>3. ASSUME NEW s \in Reqs, Step(s)
        PROVE  \/ c \in orphaned'
               \/ \E r \in Reqs : pc'[r] = "expire" /\ QuotaKey(r)' = c
    <2>1. ASSUME NEW r \in Reqs, r # s, pc[r] = "expire"
          PROVE  pc'[r] = "expire" /\ QuotaKey(r)' = QuotaKey(r)
      BY <1>3, <1>t, <2>1, StepFrame DEF QuotaKey
    <2>2. orphaned \subseteq orphaned'
      BY <1>3 DEF Step, Arrive, Guard, ValidateKey, Compare, Incr, Expire, Manage, CreateKey,
         FindKey, RevokeKey, AuditRevocation, FindQuota, GetCount, FindDeveloper, UpgradePlan, Fail
    <2>3. CASE Explained /\ (pc[s] = "expire" => QuotaKey(s) # c)
      BY <2>1, <2>2, <2>3 DEF Explained
    <2>4. CASE Incr(s) /\ QuotaKey(s) = c
      <3>1. QuotaKey(s)' = c
        BY <2>4 DEF Incr, QuotaKey
      <3>2. CASE counter[c].count = 0
        BY <2>4, <3>1, <3>2, <1>t, IncrStep
      <3>3. CASE counter[c].count > 0
        <4>1. pc[s] = "incr" /\ counter[c].expireAt = Never
          BY <2>4, <1>t, IncrStep DEF Incr
        <4> QED BY <3>3, <4>1, <1>e, <2>3
      <3> QED BY <1>t, <3>2, <3>3 DEF CounterRow
    <2>5. CASE Incr(s) /\ QuotaKey(s) # c
      <3>1. counter'[c] = counter[c] /\ pc[s] = "incr"
        BY <2>5, <1>t, IncrStep DEF Incr
      <3> QED BY <3>1, <1>e, <2>3
    <2>6. CASE Expire(s)
      <3>1. QuotaKey(s) # c /\ counter'[c] = counter[c]
        BY <2>6, ExpireStep
      <3> QED BY <3>1, <1>e, <2>3
    <2>7. CASE Fail(s)
      <3>1. pc[s] = "expire" => orphaned' = orphaned \cup {QuotaKey(s)}
        BY <2>7 DEF Fail
      <3>2. counter' = counter
        BY <2>7 DEF Fail
      <3> QED BY <3>1, <3>2, <1>e, <2>3
    <2>8. CASE ~Incr(s) /\ ~Expire(s) /\ ~Fail(s)
      <3>1. counter' = counter /\ pc[s] # "expire"
        BY <1>3, <2>8, <1>t DEF Step, Arrive, Guard, ValidateKey, Compare, Manage, CreateKey,
           FindKey, RevokeKey, AuditRevocation, FindQuota, GetCount, FindDeveloper, UpgradePlan
      <3> QED BY <3>1, <1>e, <2>3
    <2> QED BY <2>4, <2>5, <2>6, <2>7, <2>8
  <1> QED BY <1>1, <1>2, <1>3, NextCases

(* redis.service.ts:21: INCR and EXPIRE are two calls, and only a failure  *)
(* between them, or a time to live of no whole second, leaves a counter    *)
(* that Redis never drops.                                                 *)
THEOREM OnlyOrphansStay == Spec => []CountersExpire
  <1>1. Init => CountersExpire
    BY DEF Init, CountersExpire, NoCounter
  <1>2. Spec => []TypeInv
    BY TypeInit, TypeNext, PTL DEF Spec
  <1> QED BY <1>1, <1>2, ExpiryNext, PTL DEF Spec

-----------------------------------------------------------------------------
(* The requests that count against r: RefusedForCause is about their number.*)
Others(r) == {s \in Reqs \ {r} :
    /\ call[s].op = "use" /\ call[s].key = call[r].key /\ count[s] > 0
    /\ MonthOf(now[s]) = MonthOf(now[r])}

LEMMA OthersCounted ==
    ASSUME NEW r \in Reqs, NEW c \in Counters, c = QuotaKey(r)
    PROVE  Others(r) = Counted(c) \ {r}
  BY DEF Others, Counted, QuotaKey

LEMMA RefusedNext == TypeInv /\ CountInv /\ RefusedForCause /\ [Next]_vars => RefusedForCause'
  <1> SUFFICES ASSUME TypeInv, CountInv, RefusedForCause, [Next]_vars,
                      NEW r \in Reqs, pc'[r] = "quotaExceeded"
               PROVE  Limit[row'[r]] <= Cardinality(Others(r)')
    BY DEF RefusedForCause, Others
  <1>t. Types /\ TypeInv'
    BY TypeNext DEF TypeInv
  <1>c. /\ QuotaKey(r) \in Counters
        /\ Limit[row[r]] \in Nat \ {0} /\ Limit[row'[r]] \in Nat \ {0}
    BY <1>t, CallFields, QuotaAssumption DEF TypeInv, Types
  <1> PICK c \in Counters : c = QuotaKey(r)
    BY <1>c
  <1> DEFINE Before == Counted(c) \ {r}
             After == Counted(c)' \ {r}
  <1>1. /\ Before \subseteq After /\ Before \in SUBSET Reqs /\ After \in SUBSET Reqs
    BY CountedGrows DEF Counted
  <1> HIDE DEF Before, After
  <1>2. Cardinality(Before) <= Cardinality(After)
        /\ Cardinality(Before) \in Nat /\ Cardinality(After) \in Nat
    BY <1>1, ReqsCount
  <1>3. ASSUME QuotaKey(r)' = c PROVE Others(r)' = After
    BY <1>3 DEF Others, Counted, QuotaKey, After
  <1>4. ASSUME pc[r] = "quotaExceeded", QuotaKey(r)' = QuotaKey(r), row'[r] = row[r]
        PROVE  Limit[row'[r]] <= Cardinality(Others(r)')
    <2>1. Limit[row[r]] <= Cardinality(Before)
      BY <1>4, OthersCounted DEF RefusedForCause, Others, Before
    <2> QED BY <1>2, <1>3, <1>4, <1>c, <2>1
  <1>5. CASE UNCHANGED vars \/ Tick
    BY <1>4, <1>5 DEF vars, Tick, QuotaKey
  <1>6. ASSUME NEW s \in Reqs, s # r, Step(s)
        PROVE  Limit[row'[r]] <= Cardinality(Others(r)')
    BY <1>4, <1>6, <1>t, StepFrame DEF QuotaKey
  <1>7. CASE Incr(r)
    <2>1. r \notin Counted(c) /\ counter[c].count <= Cardinality(Counted(c))
          /\ counter[c].count \in Nat
      BY <1>7, <1>t, IncrCounts DEF CountInv, Types, CounterRow
    <2>2. Before = Counted(c)
      BY <2>1 DEF Before
    <2>3. counter[c].count + 1 > Limit[row[r]] /\ row' = row /\ QuotaKey(r)' = c
      <3>1. row' = row /\ now' = now /\ call' = call /\ Decide(r, counter[c].count + 1)
        BY <1>7, <1>t, IncrStep DEF Incr
      <3>2. OverLimit(r, counter[c].count + 1)
        BY <3>1, <1>t, DecideStep
      <3> QED BY <3>1, <3>2 DEF OverLimit, QuotaKey
    <2> QED BY <1>2, <1>3, <1>c, <2>1, <2>2, <2>3
  <1>8. CASE Expire(r)
    <2>1. count[r] = 1 /\ OverLimit(r, count[r])
      BY <1>8, <1>t, ExpireStep, DecideStep DEF CountInv, CountOf
    <2> QED BY <1>c, <2>1 DEF OverLimit
  <1>9. ASSUME Step(r), ~Incr(r), ~Expire(r) PROVE FALSE
    BY <1>9, <1>t DEF Step, Arrive, Fail, Guard, ValidateKey, Compare, Manage, CreateKey, FindKey,
       RevokeKey, AuditRevocation, FindQuota, GetCount, FindDeveloper, UpgradePlan, Written,
       FirstStep, Goto, Types
  <1> QED BY <1>5, <1>6, <1>7, <1>8, <1>9, NextCases

(* "Quota Exceeded" means what it says: as many requests as the limit the  *)
(* guard had read counted before this one, with this key, in this month.   *)
THEOREM RefusalsAreEarned == Spec => []RefusedForCause
  <1>1. Init => RefusedForCause
    BY DEF Init, RefusedForCause
  <1> QED BY <1>1, Invariant, RefusedNext, PTL DEF Spec

-----------------------------------------------------------------------------
(* Keys.  Nobody names a key before the request that creates it is over,   *)
(* so a key once revoked is not made active again.                         *)
KeyNamed == \A s \in Reqs : pc[s] # "new" /\ call[s].key \in Reqs =>
    pc[call[s].key] \in {"ok", "failed"} /\ call[call[s].key].op = "create"

RevokedInactive == \A s \in Reqs : call[s].op = "revoke" /\ pc[s] \in {"audit", "ok"} =>
    ~apiKey[call[s].key].isActive

(* An answer is the end of a request.                                      *)
LEMMA AnswersStay ==
    ASSUME Types, [Next]_vars, NEW r \in Reqs, pc[r] \in Answers
    PROVE  pc'[r] = pc[r]
  <1>1. CASE UNCHANGED vars \/ Tick
    BY <1>1 DEF vars, Tick
  <1>2. ASSUME NEW s \in Reqs, s # r, Step(s) PROVE pc'[r] = pc[r]
    BY <1>2, StepFrame
  <1>3. ASSUME Step(r) PROVE FALSE
    BY <1>3 DEF Step, Arrive, Fail, Guard, ValidateKey, Compare, Incr, Expire, Manage, CreateKey,
       FindKey, RevokeKey, AuditRevocation, FindQuota, GetCount, FindDeveloper, UpgradePlan,
       Answers, Waiting
  <1> QED BY <1>1, <1>2, <1>3, NextCases

LEMMA CallStays ==
    ASSUME Types, [Next]_vars, NEW r \in Reqs
    PROVE  call' = call
  BY StepFrame, NextCases DEF vars, Tick

LEMMA KeyNamedNext == TypeInv /\ KeyNamed /\ [Next]_vars => KeyNamed'
  <1> SUFFICES ASSUME TypeInv, KeyNamed, [Next]_vars,
                      NEW r \in Reqs, pc'[r] # "new", call[r].key \in Reqs
               PROVE  /\ pc'[call[r].key] \in {"ok", "failed"}
                      /\ call[call[r].key].op = "create"
    BY CallStays DEF KeyNamed, TypeInv
  <1>t. Types
    BY DEF TypeInv
  <1>1. pc[call[r].key] \in {"ok", "failed"} => pc'[call[r].key] \in {"ok", "failed"}
    BY <1>t, AnswersStay DEF Answers
  <1>2. CASE pc[r] # "new"
    BY <1>1, <1>2 DEF KeyNamed
  <1>3. CASE pc[r] = "new"
    <2>1. Arrive(r)
      <3>1. CASE UNCHANGED vars \/ Tick
        BY <1>3, <3>1 DEF vars, Tick
      <3>2. ASSUME NEW s \in Reqs, s # r, Step(s) PROVE FALSE
        BY <1>3, <1>t, <3>2, StepFrame
      <3>3. CASE Step(r)
        BY <1>3, <3>3 DEF Step, Fail, Guard, ValidateKey, Compare, Incr, Expire, Manage,
           CreateKey, FindKey, RevokeKey, AuditRevocation, FindQuota, GetCount, FindDeveloper,
           UpgradePlan, Waiting
      <3> QED BY <3>1, <3>2, <3>3, NextCases
    <2> QED BY <1>1, <2>1 DEF Arrive
  <1> QED BY <1>2, <1>3

(* What a step does to a key: creation writes a key nobody has named.      *)
LEMMA KeySteps ==
    ASSUME TypeInv, KeyNamed, [Next]_vars, NEW s \in Reqs, pc[s] # "new"
    PROVE  LET k == call[s].key IN
           /\ apiKey'[k].dev = apiKey[k].dev
           /\ ~apiKey[k].isActive => ~apiKey'[k].isActive
  <1> DEFINE k == call[s].key
  <1>t. Types /\ k \in KeyIds
    BY CallFields DEF TypeInv
  <1>1. CASE UNCHANGED vars \/ Tick
    BY <1>1 DEF vars, Tick
  <1>2. ASSUME NEW r \in Reqs, Step(r)
        PROVE  apiKey'[k].dev = apiKey[k].dev /\ (~apiKey[k].isActive => ~apiKey'[k].isActive)
    <2>1. CASE CreateKey(r)
      <3>1. k # r
        BY <2>1 DEF CreateKey, KeyNamed
      <3> QED BY <1>t, <2>1, <3>1 DEF CreateKey, Types
    <2>2. CASE RevokeKey(r)
      BY <1>t, <2>2 DEF RevokeKey, Types
    <2>3. CASE ~CreateKey(r) /\ ~RevokeKey(r)
      BY <1>2, <2>3 DEF Step, Arrive, Fail, Guard, ValidateKey, Compare, Incr, Expire, Manage,
         FindKey, AuditRevocation, FindQuota, GetCount, FindDeveloper, UpgradePlan
    <2> QED BY <2>1, <2>2, <2>3
  <1> QED BY <1>1, <1>2, NextCases

LEMMA RevokedNext ==
    TypeInv /\ KeyNamed /\ RevokedInactive /\ [Next]_vars => RevokedInactive'
  <1> SUFFICES ASSUME TypeInv, KeyNamed, RevokedInactive, [Next]_vars,
                      NEW s \in Reqs, call[s].op = "revoke", pc'[s] \in {"audit", "ok"}
               PROVE  ~apiKey'[call[s].key].isActive
    BY CallStays DEF RevokedInactive, TypeInv
  <1>t. Types /\ call[s].key \in KeyIds
    BY CallFields DEF TypeInv
  <1>1. CASE pc[s] \in {"audit", "ok"}
    BY <1>1, KeySteps DEF RevokedInactive
  <1>2. CASE pc[s] \notin {"audit", "ok"}
    <2>1. Step(s)
      <3>1. CASE UNCHANGED vars \/ Tick
        BY <1>2, <3>1 DEF vars, Tick
      <3>2. ASSUME NEW r \in Reqs, r # s, Step(r) PROVE FALSE
        BY <1>2, <1>t, <3>2, StepFrame
      <3> QED BY <3>1, <3>2, NextCases
    <2>2. RevokeKey(s)
      BY <1>2, <2>1, <1>t DEF Step, Arrive, Fail, Guard, ValidateKey, Compare, Incr, Expire,
         Decide, Manage, CreateKey, FindKey, AuditRevocation, FindQuota, GetCount, FindDeveloper,
         UpgradePlan, Written, FirstStep, Goto, Types, TypeInv, LabelsOK
    <2> QED BY <1>t, <2>2 DEF RevokeKey, Types
  <1> QED BY <1>1, <1>2

(* A request that arrived after the revocation never passes validateKey.   *)
SeenAnswered == \A r \in Reqs : \A s \in seen[r] : pc[s] \in Answers

TooLate == \A r \in Reqs : \A s \in seen[r] :
    /\ call[r].op = "use" /\ call[s].op = "revoke" /\ pc[s] = "ok"
    /\ call[s].key = call[r].key
    => pc[r] \in {"validate", "unauthorized", "failed"}

KeyInv == KeyNamed /\ RevokedInactive /\ SeenAnswered /\ TooLate

LEMMA KeyInit == Init => KeyInv
  BY DEF Init, KeyInv, KeyNamed, RevokedInactive, SeenAnswered, TooLate

LEMMA KeyNext == TypeInv /\ KeyInv /\ [Next]_vars => KeyInv'
  <1> SUFFICES ASSUME TypeInv, KeyInv, [Next]_vars PROVE KeyInv'
    OBVIOUS
  <1>t. Types
    BY DEF TypeInv
  <1>1. KeyNamed' /\ RevokedInactive'
    BY KeyNamedNext, RevokedNext DEF KeyInv
  <1>2. ASSUME NEW r \in Reqs, NEW s \in seen'[r]
        PROVE  /\ s \in Reqs /\ pc[s] \in Answers /\ pc'[s] = pc[s]
               /\ seen'[r] = seen[r] \/ Arrive(r)
    <2>1. seen'[r] = seen[r] \/ Arrive(r)
      <3>1. CASE UNCHANGED vars \/ Tick
        BY <3>1 DEF vars, Tick
      <3>2. ASSUME NEW a \in Reqs, a # r, Step(a) PROVE seen'[r] = seen[r]
        BY <1>t, <3>2, StepFrame
      <3>3. CASE Step(r)
        BY <3>3 DEF Step, Fail, Guard, ValidateKey, Compare, Incr, Expire, Manage, CreateKey,
           FindKey, RevokeKey, AuditRevocation, FindQuota, GetCount, FindDeveloper, UpgradePlan
      <3> QED BY <3>1, <3>2, <3>3, NextCases
    <2>2. s \in Reqs /\ pc[s] \in Answers
      BY <1>2, <1>t, <2>1 DEF Arrive, KeyInv, SeenAnswered, Types
    <2> QED BY <1>t, <2>1, <2>2, AnswersStay
  <1>3. SeenAnswered'
    BY <1>2 DEF SeenAnswered
  <1>4. TooLate'
    <2> SUFFICES ASSUME NEW r \in Reqs, NEW s \in seen'[r],
                        call[r].op = "use", call[s].op = "revoke", pc'[s] = "ok",
                        call[s].key = call[r].key
                 PROVE  pc'[r] \in {"validate", "unauthorized", "failed"}
      BY CallStays, <1>t DEF TooLate
    <2>1. s \in Reqs /\ pc[s] = "ok" /\ ~apiKey[call[r].key].isActive
      BY <1>2 DEF KeyInv, RevokedInactive
    <2>2. CASE Arrive(r)
      BY <2>2, <1>t DEF Arrive, FirstStep, Goto, Types
    <2>3. CASE ~Arrive(r)
      <3>1. pc[r] \in {"validate", "unauthorized", "failed"}
        BY <1>2, <2>1, <2>3 DEF KeyInv, TooLate
      <3>2. CASE UNCHANGED vars \/ Tick
        BY <3>1, <3>2 DEF vars, Tick
      <3>3. ASSUME NEW a \in Reqs, a # r, Step(a)
            PROVE  pc'[r] \in {"validate", "unauthorized", "failed"}
        BY <1>t, <3>1, <3>3, StepFrame
      <3>4. CASE Step(r)
        BY <1>t, <2>1, <2>3, <3>1, <3>4 DEF Step, Fail, Guard, ValidateKey, Compare, Incr, Expire,
           Manage, CreateKey, FindKey, RevokeKey, AuditRevocation, FindQuota, GetCount,
           FindDeveloper, UpgradePlan, Goto, Types
      <3> QED BY <3>2, <3>3, <3>4, NextCases
    <2> QED BY <2>2, <2>3
  <1> QED BY <1>1, <1>3, <1>4 DEF KeyInv

(* A request that arrives after revokeKey was answered finds the key       *)
(* inactive, whatever else is under way, and is not let through.           *)
THEOREM RevocationHolds == Spec => []RevokedKeyRefused
  <1>1. KeyInv => RevokedKeyRefused
    BY DEF KeyInv, TooLate, RevokedKeyRefused
  <1>2. TypeInv /\ KeyInv /\ [Next]_vars => (TypeInv /\ KeyInv)'
    BY TypeNext, KeyNext
  <1> QED BY <1>1, <1>2, TypeInit, KeyInit, PTL DEF Spec

-----------------------------------------------------------------------------
(* The quota.  A counter that lives on dies only in its month's last       *)
(* second; the requests let through counted, and are still answered; a     *)
(* plan in a table or in a row is one the developer had.                   *)
ExpireLate == \A c \in Counters :
    counter[c].expireAt # Never => (c[2] + 1) * Month - Second < counter[c].expireAt

AdmittedCounted == \A c \in Counters : \A r \in admitted[c] : r \in Counted(c) /\ pc[r] = "ok"

PlanHad == \A d \in Devs : HadPlan(d, plan[d])

RowHad == \A r \in Reqs :
    pc[r] \in {"compare", "incr"} => HadPlan(apiKey[call[r].key].dev, row[r])

PlanInv == ExpireLate /\ AdmittedCounted /\ PlanHad /\ RowHad

LEMMA ExpireLateNext == TypeInv /\ ExpireLate /\ [Next]_vars => ExpireLate'
  <1> SUFFICES ASSUME TypeInv, ExpireLate, [Next]_vars,
                      NEW c \in Counters, counter'[c].expireAt # Never
               PROVE  (c[2] + 1) * Month - Second < counter'[c].expireAt
    BY DEF ExpireLate
  <1>t. Types
    BY DEF TypeInv
  <1>e. counter'[c].expireAt = counter[c].expireAt
        => (c[2] + 1) * Month - Second < counter'[c].expireAt
    BY DEF ExpireLate
  <1> HIDE DEF Month
  <1>1. CASE UNCHANGED counter
    BY <1>1, <1>e
  <1>2. CASE Tick
    BY <1>2, <1>e, <1>t, TickStep DEF NoCounter
  <1>3. ASSUME NEW r \in Reqs, Incr(r) PROVE counter'[c].expireAt = counter[c].expireAt
    BY <1>3, <1>t, IncrStep
  <1>4. ASSUME NEW r \in Reqs, Expire(r)
        PROVE  (c[2] + 1) * Month - Second < counter'[c].expireAt
    BY <1>4, <1>e, <1>t, ExpireStep
  <1> QED BY <1>1, <1>2, <1>3, <1>4, <1>e, <1>t, CounterFrame

LEMMA AdmittedNext == TypeInv /\ CountInv /\ AdmittedCounted /\ [Next]_vars => AdmittedCounted'
  <1> SUFFICES ASSUME TypeInv, CountInv, AdmittedCounted, [Next]_vars,
                      NEW c \in Counters, NEW r \in admitted'[c]
               PROVE  r \in Counted(c)' /\ pc'[r] = "ok"
    BY DEF AdmittedCounted
  <1>t. Types
    BY DEF TypeInv
  <1>1. CASE r \in admitted[c]
    <2>1. r \in Counted(c) /\ pc[r] = "ok" /\ r \in Reqs
      BY <1>1 DEF AdmittedCounted, Counted
    <2> QED BY <1>t, <2>1, CountedGrows, AnswersStay DEF Answers
  <1>2. CASE r \notin admitted[c]
    <2>1. CASE UNCHANGED vars \/ Tick
      BY <1>2, <2>1 DEF vars, Tick
    <2>2. ASSUME NEW s \in Reqs, Step(s), ~Incr(s), ~Expire(s) PROVE FALSE
      BY <1>2, <2>2 DEF Step, Arrive, Fail, Guard, ValidateKey, Compare, Manage, CreateKey,
         FindKey, RevokeKey, AuditRevocation, FindQuota, GetCount, FindDeveloper, UpgradePlan
    <2>3. ASSUME NEW s \in Reqs, NEW n, Decide(s, n)
          PROVE  s = r /\ QuotaKey(r) = c /\ pc'[r] = "ok"
      <3>1. /\ QuotaKey(s) \in Counters /\ admitted' # admitted
            /\ \/ admitted' = admitted
               \/ /\ pc'[s] = "ok"
                  /\ admitted' = [admitted EXCEPT ![QuotaKey(s)] = @ \cup {s}]
        BY <1>2, <1>t, <2>3, DecideStep
      <3> QED BY <1>2, <1>t, <3>1 DEF Types
    <2>4. ASSUME NEW s \in Reqs, Incr(s) PROVE r \in Counted(c)' /\ pc'[r] = "ok"
      <3>1. Decide(s, counter[QuotaKey(s)].count + 1)
        BY <1>2, <1>t, <2>4, IncrStep
      <3>2. s = r /\ QuotaKey(r) = c /\ pc'[r] = "ok"
        BY <2>3, <3>1
      <3> QED BY <2>4, <3>2, IncrCounts
    <2>5. ASSUME NEW s \in Reqs, Expire(s) PROVE r \in Counted(c)' /\ pc'[r] = "ok"
      <3>1. Decide(s, count[s])
        BY <1>2, <2>5, ExpireStep
      <3>2. s = r /\ QuotaKey(r) = c /\ pc'[r] = "ok"
        BY <2>3, <3>1
      <3>3. r \in Counted(c)
        BY <2>5, <3>2 DEF Expire, CountInv, CountOf, TypeInv, LabelsOK, Counted
      <3> QED BY <3>2, <3>3, CountedGrows
    <2> QED BY <2>1, <2>2, <2>4, <2>5, NextCases
  <1> QED BY <1>1, <1>2

(* A plan once had was had.                                                *)
LEMMA HadGrows ==
    ASSUME Types, [Next]_vars, NEW d \in Devs
    PROVE  /\ had[d] \subseteq had'[d]
           /\ plan'[d] = plan[d] \/ plan'[d] \in had'[d]
  <1>1. CASE UNCHANGED vars \/ Tick
    BY <1>1 DEF vars, Tick
  <1>2. ASSUME NEW r \in Reqs, Step(r)
        PROVE  had[d] \subseteq had'[d] /\ (plan'[d] = plan[d] \/ plan'[d] \in had'[d])
    <2>1. CASE UpgradePlan(r)
      BY <2>1 DEF UpgradePlan, Types
    <2>2. CASE ~UpgradePlan(r)
      BY <1>2, <2>2 DEF Step, Arrive, Fail, Guard, ValidateKey, Compare, Incr, Expire, Manage,
         CreateKey, FindKey, RevokeKey, AuditRevocation, FindQuota, GetCount, FindDeveloper
    <2> QED BY <2>1, <2>2
  <1> QED BY <1>1, <1>2, NextCases

LEMMA PlanHadNext == TypeInv /\ PlanHad /\ [Next]_vars => PlanHad'
  BY HadGrows DEF PlanHad, HadPlan, TypeInv

LEMMA RowHadNext == TypeInv /\ KeyNamed /\ PlanHad /\ RowHad /\ [Next]_vars => RowHad'
  <1> SUFFICES ASSUME TypeInv, KeyNamed, PlanHad, RowHad, [Next]_vars,
                      NEW r \in Reqs, pc'[r] \in {"compare", "incr"}
               PROVE  HadPlan(apiKey[call[r].key].dev, row[r])'
    BY DEF RowHad
  <1>t. Types /\ call' = call
    BY CallStays DEF TypeInv
  <1>1. CASE pc[r] \in {"compare", "incr"} /\ row'[r] = row[r]
    <2>1. apiKey'[call[r].key].dev = apiKey[call[r].key].dev
      BY <1>1, KeySteps
    <2>2. apiKey[call[r].key].dev \in Devs
      BY <1>t, CallFields DEF Types
    <2> QED BY <1>1, <1>t, <2>1, <2>2, HadGrows DEF RowHad, HadPlan
  <1>2. CASE UNCHANGED vars \/ Tick
    BY <1>1, <1>2 DEF vars, Tick
  <1>3. ASSUME NEW s \in Reqs, s # r, Step(s)
        PROVE  HadPlan(apiKey[call[r].key].dev, row[r])'
    BY <1>1, <1>3, <1>t, StepFrame
  <1>4. CASE Step(r)
    <2>1. CASE ValidateKey(r)
      <3>1. apiKey[call[r].key].dev \in Devs
        BY <1>t, CallFields DEF Types
      <3>2. row'[r] = plan[apiKey[call[r].key].dev] /\ apiKey' = apiKey
        BY <1>t, <2>1 DEF ValidateKey, Goto, Types
      <3>3. had' = had
        BY <2>1 DEF ValidateKey
      <3> QED BY <1>t, <3>1, <3>2, <3>3 DEF PlanHad, HadPlan
    <2>2. CASE ~ValidateKey(r)
      <3>1. CASE Compare(r)
        BY <1>1, <3>1 DEF Compare
      <3>2. CASE Incr(r) \/ Expire(r)
        BY <1>t, <3>2 DEF Incr, Expire, Decide, Goto, Types
      <3>3. CASE Arrive(r) \/ Fail(r)
        BY <1>t, <3>3 DEF Arrive, Fail, FirstStep, Goto, Types
      <3>4. CASE Manage(r)
        BY <1>t, <3>4 DEF Manage, CreateKey, FindKey, RevokeKey, AuditRevocation, FindQuota,
           GetCount, FindDeveloper, UpgradePlan, Written, Goto, Types
      <3> QED BY <1>4, <2>2, <3>1, <3>2, <3>3, <3>4 DEF Step, Guard
    <2> QED BY <2>1, <2>2
  <1> QED BY <1>2, <1>3, <1>4, NextCases

LEMMA PlanInit == Init => PlanInv
  BY QuotaAssumption
     DEF Init, PlanInv, ExpireLate, AdmittedCounted, PlanHad, RowHad, NoCounter, HadPlan

LEMMA PlanNext == TypeInv /\ CountInv /\ KeyInv /\ PlanInv /\ [Next]_vars => PlanInv'
  BY ExpireLateNext, AdmittedNext, PlanHadNext, RowHadNext DEF PlanInv, KeyInv

(* The requests a counter has let through, or will: one on its way to      *)
(* EXPIRE was the first of its month, and the limit is at least one.       *)
Granted(c) == admitted[c] \cup {r \in Reqs : pc[r] = "expire" /\ QuotaKey(r) = c}

BeforeLastSecond(c) == time <= (c[2] + 1) * Month - Second

(* Before the last second every grant is in the count, and the grants are  *)
(* within the limit of a plan the developer had.                           *)
GrantsCovered(c) ==
    /\ Cardinality(Granted(c)) <= counter[c].count
    /\ \E p \in Plans : HadPlan(apiKey[c[1]].dev, p) /\ Cardinality(Granted(c)) <= Limit[p]

QuotaInv == \A c \in Counters : BeforeLastSecond(c) => GrantsCovered(c)

(* A step grants nothing, or one request that counts within its limit.     *)
LEMMA GrantedSteps ==
    ASSUME TypeInv, CountInv, AdmittedCounted, [Next]_vars, NEW c \in Counters
    PROVE  \/ Granted(c)' \subseteq Granted(c)
           \/ \E r \in Reqs : /\ Incr(r) /\ c = QuotaKey(r)
                              /\ counter[c].count + 1 <= Limit[row[r]]
                              /\ Granted(c)' \subseteq Granted(c) \cup {r}
  <1>t. Types
    BY DEF TypeInv
  <1>1. CASE UNCHANGED vars \/ Tick
    BY <1>1 DEF vars, Tick, Granted, QuotaKey
  <1>2. ASSUME NEW r \in Reqs, Step(r)
        PROVE  \/ Granted(c)' \subseteq Granted(c)
               \/ /\ Incr(r) /\ c = QuotaKey(r)
                  /\ counter[c].count + 1 <= Limit[row[r]]
                  /\ Granted(c)' \subseteq Granted(c) \cup {r}
    <2>1. ASSUME NEW s \in Reqs, s # r, pc'[s] = "expire", QuotaKey(s)' = c
          PROVE  pc[s] = "expire" /\ QuotaKey(s) = c
      BY <1>2, <1>t, <2>1, StepFrame DEF QuotaKey
    <2>2. ASSUME admitted'[c] \subseteq admitted[c] \cup {r}
          PROVE  Granted(c)' \subseteq Granted(c) \cup {r}
      BY <2>1, <2>2 DEF Granted
    <2>3. ASSUME admitted'[c] = admitted[c], pc'[r] = "expire" => QuotaKey(r)' # c
          PROVE  Granted(c)' \subseteq Granted(c)
      BY <2>1, <2>3 DEF Granted
    <2>4. CASE Incr(r)
      <3> DEFINE n == counter[QuotaKey(r)].count + 1
      <3>1. /\ QuotaKey(r)' = QuotaKey(r)
            /\ \/ n = 1 /\ pc'[r] = "expire" /\ admitted' = admitted
               \/ Decide(r, n)
               \/ pc'[r] = "failed" /\ admitted' = admitted
        BY <1>t, <2>4, IncrStep DEF QuotaKey, Incr
      <3>l. Limit[row[r]] \in Nat \ {0} /\ n \in Nat
        BY <1>t, <2>4, IncrStep, QuotaAssumption DEF Types
      <3> HIDE DEF n
      <3>2. \/ n = 1 /\ pc'[r] = "expire" /\ admitted' = admitted
            \/ pc'[r] \in {"quotaExceeded", "failed"} /\ admitted' = admitted
            \/ /\ ~OverLimit(r, n) /\ pc'[r] = "ok"
               /\ admitted' = [admitted EXCEPT ![QuotaKey(r)] = @ \cup {r}]
        BY <1>t, <3>1, DecideStep
      <3>3. CASE c # QuotaKey(r)
        BY <1>t, <2>3, <3>1, <3>2, <3>3 DEF Types
      <3>4. CASE c = QuotaKey(r)
        <4>1. CASE pc'[r] \in {"quotaExceeded", "failed"}
          BY <2>3, <3>2, <4>1
        <4>2. CASE pc'[r] \notin {"quotaExceeded", "failed"}
          <5>1. n <= Limit[row[r]]
            BY <3>2, <3>l, <4>2 DEF OverLimit
          <5>2. admitted'[c] \subseteq admitted[c] \cup {r}
            BY <1>t, <3>2, <3>4 DEF Types
          <5> QED BY <2>2, <2>4, <3>4, <5>1, <5>2 DEF n
        <4> QED BY <4>1, <4>2
      <3> QED BY <3>3, <3>4
    <2>5. CASE Expire(r)
      <3>1. /\ pc[r] = "expire" /\ QuotaKey(r)' = QuotaKey(r)
            /\ Decide(r, count[r]) \/ (pc'[r] = "failed" /\ admitted' = admitted)
        BY <2>5, ExpireStep DEF Expire, QuotaKey
      <3>2. /\ pc'[r] # "expire"
            /\ \/ admitted' = admitted
               \/ admitted' = [admitted EXCEPT ![QuotaKey(r)] = @ \cup {r}]
        BY <1>t, <3>1, DecideStep
      <3>3. CASE c # QuotaKey(r)
        BY <1>t, <2>3, <3>2, <3>3 DEF Types
      <3>4. CASE c = QuotaKey(r)
        <4>1. r \in Granted(c) /\ admitted'[c] \subseteq admitted[c] \cup {r}
          BY <1>t, <3>1, <3>2, <3>4 DEF Granted, Types
        <4> QED BY <2>2, <4>1
      <3> QED BY <3>3, <3>4
    <2>6. CASE ~Incr(r) /\ ~Expire(r)
      <3>1. admitted' = admitted
        BY <1>2, <2>6 DEF Step, Arrive, Fail, Guard, ValidateKey, Compare, Manage, CreateKey,
           FindKey, RevokeKey, AuditRevocation, FindQuota, GetCount, FindDeveloper, UpgradePlan
      <3>2. pc'[r] # "expire"
        <4>1. CASE Arrive(r)
          BY <1>t, <4>1 DEF Arrive, FirstStep, Goto, Types
        <4>2. CASE ValidateKey(r) \/ Compare(r) \/ Fail(r)
          BY <1>t, <4>2 DEF ValidateKey, Compare, Fail, Goto, Types
        <4>3. CASE Manage(r)
          BY <1>t, <4>3 DEF Manage, CreateKey, FindKey, RevokeKey, AuditRevocation, FindQuota,
             GetCount, FindDeveloper, UpgradePlan, Written, Goto, Types
        <4> QED BY <1>2, <2>6, <4>1, <4>2, <4>3 DEF Step, Guard
      <3> QED BY <2>3, <3>1, <3>2
    <2> QED BY <2>4, <2>5, <2>6
  <1> QED BY <1>1, <1>2, NextCases

LEMMA QuotaInit == Init => QuotaInv
  <1> SUFFICES ASSUME Init, NEW c \in Counters PROVE GrantsCovered(c)
    BY DEF QuotaInv
  <1>1. Granted(c) = {}
    BY DEF Init, Granted
  <1>2. Cardinality(Granted(c)) = 0
    BY <1>1, FS_EmptySet
  <1>3. counter[c].count = 0
    BY DEF Init, NoCounter
  <1>4. apiKey[c[1]].dev \in Devs
    BY TypeInit DEF TypeInv, Types, Counters
  <1>5. PICK d \in Devs : d = apiKey[c[1]].dev
    BY <1>4
  <1>6. Plan[d] \in Plans /\ Limit[Plan[d]] \in Nat
    BY QuotaAssumption
  <1>7. HadPlan(d, Plan[d])
    BY DEF Init, HadPlan
  <1> QED BY <1>2, <1>3, <1>5, <1>6, <1>7 DEF GrantsCovered

LEMMA QuotaNext ==
    TypeInv /\ CountInv /\ KeyInv /\ PlanInv /\ QuotaInv /\ [Next]_vars => QuotaInv'
  <1> SUFFICES ASSUME TypeInv, CountInv, KeyInv, PlanInv, QuotaInv, [Next]_vars,
                      NEW c \in Counters, BeforeLastSecond(c)'
               PROVE  GrantsCovered(c)'
    BY DEF QuotaInv
  <1>h. \A e \in Devs : had[e] \subseteq had'[e]
    BY HadGrows DEF TypeInv
  <1>t. Types /\ TypeInv' /\ call' = call
    BY TypeNext, StepFrame, NextCases DEF TypeInv, vars, Tick
  <1> DEFINE G == Granted(c)
             H == Granted(c)'
             N == Cardinality(H)
             d == apiKey'[c[1]].dev
  <1>1. GrantsCovered(c) /\ (Tick => counter'[c] = counter[c])
    <2> HIDE DEF Month
    <2>0. /\ time \in 0..MaxTime /\ MaxTime \in Nat /\ c[2] \in Nat /\ Second \in Nat
          /\ Month \in Nat
      BY <1>t, QuotaAssumption, MonthType, MonthFacts DEF Types, Counters
    <2>1. time' = time \/ (Tick /\ time' = time + 1)
      <3>1. CASE UNCHANGED vars
        BY <3>1 DEF vars
      <3>2. CASE Tick
        BY <3>2 DEF Tick
      <3>3. ASSUME NEW r \in Reqs, Step(r) PROVE time' = time
        BY <1>t, <3>3, StepFrame
      <3> QED BY <3>1, <3>2, <3>3, NextCases
    <2>2. (c[2] + 1) * Month - Second \in Int
      BY <2>0
    <2>3. BeforeLastSecond(c)
      BY <2>0, <2>1, <2>2 DEF BeforeLastSecond
    <2>4. ASSUME Tick PROVE counter'[c] = counter[c]
      <3>1. counter[c].expireAt # Never => ~(counter[c].expireAt <= time')
        <4>1. counter[c].expireAt \in {Never} \cup 0..MaxTime + Month
          BY <1>t DEF Types, CounterRow
        <4> QED BY <2>0, <2>2, <2>4, <2>1, <4>1
                DEF PlanInv, ExpireLate, BeforeLastSecond, Tick
      <3> QED BY <1>t, <2>4, <3>1, TickStep
    <2> QED BY <2>3, <2>4 DEF QuotaInv
  <1>2. G \in SUBSET Reqs /\ H \in SUBSET Reqs
    BY <1>t DEF Granted, Types, TypeInv
  <1>n. /\ Cardinality(G) \in Nat /\ N \in Nat
        /\ counter[c].count \in Nat /\ counter'[c].count \in Nat
    <2>1. counter[c].count \in Nat /\ counter'[c].count \in Nat
      BY <1>t DEF Types, TypeInv, CounterRow
    <2> HIDE DEF G, H
    <2> QED BY <1>2, <2>1, ReqsCount
  <1>3. N <= Cardinality(G) \/ \E r \in Reqs : /\ Incr(r) /\ c = QuotaKey(r)
                                               /\ counter[c].count + 1 <= Limit[row[r]]
                                               /\ N <= Cardinality(G) + 1
    <2>1. \/ H \subseteq G
          \/ \E r \in Reqs : /\ Incr(r) /\ c = QuotaKey(r)
                             /\ counter[c].count + 1 <= Limit[row[r]]
                             /\ H \subseteq G \cup {r}
      BY GrantedSteps DEF PlanInv
    <2>2. ASSUME NEW S \in SUBSET Reqs, NEW T \in SUBSET Reqs, NEW r \in Reqs
          PROVE  /\ T \subseteq S => Cardinality(T) <= Cardinality(S)
                 /\ T \subseteq S \cup {r} => Cardinality(T) <= Cardinality(S) + 1
      <3>1. CASE r \in S
        <4>1. S \cup {r} = S
          BY <3>1
        <4> QED BY <4>1, ReqsCount
      <3>2. CASE r \notin S
        <4>1. S \cup {r} \in SUBSET Reqs
          OBVIOUS
        <4> QED BY <3>2, <4>1, ReqsCount
      <3> QED BY <3>1, <3>2
    <2>3. H \subseteq G => N <= Cardinality(G)
      <3> HIDE DEF G, H
      <3> QED BY <1>2, ReqsCount
    <2> HIDE DEF G, H
    <2> QED BY <1>2, <2>1, <2>2, <2>3
  <1>4. N <= counter'[c].count
    <2>1. ASSUME NEW r \in Reqs, Incr(r), c = QuotaKey(r)
          PROVE  counter'[c].count = counter[c].count + 1
      BY <1>t, <2>1, IncrStep
    <2>2. ASSUME \A r \in Reqs : Incr(r) => c # QuotaKey(r)
          PROVE  counter'[c].count = counter[c].count
      <3>1. ASSUME NEW r \in Reqs, Incr(r) PROVE counter'[c].count = counter[c].count
        BY <1>t, <2>2, <3>1, IncrStep
      <3>2. ASSUME NEW r \in Reqs, Expire(r) PROVE counter'[c].count = counter[c].count
        BY <3>2, ExpireStep
      <3> QED BY <1>1, <1>t, <3>1, <3>2, CounterFrame
    <2>3. Cardinality(G) <= counter[c].count
      BY <1>1 DEF GrantsCovered
    <2> HIDE DEF N, G, H
    <2>4. CASE \E r \in Reqs : Incr(r) /\ c = QuotaKey(r)
      BY <1>3, <1>n, <2>1, <2>3, <2>4
    <2>5. CASE \A r \in Reqs : Incr(r) => c # QuotaKey(r)
      BY <1>3, <1>n, <2>2, <2>3, <2>5
    <2> QED BY <2>4, <2>5
  <1>5. \E p \in Plans : p \in had'[d] /\ N <= Limit[p]
    <2>1. CASE N <= Cardinality(G)
      <3>1. CASE G = {}
        <4>1. N = 0
          BY <2>1, <3>1, <1>n, FS_EmptySet
        <4>2. d \in Devs
          BY <1>t DEF TypeInv, Types, Counters
        <4>3. plan'[d] \in Plans /\ Limit[plan'[d]] \in Nat /\ plan'[d] \in had'[d]
          BY <4>2, <1>t, PlanHadNext, QuotaAssumption
             DEF PlanInv, PlanHad, HadPlan, TypeInv, Types
        <4> QED BY <4>1, <4>3
      <3>2. CASE G # {}
        <4>1. PICK r \in G : r \in Reqs
          BY <3>2, <1>2
        <4>2. pc[r] # "new" /\ call[r].key = c[1]
          BY <4>1, <1>t DEF Granted, PlanInv, AdmittedCounted, Counted, QuotaKey
        <4>3. d = apiKey[c[1]].dev /\ d \in Devs
          BY <4>1, <4>2, <1>t, KeySteps DEF KeyInv, TypeInv, Types, Counters
        <4>4. PICK p \in Plans : HadPlan(apiKey[c[1]].dev, p) /\ Cardinality(G) <= Limit[p]
          BY <1>1 DEF GrantsCovered
        <4>5. p \in had'[d]
          BY <4>3, <4>4, <1>h DEF HadPlan
        <4>6. Limit[p] \in Nat
          BY QuotaAssumption
        <4> HIDE DEF N, G, d
        <4> QED BY <2>1, <1>n, <4>4, <4>5, <4>6
      <3> QED BY <3>1, <3>2
    <2>2. ASSUME NEW r \in Reqs, Incr(r), c = QuotaKey(r),
                 counter[c].count + 1 <= Limit[row[r]]
          PROVE  \E p \in Plans : p \in had'[d] /\ N <= Limit[p]
      <3>1. N <= counter[c].count + 1
        <4>1. counter'[c].count = counter[c].count + 1
          BY <1>t, <2>2, IncrStep
        <4> QED BY <1>4, <4>1
      <3>2. pc[r] = "incr" /\ call[r].key = c[1] /\ apiKey' = apiKey
        BY <2>2 DEF Incr, QuotaKey
      <3>3. row[r] \in had'[d]
        <4>1. d \in Devs
          BY <1>t DEF TypeInv, Types, Counters
        <4> QED BY <1>h, <3>2, <4>1 DEF PlanInv, RowHad, HadPlan
      <3>4. row[r] \in Plans /\ Limit[row[r]] \in Nat
        BY <1>t, QuotaAssumption DEF Types
      <3>5. PICK p \in Plans : p = row[r]
        BY <3>4
      <3>6. p \in had'[d]
        BY <3>3, <3>5
      <3>7. N <= Limit[p]
        <4> HIDE DEF N
        <4> QED BY <3>1, <3>4, <3>5, <1>n, <2>2
      <3> QED BY <3>6, <3>7
    <2> QED BY <1>3, <2>1, <2>2
  <1> QED BY <1>t, <1>4, <1>5 DEF GrantsCovered, HadPlan

QuotaIInv == TypeInv /\ CountInv /\ KeyInv /\ PlanInv /\ QuotaInv

LEMMA QuotaInvariant == Spec => []QuotaIInv
  <1>1. Init => QuotaIInv
    BY TypeInit, CountInit, KeyInit, PlanInit, QuotaInit DEF QuotaIInv
  <1>2. QuotaIInv /\ [Next]_vars => QuotaIInv'
    BY TypeNext, CountNext, KeyNext, PlanNext, QuotaNext DEF QuotaIInv
  <1> QED BY <1>1, <1>2, PTL DEF Spec

(* The requests let through are among those granted.                       *)
LEMMA AdmittedCovered ==
    ASSUME QuotaIInv, NEW c \in Counters, BeforeLastSecond(c)
    PROVE  WithinQuota(c)
  <1> DEFINE A == admitted[c]
             G == Granted(c)
  <1>1. A \subseteq G /\ A \in SUBSET Reqs /\ G \in SUBSET Reqs /\ GrantsCovered(c)
    BY DEF QuotaIInv, TypeInv, Types, Granted, QuotaInv
  <1>2. Cardinality(A) <= Cardinality(G) /\ Cardinality(A) \in Nat /\ Cardinality(G) \in Nat
    <2> HIDE DEF A, G
    <2> QED BY <1>1, ReqsCount
  <1>4. PICK p \in Plans : HadPlan(apiKey[c[1]].dev, p) /\ Cardinality(G) <= Limit[p]
    BY <1>1 DEF GrantsCovered
  <1>5. Cardinality(A) <= Limit[p]
    <2>1. Limit[p] \in Nat
      BY QuotaAssumption
    <2> HIDE DEF A, G
    <2> QED BY <1>2, <1>4, <2>1
  <1> QED BY <1>4, <1>5 DEF WithinQuota

(* However many requests race, and whatever fails, no key has more         *)
(* requests let through in a month than a plan of its developer allows,    *)
(* until the month's last second.                                          *)
THEOREM QuotaHolds == Spec => []QuotaUntilLastSecond
  <1>1. QuotaIInv => QuotaUntilLastSecond
    BY AdmittedCovered DEF QuotaUntilLastSecond, BeforeLastSecond
  <1> QED BY <1>1, QuotaInvariant, PTL

-----------------------------------------------------------------------------
(* What getQuota answers.  The requests that count in the month it was     *)
(* asked for, and were not over when it was asked.                         *)
Later(s) == Counted(QuotaKey(s)) \ seen[s]

Told(s) == call[s].op = "quota" /\ pc[s] = "ok"

(* A counter has grown past what getQuota read by no more than they are.   *)
ReportCovers == \A s \in Reqs : Told(s) =>
    counter[QuotaKey(s)].count <= count[s] + Cardinality(Later(s))

(* And a request refused after the answer met its limit among them.        *)
RefusalCovers == \A r \in Reqs : \A s \in seen[r] :
    pc[r] = "quotaExceeded" /\ Told(s) /\ QuotaKey(r) = QuotaKey(s)
    => Limit[row[r]] <= count[s] + Cardinality(Later(s) \ {r})

ReportIInv == TypeInv /\ CountInv /\ KeyInv /\ ReportCovers /\ RefusalCovers

(* An answered request keeps what it read.                                 *)
LEMMA AnsweredStays ==
    ASSUME Types, [Next]_vars, NEW r \in Reqs, pc[r] \in Answers
    PROVE  /\ pc'[r] = pc[r] /\ count'[r] = count[r] /\ row'[r] = row[r] /\ seen'[r] = seen[r]
           /\ QuotaKey(r)' = QuotaKey(r) /\ call' = call
  <1>1. CASE UNCHANGED vars \/ Tick
    BY <1>1 DEF vars, Tick, QuotaKey
  <1>2. ASSUME NEW s \in Reqs, s # r, Step(s)
        PROVE  /\ pc'[r] = pc[r] /\ count'[r] = count[r] /\ row'[r] = row[r]
               /\ seen'[r] = seen[r] /\ QuotaKey(r)' = QuotaKey(r) /\ call' = call
    BY <1>2, StepFrame DEF QuotaKey
  <1>3. ASSUME Step(r) PROVE FALSE
    BY <1>3 DEF Step, Arrive, Fail, Guard, ValidateKey, Compare, Incr, Expire, Manage, CreateKey,
       FindKey, RevokeKey, AuditRevocation, FindQuota, GetCount, FindDeveloper, UpgradePlan,
       Answers, Waiting
  <1> QED BY <1>1, <1>2, <1>3, NextCases

(* What a request has seen answered, it saw when it arrived.               *)
LEMMA SeenStays ==
    ASSUME TypeInv, KeyInv, [Next]_vars, NEW r \in Reqs, NEW s \in seen'[r]
    PROVE  s \in Reqs /\ pc[s] \in Answers /\ (seen'[r] = seen[r] \/ Arrive(r))
  <1>t. Types
    BY DEF TypeInv
  <1>1. seen'[r] = seen[r] \/ Arrive(r)
    <2>1. CASE UNCHANGED vars \/ Tick
      BY <2>1 DEF vars, Tick
    <2>2. ASSUME NEW a \in Reqs, a # r, Step(a) PROVE seen'[r] = seen[r]
      BY <1>t, <2>2, StepFrame
    <2>3. CASE Step(r)
      BY <2>3 DEF Step, Fail, Guard, ValidateKey, Compare, Incr, Expire, Manage, CreateKey,
         FindKey, RevokeKey, AuditRevocation, FindQuota, GetCount, FindDeveloper, UpgradePlan
    <2> QED BY <2>1, <2>2, <2>3, NextCases
  <1>2. s \in Reqs /\ pc[s] \in Answers
    BY <1>t, <1>1 DEF Arrive, KeyInv, SeenAnswered, Types
  <1> QED BY <1>1, <1>2

(* An answered getQuota keeps its report, and those it does not know of    *)
(* only become more.                                                       *)
LEMMA ToldStays ==
    ASSUME TypeInv, CountInv, [Next]_vars, NEW s \in Reqs, Told(s)
    PROVE  /\ Told(s)' /\ count'[s] = count[s] /\ seen'[s] = seen[s]
           /\ QuotaKey(s)' = QuotaKey(s) /\ QuotaKey(s) \in Counters
           /\ Later(s) \subseteq Later(s)' /\ Later(s) \in SUBSET Reqs /\ Later(s)' \in SUBSET Reqs
  <1>1. Types /\ pc[s] \in Answers /\ QuotaKey(s) \in Counters
    BY CallFields DEF TypeInv, Told, Answers
  <1>2. /\ pc'[s] = pc[s] /\ count'[s] = count[s] /\ seen'[s] = seen[s]
        /\ QuotaKey(s)' = QuotaKey(s) /\ call' = call
    BY <1>1, AnsweredStays
  <1>3. PICK c \in Counters : c = QuotaKey(s)
    BY <1>1
  <1>4. Later(s) = Counted(c) \ seen[s] /\ Later(s)' = Counted(c)' \ seen[s]
    BY <1>2, <1>3 DEF Later, Counted, QuotaKey
  <1>5. Counted(c) \subseteq Counted(c)' /\ Counted(c) \subseteq Reqs /\ Counted(c)' \subseteq Reqs
    BY CountedGrows DEF Counted
  <1> QED BY <1>1, <1>2, <1>4, <1>5 DEF Told

LEMMA ReportNext ==
    TypeInv /\ CountInv /\ KeyInv /\ ReportCovers /\ [Next]_vars => ReportCovers'
  <1> SUFFICES ASSUME TypeInv, CountInv, KeyInv, ReportCovers, [Next]_vars,
                      NEW s \in Reqs, Told(s)'
               PROVE  (counter[QuotaKey(s)].count <= count[s] + Cardinality(Later(s)))'
    BY DEF ReportCovers
  <1>t. Types /\ TypeInv' /\ call' = call
    BY TypeNext, CallStays DEF TypeInv
  <1>1. CASE Told(s)
    <2>1. /\ count'[s] = count[s] /\ seen'[s] = seen[s] /\ QuotaKey(s)' = QuotaKey(s)
          /\ QuotaKey(s) \in Counters
          /\ Later(s) \subseteq Later(s)' /\ Later(s) \in SUBSET Reqs /\ Later(s)' \in SUBSET Reqs
      BY <1>1, ToldStays
    <2>2. PICK c \in Counters : c = QuotaKey(s)
      BY <2>1
    <2>3. PICK L \in SUBSET Reqs : L = Later(s)
      BY <2>1
    <2>4. PICK M \in SUBSET Reqs : M = Later(s)'
      BY <2>1
    <2>5. /\ Cardinality(L) \in Nat /\ Cardinality(M) \in Nat /\ Cardinality(L) <= Cardinality(M)
          /\ count[s] \in Nat /\ counter[c].count \in Nat /\ counter'[c].count \in Nat
          /\ counter[c].count <= count[s] + Cardinality(L)
      <3>1. count[s] \in Nat /\ counter[c].count \in Nat /\ counter'[c].count \in Nat
        BY <1>t DEF TypeInv, Types, CounterRow
      <3>2. counter[c].count <= count[s] + Cardinality(L)
        BY <1>1, <2>2, <2>3 DEF ReportCovers
      <3> QED BY <2>1, <2>3, <2>4, <3>1, <3>2, ReqsCount
    <2>6. SUFFICES counter'[c].count <= count[s] + Cardinality(M)
      BY <2>1, <2>2, <2>4
    <2>7. CASE counter'[c].count <= counter[c].count
      BY <2>5, <2>7
    <2>8. ASSUME NEW r \in Reqs, Incr(r), QuotaKey(r) = c
          PROVE  counter'[c].count <= count[s] + Cardinality(M)
      <3>1. r \notin Counted(c) /\ Counted(c) \cup {r} \subseteq Counted(c)'
        BY <2>8, IncrCounts
      <3>2. r \notin seen[s]
        BY <1>t, <2>8 DEF Incr, KeyInv, SeenAnswered, Answers
      <3>3. r \notin L /\ L \cup {r} \subseteq M
        BY <2>1, <2>2, <2>3, <2>4, <3>1, <3>2 DEF Later, Counted, QuotaKey
      <3>4. L \cup {r} \in SUBSET M
        BY <3>3
      <3>5. Cardinality(L) + 1 <= Cardinality(M)
        BY <3>3, <3>4, ReqsCount
      <3>6. counter'[c].count = counter[c].count + 1
        BY <1>t, <2>8, IncrStep
      <3> QED BY <2>5, <3>5, <3>6
    <2>9. ASSUME NEW r \in Reqs, Incr(r), QuotaKey(r) # c PROVE counter'[c] = counter[c]
      BY <1>t, <2>9, IncrStep
    <2>10. ASSUME NEW r \in Reqs, Expire(r) PROVE counter'[c].count = counter[c].count
      BY <2>10, ExpireStep
    <2>11. CASE Tick
      <3>1. counter'[c] = counter[c] \/ counter'[c].count = 0
        BY <1>t, <2>11, TickStep DEF NoCounter
      <3> QED BY <2>5, <2>7, <3>1
    <2> QED BY <1>t, <2>5, <2>7, <2>8, <2>9, <2>10, <2>11, CounterFrame
  <1>2. CASE ~Told(s)
    <2>1. GetCount(s)
      <3>1. call[s].op = "quota" /\ pc[s] # "ok" /\ pc'[s] = "ok"
        BY <1>t, <1>2 DEF Told
      <3>2. CASE UNCHANGED vars \/ Tick
        BY <3>1, <3>2 DEF vars, Tick
      <3>3. ASSUME NEW a \in Reqs, a # s, Step(a) PROVE FALSE
        BY <1>t, <3>1, <3>3, StepFrame
      <3>4. CASE Step(s)
        <4>1. ~Guard(s)
          BY <3>1 DEF Guard, ValidateKey, Compare, Incr, Expire, TypeInv, LabelsOK
        <4>2. ~(Arrive(s) \/ Fail(s))
          BY <1>t, <3>1 DEF Arrive, Fail, FirstStep, Goto, Types
        <4>3. CASE Manage(s)
          BY <1>t, <3>1, <4>3 DEF Manage, CreateKey, FindKey, RevokeKey, AuditRevocation,
             FindQuota, FindDeveloper, UpgradePlan, Goto, Types, TypeInv, LabelsOK
        <4> QED BY <3>4, <4>1, <4>2, <4>3 DEF Step
      <3> QED BY <3>2, <3>3, <3>4, NextCases
    <2>2. PICK c \in Counters : c = QuotaKey(s) /\ c = UsageKey(s)
      BY <1>t, CallFields
    <2>3. count'[s] = counter[c].count /\ counter' = counter /\ QuotaKey(s)' = c
      BY <1>t, <2>1, <2>2 DEF GetCount, Types, QuotaKey
    <2>4. PICK M \in SUBSET Reqs : M = Later(s)'
      BY DEF Later, Counted
    <2>5. Cardinality(M) \in Nat /\ counter[c].count \in Nat
      BY <1>t, ReqsCount DEF Types, CounterRow
    <2> QED BY <2>3, <2>4, <2>5
  <1> QED BY <1>1, <1>2

LEMMA RefusalNext ==
    ReportIInv /\ [Next]_vars => RefusalCovers'
  <1> SUFFICES ASSUME ReportIInv, [Next]_vars,
                      NEW r \in Reqs, NEW s \in seen'[r],
                      pc'[r] = "quotaExceeded", Told(s)', QuotaKey(r)' = QuotaKey(s)'
               PROVE  (Limit[row[r]] <= count[s] + Cardinality(Later(s) \ {r}))'
    BY DEF RefusalCovers
  <1>t. Types /\ TypeInv /\ CountInv /\ KeyInv /\ TypeInv' /\ call' = call
    BY TypeNext, CallStays DEF ReportIInv, TypeInv
  <1>1. seen'[r] = seen[r]
    <2>1. ~Arrive(r)
      BY <1>t DEF Arrive, FirstStep, Goto, Types
    <2> QED BY <1>t, <2>1, SeenStays
  <1>2. s \in Reqs /\ Told(s)
    <2>1. s \in Reqs /\ pc[s] \in Answers
      BY <1>t, SeenStays
    <2> QED BY <1>t, <2>1, AnswersStay DEF Told
  <1>3. /\ count'[s] = count[s] /\ QuotaKey(s)' = QuotaKey(s) /\ QuotaKey(s) \in Counters
        /\ Later(s) \subseteq Later(s)' /\ Later(s) \in SUBSET Reqs /\ Later(s)' \in SUBSET Reqs
    BY <1>t, <1>2, ToldStays
  <1>4. PICK c \in Counters : c = QuotaKey(s)
    BY <1>3
  <1>5. PICK L \in SUBSET Reqs : L = Later(s) \ {r}
    BY <1>3
  <1>6. PICK M \in SUBSET Reqs : M = (Later(s) \ {r})'
    BY <1>3
  <1>7. /\ Cardinality(L) \in Nat /\ Cardinality(M) \in Nat /\ Cardinality(L) <= Cardinality(M)
    BY <1>3, <1>5, <1>6, ReqsCount
  <1>8. count[s] \in Nat /\ Limit[row[r]] \in Nat \ {0}
    BY <1>2, <1>t, QuotaAssumption DEF Types
  <1>9. SUFFICES Limit[row[r]] <= count[s] + Cardinality(L) /\ row'[r] = row[r]
    BY <1>3, <1>6, <1>7, <1>8
  <1>10. CASE pc[r] = "quotaExceeded"
    <2>1. QuotaKey(r)' = QuotaKey(r) /\ row'[r] = row[r]
      BY <1>t, <1>10, AnsweredStays DEF Answers
    <2> QED BY <1>1, <1>2, <1>3, <1>5, <1>10, <2>1 DEF ReportIInv, RefusalCovers
  <1>11. CASE pc[r] # "quotaExceeded"
    <2>1. CASE UNCHANGED vars \/ Tick
      BY <1>11, <2>1 DEF vars, Tick
    <2>2. ASSUME NEW a \in Reqs, a # r, Step(a) PROVE FALSE
      BY <1>t, <1>11, <2>2, StepFrame
    <2>3. CASE Incr(r)
      <3>1. row' = row /\ QuotaKey(r) = c /\ QuotaKey(r) \in Counters
        BY <1>3, <1>4, <2>3 DEF Incr, QuotaKey
      <3>2. OverLimit(r, counter[c].count + 1)
        BY <1>t, <2>3, <3>1, IncrStep, DecideStep
      <3>3. r \notin Counted(c)
        BY <1>t, <2>3, <3>1, IncrCounts
      <3>4. L = Later(s)
        BY <1>4, <1>5, <3>3 DEF Later
      <3>5. counter[c].count <= count[s] + Cardinality(L) /\ counter[c].count \in Nat
        BY <1>t, <1>2, <1>4, <3>4 DEF ReportIInv, ReportCovers, Types, CounterRow
      <3> QED BY <1>7, <1>8, <3>1, <3>2, <3>5 DEF OverLimit
    <2>4. CASE Expire(r)
      <3>1. count[r] = 1 /\ OverLimit(r, count[r])
        BY <1>t, <2>4, ExpireStep, DecideStep DEF CountInv, CountOf
      <3> QED BY <1>8, <3>1 DEF OverLimit
    <2>5. ASSUME Step(r), ~Incr(r), ~Expire(r) PROVE FALSE
      BY <1>t, <1>11, <2>5 DEF Step, Arrive, Fail, Guard, ValidateKey, Compare, Manage, CreateKey,
         FindKey, RevokeKey, AuditRevocation, FindQuota, GetCount, FindDeveloper, UpgradePlan,
         Written, FirstStep, Goto, Types
    <2> QED BY <2>1, <2>2, <2>3, <2>4, <2>5, NextCases
  <1> QED BY <1>10, <1>11

LEMMA ReportInvariant == Spec => []ReportIInv
  <1>1. Init => ReportIInv
    BY TypeInit, CountInit, KeyInit DEF ReportIInv, Init, ReportCovers, RefusalCovers, Told
  <1>2. ReportIInv /\ [Next]_vars => ReportIInv'
    BY TypeNext, CountNext, KeyNext, ReportNext, RefusalNext DEF ReportIInv
  <1> QED BY <1>1, <1>2, PTL DEF Spec

(* What getQuota said was left can be taken only by other requests: each   *)
(* one counts once, and the counter grows by nothing else.                 *)
THEOREM RemainingIsHonest == Spec => []RemainingIsThere
  <1>1. ReportIInv => RemainingIsThere
    <2> SUFFICES ASSUME ReportIInv, NEW r \in Reqs, NEW s \in seen[r],
                        pc[r] = "quotaExceeded", call[s].op = "quota", pc[s] = "ok",
                        call[s].key = call[r].key, MonthOf(now[s]) = MonthOf(now[r]),
                        Limit[row[s]] <= Limit[row[r]]
                 PROVE  Remaining(s) <= Cardinality({q \in Reqs \ {r} :
                            /\ call[q].op = "use" /\ call[q].key = call[r].key /\ count[q] > 0
                            /\ MonthOf(now[q]) = MonthOf(now[r]) /\ q \notin seen[s]})
      BY DEF RemainingIsThere
    <2>1. /\ Types /\ s \in Reqs
          /\ Limit[row[s]] \in Nat /\ Limit[row[r]] \in Nat /\ count[s] \in Nat
      BY QuotaAssumption DEF ReportIInv, TypeInv, Types
    <2>2. PICK L \in SUBSET Reqs : L = Later(s) \ {r}
      BY DEF Later, Counted
    <2>3. Limit[row[r]] <= count[s] + Cardinality(L) /\ Cardinality(L) \in Nat
      BY <2>2, ReqsCount DEF ReportIInv, RefusalCovers, Told, QuotaKey
    <2>4. L = {q \in Reqs \ {r} :
                 /\ call[q].op = "use" /\ call[q].key = call[r].key /\ count[q] > 0
                 /\ MonthOf(now[q]) = MonthOf(now[r]) /\ q \notin seen[s]}
      BY <2>2 DEF Later, Counted, QuotaKey
    <2>5. Remaining(s) <= Cardinality(L)
      BY <2>1, <2>3 DEF Remaining
    <2> QED BY <2>4, <2>5
  <1> QED BY <1>1, ReportInvariant, PTL
=============================================================================
