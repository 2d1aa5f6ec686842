----------------------------- MODULE RequestLog -----------------------------
(***************************************************************************)
(* The request log: LoggingInterceptor (src/common/logging.interceptor.ts) *)
(* inserts a row for a request its handler has answered, in a promise that *)
(* nobody awaits; getUsage (keys.service.ts) and getStats                  *)
(* (dashboard.service.ts) count the rows, one query per count.             *)
(***************************************************************************)
EXTENDS Requests, Sequences

CONSTANTS
    KeyOwner,       \* whose each API key is, Nobody's where there is none
    MaxCrashes      \* bound: how often the process dies

ASSUME RequestLogAssumption == KeyOwner \in [Keys -> Devs \cup {Nobody}] /\ MaxCrashes \in Nat

VARIABLES
    logged,     \* table RequestLog: the requests that have a row
    lost,       \* history: the requests whose row died with the process
    counts,     \* what each getUsage and getStats has counted so far
    crashes

logVars == <<logged, lost, counts, crashes>>

What == {"total", "success", "error"}
NotYet == Cardinality(Reqs) + 1

LogTypeOK ==
    /\ logged \in SUBSET Reqs /\ lost \in SUBSET Reqs
    /\ counts \in [Reqs -> [What -> 0..NotYet]]
    /\ crashes \in 0..MaxCrashes

LogInit ==
    /\ logged = {} /\ lost = {} /\ crashes = 0
    /\ counts = [r \in Reqs |-> [w \in What |-> NotYet]]

(* The rows still to be inserted.  tap sees what a handler returns, never  *)
(* what it throws: a request answered with an error has no row.            *)
Pending == {r \in Reqs : Served(r) /\ call[r].dev # Nobody} \ (logged \cup lost)

WriteLog(r) ==
    /\ r \in Pending
    /\ logged' = logged \cup {r}
    /\ UNCHANGED <<requestVars, lost, counts, crashes>>

(* An insert fails, and the rejection nobody handles ends the process; or  *)
(* the process dies of something else.                                     *)
Crash ==
    /\ crashes < MaxCrashes /\ crashes' = crashes + 1
    /\ pc' = Dropped /\ UNCHANGED <<call, seen>>
    /\ lost' = lost \cup Pending
    /\ UNCHANGED <<logged, counts>>

-----------------------------------------------------------------------------
(* getUsage up to its Promise.all.                                         *)
FindUsageKey(r) ==
    LET owner == KeyOwner[call[r].of] IN
    /\ Begin(r, "usage")
    /\ \/ owner = call[r].dev /\ Goto(r, "count")
       \/ owner = Nobody /\ Goto(r, "notFound")
       \/ owner \notin {call[r].dev, Nobody} /\ Goto(r, "forbidden")
       \/ Goto(r, "failed")
    /\ UNCHANGED logVars

BeginStats(r) == Begin(r, "stats") /\ Goto(r, "count") /\ UNCHANGED logVars

(* The rows a count is over; the mutant's usage is the developer's.        *)
CountedOfDeveloper(r) ==
    IF call[r].op = "usage" THEN {q \in logged : call[q].dev = KeyOwner[call[r].of]}
    ELSE {q \in logged : call[q].dev = call[r].dev}

Counted(r) ==
    IF call[r].op = "usage" THEN {q \in logged : call[q].key = call[r].of}
    ELSE {q \in logged : call[q].dev = call[r].dev}

(* The status codes of a row: 2xx for an answer, 4xx or 5xx for an error.  *)
StatusIs(q, w) == w = "total" \/ (w = "success") = Served(q)

(* The order of getStats's queries; the mutant starts with the successes.  *)
StatsOrderSwapped == <<"success", "total", "error">>

StatsOrder == <<"total", "success", "error">>

(* The counts that may be read next: in any order in getUsage.             *)
NextCounts(r) ==
    IF call[r].op = "usage" THEN {w \in {"total", "success"} : counts[r][w] = NotYet}
    ELSE LET read == Cardinality({w \in What : counts[r][w] # NotYet})
         IN  {StatsOrder[i] : i \in {read + 1} \cap DOMAIN StatsOrder}

CountRows(r) ==
    /\ At(r, "count")
    /\ \/ /\ \E w \in NextCounts(r) :
               counts' = [counts EXCEPT ![r][w] = Cardinality({q \in Counted(r) : StatusIs(q, w)})]
          /\ UNCHANGED <<call, pc>>
       \/ NextCounts(r) = {} /\ Goto(r, "answer") /\ UNCHANGED counts
       \/ NextCounts(r) # {} /\ Goto(r, "failed") /\ UNCHANGED counts
    /\ UNCHANGED <<logged, lost, crashes>>

Reports(r) == FindUsageKey(r) \/ BeginStats(r) \/ CountRows(r)

-----------------------------------------------------------------------------
(* Two reports of the same rows: of one developer, or of one key.          *)
SameReport(r, s) ==
    /\ call[r].op = call[s].op
    /\ \/ call[r].op = "stats" /\ call[r].dev = call[s].dev
       \/ call[r].op = "usage" /\ call[r].of = call[s].of

(* The counts of a report are queries of their own, with rows inserted     *)
(* between them.  Those of getStats (dashboard.service.ts:13-23) still     *)
(* leave no row out: the total is counted before its parts.  The usage of  *)
(* a key (keys.service.ts:111-117) counts only requests that were made     *)
(* with that key and are over, never those of the developer's tokens.  And *)
(* a client that asks again after an answer is never told of fewer,        *)
(* whatever rows died with the process meanwhile.                          *)
ReportsAddUp ==
    \A r \in Reqs : Served(r) =>
        /\ call[r].op = "stats" =>
              counts[r]["total"] <= counts[r]["success"] + counts[r]["error"]
        /\ call[r].op = "usage" => \A w \in {"total", "success"} :
              counts[r][w] <= Cardinality({q \in Reqs : /\ Served(q) \/ Ended(q)
                                                        /\ call[q].key = call[r].of})
        /\ \A s \in seen[r] : SameReport(r, s) =>
              \A w \in What : counts[s][w] <= counts[r][w]
=============================================================================
