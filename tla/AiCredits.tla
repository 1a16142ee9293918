----------------------------- MODULE AiCredits -----------------------------
(***************************************************************************)
(* The AI credits of one store (app/services/ai-cost-control.server.ts,    *)
(* billing.server.ts, entitlements.server.ts) and the agent runs that      *)
(* spend them (app/ai/orchestrator).                                       *)
(*                                                                         *)
(* A plan grants a number of credits a month, shared by two metrics, each  *)
(* with a row of usage_records.  A debit reads both rows with FOR UPDATE   *)
(* and creates or updates one of them in a SERIALIZABLE transaction: it    *)
(* commits only if no other debit of that month has committed since its    *)
(* snapshot (a row that does not exist yet cannot be locked, so the        *)
(* isolation level has to see to it).  What surrounds the debit are single *)
(* statements at READ COMMITTED.                                           *)
(*                                                                         *)
(* The agent runs of the model have one subject and one fingerprint: they  *)
(* share an entry of the result cache.                                     *)
(***************************************************************************)
EXTENDS Naturals

CONSTANTS
  Agents,          \* calls of AIOrchestrator.execute
  Records,         \* calls of recordUsageIfAllowed
  MetricOf,        \* the metric of each call
  Cost,            \* the credits of each call
  Limits,          \* aiCreditsPerMonth of the plans
  LastMonth,       \* bound: months
  DebitRetries,    \* AI_CREDIT_DEBIT_MAX_RETRIES
  ProviderAttempts,  \* maxAttempts of DEFAULT_RETRY_POLICY
  MaxFaults,       \* bound: errors, lost answers and crashes
  NoRun

Requests == Agents \cup Records
Metrics == {"ai_requests", "reports_generated"}
Months == 1 .. LastMonth

ASSUME AiCreditsAssumption ==
  /\ Agents \cap Records = {}
  /\ MetricOf \in [Requests -> Metrics]
  /\ \A r \in Agents : MetricOf[r] = "ai_requests"
  /\ Cost \in [Requests -> Nat \ {0}]
  /\ \A r \in Agents : Cost[r] = 1
  /\ Limits \subseteq Nat
  /\ LastMonth \in Nat \ {0}
  /\ DebitRetries \in Nat \ {0}
  /\ ProviderAttempts \in Nat \ {0}
  /\ MaxFaults \in Nat
  /\ NoRun \notin Agents

VARIABLES
  usage,       \* usage_records: value by month and metric
  month,       \* getCurrentUsageMonth
  limit,       \* aiCreditsPerMonth of the plan in force
  access,      \* getSubscriptionAccessState allows
  request,     \* the locals of each call
  runs,        \* ai_agent_runs: the status of the row of each call
  results,     \* ai_agent_results: the runs with a successful result
  cache,       \* ai_result_cache_entries: the run whose result is served
  faults,
  charged,     \* history: the credits debited for each call
  calls,       \* history: the calls of the provider by each run
  peak         \* history: the highest limit ever in force

ledger == <<usage, charged>>
plan == <<month, limit, access, peak>>
records == <<runs, results, cache>>
vars == <<ledger, plan, request, records, faults, calls>>

Rows == [Metrics -> Nat]

\* getSharedAiCreditsUsed
Shared(rows) == rows["ai_requests"] + rows["reports_generated"]

NoUsage == [metric \in Metrics |-> 0]

Steps == {"new", "check", "resolve", "debit", "write", "refresh", "skip",
          "start", "call", "fail", "failure", "result", "cache", "recommend", "finish", "done"}

Locals == [step : Steps,
           month : Months,
           limit : Nat,                      \* budget.limit
           seen : Rows,                      \* lockedRows, as of the snapshot
           attempt : 0 .. DebitRetries - 1,
           retryCount : 0 .. 1,              \* of the orchestrator
           validationRetries : 0 .. 1,       \* of its call of the pipeline
           attempts : 0 .. ProviderAttempts - 1]  \* of executeWithRetry, failed

Fresh == [step |-> "new", month |-> 1, limit |-> 0, seen |-> NoUsage,
          attempt |-> 0, retryCount |-> 0, validationRetries |-> 0, attempts |-> 0]

Init ==
  /\ usage = [m \in Months |-> NoUsage]
  /\ month = 1
  /\ limit \in Limits
  /\ access = TRUE
  /\ request = [r \in Requests |-> Fresh]
  /\ runs = [a \in Agents |-> "none"]
  /\ results = {}
  /\ cache = NoRun
  /\ faults = 0
  /\ charged = [r \in Requests |-> 0]
  /\ calls = [a \in Agents |-> 0]
  /\ peak = limit

At(r, step) == request[r].step = step

Goto(r, step) == request' = [request EXCEPT ![r].step = step]

\* Where a refused call goes: an agent run is recorded as skipped.
Refused(r) == IF r \in Agents THEN "skip" ELSE "done"

Fault == faults < MaxFaults /\ faults' = faults + 1

-----------------------------------------------------------------------------
(* Before the debit                                                        *)

\* The lookup of the cache, unless it is forced to miss.
Lookup(a, force) ==
  /\ At(a, "new")
  /\ IF force \/ cache = NoRun
     THEN Goto(a, "check") /\ runs' = runs
     ELSE Goto(a, "done") /\ runs' = [runs EXCEPT ![a] = "cached"]
  /\ UNCHANGED <<ledger, plan, results, cache, faults, calls>>

\* recordUsageIfAllowed checks reports first; consumeAiCredits debits at once.
Record(r) ==
  /\ At(r, "new")
  /\ Goto(r, IF MetricOf[r] = "reports_generated" THEN "check" ELSE "resolve")
  /\ UNCHANGED <<ledger, plan, records, faults, calls>>

\* buildBudgetStatus
Allowed(used, credits) == access /\ used + credits <= limit

\* checkAiBudget and checkUsageLimit
Check(r) ==
  /\ At(r, "check")
  /\ Goto(r, IF Allowed(Shared(usage[month]), Cost[r]) THEN "resolve" ELSE Refused(r))
  /\ UNCHANGED <<ledger, plan, records, faults, calls>>

\* getCurrentMonthUsage answers "nothing used" when its query fails.
CheckBlind(a) ==
  /\ At(a, "check")
  /\ Fault
  /\ Goto(a, IF Allowed(0, Cost[a]) THEN "resolve" ELSE "skip")
  /\ UNCHANGED <<ledger, plan, records, calls>>

\* resolveAiBudget: month and limit are kept.  Reports do not ask for access again.
Resolve(r) ==
  /\ At(r, "resolve")
  /\ IF access \/ MetricOf[r] = "reports_generated"
     THEN request' = [request EXCEPT ![r].step = "debit", ![r].month = month, ![r].limit = limit]
     ELSE Goto(r, Refused(r))
  /\ UNCHANGED <<ledger, plan, records, faults, calls>>

-----------------------------------------------------------------------------
(* tryIncrementAiCreditsWithinLimit                                        *)

DebitRead(r) ==
  /\ At(r, "debit")
  /\ request' = [request EXCEPT ![r].step = "write", ![r].seen = usage[request[r].month]]
  /\ UNCHANGED <<ledger, plan, records, faults, calls>>

Exceeds(r) == Shared(request[r].seen) + Cost[r] > request[r].limit

Exceeded(r) ==
  /\ At(r, "write")
  /\ Exceeds(r)
  /\ Goto(r, Refused(r))
  /\ UNCHANGED <<ledger, plan, records, faults, calls>>

Charge(r) ==
  /\ usage' = [usage EXCEPT ![request[r].month][MetricOf[r]] = @ + Cost[r]]
  /\ charged' = [charged EXCEPT ![r] = @ + Cost[r]]

Overtaken(r) == usage[request[r].month] # request[r].seen

\* mutant: the commit does not notice a debit that committed meanwhile
CommitsBlindly(r) ==
  /\ At(r, "write")
  /\ ~Exceeds(r)
  /\ Charge(r)

Commits(r) ==
  /\ At(r, "write")
  /\ ~Exceeds(r)
  /\ ~Overtaken(r)
  /\ Charge(r)

DebitWrite(r) ==
  /\ Commits(r)
  /\ Goto(r, "refresh")
  /\ UNCHANGED <<plan, records, faults, calls>>

\* mutant: an answer that is lost is taken for a conflict
DebitLostRetried(r) ==
  /\ Commits(r)
  /\ Fault
  /\ Goto(r, "debit")
  /\ UNCHANGED <<plan, records, calls>>

\* The transaction commits, its answer is lost: "usage_missing".
DebitLost(r) ==
  /\ Commits(r)
  /\ Fault
  /\ Goto(r, Refused(r))
  /\ UNCHANGED <<plan, records, calls>>

\* Postgres aborts one of two debits that overlap.
Conflicts(r) ==
  /\ At(r, "write")
  /\ \/ Overtaken(r)
     \/ \E s \in Requests \ {r} : At(s, "write") /\ request[s].month = request[r].month

\* A serialization failure that Prisma reports as P2034
Conflict(r) ==
  /\ Conflicts(r)
  /\ request[r].attempt + 1 < DebitRetries
  /\ request' = [request EXCEPT ![r].step = "debit", ![r].attempt = @ + 1]
  /\ UNCHANGED <<ledger, plan, records, faults, calls>>

\* The last attempt, or an error with another code: a failure of the raw
\* query, a unique violation, a deadlock.
GivesUp(r) ==
  /\ Conflicts(r)
  /\ Goto(r, Refused(r))
  /\ UNCHANGED <<ledger, plan, records, faults, calls>>

\* consumeAiCredits answers with the status after the debit;
\* recordUsageIfAllowed has recorded its usage whatever the status is.
Refresh(r) ==
  /\ At(r, "refresh")
  /\ Goto(r, CASE r \in Records -> "done"
               [] r \in Agents /\ Allowed(Shared(usage[month]), 0) -> "start"
               [] OTHER -> "skip")
  /\ UNCHANGED <<ledger, plan, records, faults, calls>>

RefreshBlind(a) ==
  /\ At(a, "refresh")
  /\ Fault
  /\ Goto(a, IF Allowed(0, 0) THEN "start" ELSE "skip")
  /\ UNCHANGED <<ledger, plan, records, calls>>

\* Errors of the reads around the debit are caught: "usage_missing".
ReadFails(r) ==
  /\ request[r].step \in {"check", "resolve", "debit", "write", "refresh"}
  /\ Fault
  /\ Goto(r, Refused(r))
  /\ UNCHANGED <<ledger, plan, records, calls>>

-----------------------------------------------------------------------------
(* AIOrchestrator.execute after the debit                                  *)

Skip(a) ==
  /\ At(a, "skip")
  /\ Goto(a, "done")
  /\ runs' = [runs EXCEPT ![a] = "skipped"]
  /\ UNCHANGED <<ledger, plan, results, cache, faults, calls>>

Start(a) ==
  /\ At(a, "start")
  /\ Goto(a, "call")
  /\ runs' = [runs EXCEPT ![a] = "running"]
  /\ UNCHANGED <<ledger, plan, results, cache, faults, calls>>

\* An attempt of executeWithRetry is one call of generateStructured.  It throws an
\* error of the transport, a SyntaxError of an answer that is no JSON, an answer
\* that breaks the schema, or another error; else the orchestrator validates it,
\* and finds it valid, malformed or, as after another error, not usable.
Answers == {"transport", "syntax", "schema", "unusable", "malformed", "valid"}

\* executeWithRetry: isRetryableError
TriesAgain(l, answer) ==
  /\ answer \in {"transport", "syntax"}
  /\ l.attempts + 1 < ProviderAttempts

\* mutant: the pipeline does not count the answers it cannot validate
ValidatesAlways(l, answer) ==
  /\ answer \in {"syntax", "schema"}
  /\ ~TriesAgain(l, answer)

\* FoundationPipeline.execute: shouldRetryValidation of what executeWithRetry throws
ValidatesAgain(l, answer) ==
  /\ answer \in {"syntax", "schema"}
  /\ ~TriesAgain(l, answer)
  /\ l.validationRetries = 0

\* AIOrchestrator.execute: shouldRetryMalformedJson
ExecutesAgain(l, answer) == answer = "malformed" /\ l.retryCount = 0

\* What the three loops around the call do with its answer.
Looped(l, answer) ==
  CASE TriesAgain(l, answer) -> [l EXCEPT !.attempts = @ + 1]
    [] ValidatesAgain(l, answer) -> [l EXCEPT !.attempts = 0, !.validationRetries = 1]
    [] ExecutesAgain(l, answer) ->
         [l EXCEPT !.attempts = 0, !.validationRetries = 0, !.retryCount = 1]
    [] OTHER -> [l EXCEPT !.step = IF answer = "valid" THEN "result" ELSE "fail"]

Call(a, answer) ==
  /\ At(a, "call")
  /\ calls' = [calls EXCEPT ![a] = @ + 1]
  /\ request' = [request EXCEPT ![a] = Looped(@, answer)]
  /\ UNCHANGED <<ledger, plan, records, faults>>

\* The rate limiter or the open circuit breaker throws before an attempt is made.
Unasked(a) ==
  /\ At(a, "call")
  /\ request[a].attempts = 0
  /\ Goto(a, "fail")
  /\ UNCHANGED <<ledger, plan, records, faults, calls>>

\* The run is marked failed, then its error is kept as a result.
Fails(a) ==
  /\ At(a, "fail")
  /\ Goto(a, "failure")
  /\ runs' = [runs EXCEPT ![a] = "failed"]
  /\ UNCHANGED <<ledger, plan, results, cache, faults, calls>>

StoreFailure(a) ==
  /\ At(a, "failure")
  /\ Goto(a, "done")
  /\ UNCHANGED <<ledger, plan, records, faults, calls>>

StoreResult(a) ==
  /\ At(a, "result")
  /\ Goto(a, "cache")
  /\ results' = results \cup {a}
  /\ UNCHANGED <<ledger, plan, runs, cache, faults, calls>>

\* An upsert: a later run replaces the entry.
StoreCache(a) ==
  /\ At(a, "cache")
  /\ Goto(a, "recommend")
  /\ cache' = a
  /\ UNCHANGED <<ledger, plan, runs, results, faults, calls>>

\* validateRecommendations and upsertMany
Recommend(a) ==
  /\ At(a, "recommend")
  /\ Goto(a, "finish")
  /\ UNCHANGED <<ledger, plan, records, faults, calls>>

\* mutant: the run is marked before anything is stored
FinishEarly(a) ==
  /\ At(a, "result")
  /\ Goto(a, "done")
  /\ runs' = [runs EXCEPT ![a] = "succeeded"]
  /\ UNCHANGED <<ledger, plan, results, cache, faults, calls>>

Finish(a) ==
  /\ At(a, "finish")
  /\ Goto(a, "done")
  /\ runs' = [runs EXCEPT ![a] = "succeeded"]
  /\ UNCHANGED <<ledger, plan, results, cache, faults, calls>>

\* An error that execute does not catch, or the end of the process.
Breaks(r) ==
  /\ request[r].step \notin {"new", "done"}
  /\ Fault
  /\ Goto(r, "done")
  /\ UNCHANGED <<ledger, plan, records, calls>>

-----------------------------------------------------------------------------
(* The subscription and the calendar                                       *)

ChangePlan(l) ==
  /\ l # limit
  /\ limit' = l
  /\ peak' = IF l > peak THEN l ELSE peak
  /\ UNCHANGED <<ledger, month, access, request, records, faults, calls>>

ChangeAccess ==
  /\ access' = ~access
  /\ UNCHANGED <<ledger, month, limit, peak, request, records, faults, calls>>

NextMonth ==
  /\ month < LastMonth
  /\ month' = month + 1
  /\ UNCHANGED <<ledger, limit, access, peak, request, records, faults, calls>>

Debits(r) ==
  \/ Check(r) \/ Resolve(r) \/ DebitRead(r) \/ Exceeded(r) \/ DebitWrite(r) \/ DebitLost(r)
  \/ Conflict(r) \/ GivesUp(r) \/ Refresh(r) \/ ReadFails(r) \/ Breaks(r)

Runs(a) ==
  \/ \E force \in BOOLEAN : Lookup(a, force)
  \/ CheckBlind(a) \/ RefreshBlind(a) \/ Skip(a) \/ Start(a)
  \/ \E answer \in Answers : Call(a, answer)
  \/ Unasked(a) \/ Fails(a) \/ StoreFailure(a)
  \/ StoreResult(a) \/ StoreCache(a) \/ Recommend(a) \/ Finish(a)

Next ==
  \/ \E r \in Requests : Debits(r)
  \/ \E a \in Agents : Runs(a)
  \/ \E r \in Records : Record(r)
  \/ \E l \in Limits : ChangePlan(l)
  \/ ChangeAccess
  \/ NextMonth

Spec == Init /\ [][Next]_vars

-----------------------------------------------------------------------------
(* Properties                                                              *)

TypeOK ==
  /\ usage \in [Months -> Rows]
  /\ month \in Months
  /\ limit \in Limits
  /\ access \in BOOLEAN
  /\ request \in [Requests -> Locals]
  /\ runs \in [Agents -> {"none", "cached", "skipped", "running", "failed", "succeeded"}]
  /\ results \subseteq Agents
  /\ cache \in Agents \cup {NoRun}
  /\ faults \in 0 .. MaxFaults
  /\ charged \in [Requests -> Nat]
  /\ calls \in [Agents -> Nat]
  /\ peak \in Nat

(* The calls of a month never spend more than the best plan of the store    *)
(* grants, although they check, resolve and debit in separate steps, share  *)
(* the budget over two rows that may not exist yet, and the plan changes.   *)
WithinBudget == \A m \in Months : Shared(usage[m]) <= peak

(* A call is debited once, however often its transaction is tried.          *)
ChargedOnce == \A r \in Requests : charged[r] \in {0, Cost[r]}

\* Two passes of the orchestrator, of two passes of the pipeline each.
MostCalls == 4 * ProviderAttempts

(* The provider is called only for a run that has paid, and no more often   *)
(* than the three loops around the call allow together.                     *)
ProvidedIsPaid == \A a \in Agents :
  /\ calls[a] > 0 => charged[a] = Cost[a]
  /\ calls[a] <= MostCalls

(* What the rows of runs, results and cache say of each other: a run is     *)
(* marked as succeeded when its result is stored and served to others, and  *)
(* a run that failed, was skipped or was answered from the cache has none.  *)
RecordsAgree ==
  /\ \A a \in Agents :
       /\ runs[a] = "succeeded" => a \in results /\ cache # NoRun
       /\ a \in results => runs[a] \in {"running", "succeeded"}
       /\ runs[a] = "cached" => cache # NoRun
       /\ runs[a] \in {"none", "cached", "skipped"} => calls[a] = 0
  /\ cache # NoRun => cache \in results

Spent == [m \in Months |-> Shared(usage[m])]

P == INSTANCE Prepaid WITH
       Customers <- Requests,
       Users <- Agents,
       Price <- Cost,
       Budgets <- Months,
       MostUses <- MostCalls,
       granted <- peak,
       spent <- Spent,
       paid <- charged,
       uses <- calls,
       kept <- results

(* Debits, calls of the provider and stored results implement a prepaid     *)
(* service: the rows of a month grow by what its calls are debited and by   *)
(* nothing else, a debit fits a limit the store has had, the provider is    *)
(* asked only for what is paid, MostCalls times at most however its loops   *)
(* of retries nest, and not again once a result is stored, and no result is *)
(* stored that it was not asked for.                                        *)
PrepaidSpec == P!Spec
=============================================================================
