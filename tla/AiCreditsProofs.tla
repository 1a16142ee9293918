--------------------------- MODULE AiCreditsProofs ---------------------------
(***************************************************************************)
(* Proofs about AiCredits, for any calls, costs, plans, months and numbers *)
(* of errors.  A step changes the rows of one call only; what is true of   *)
(* the others rests on facts that never turn false: a cache entry stays,   *)
(* a stored result stays, and the best plan so far only gets better.       *)
(***************************************************************************)
EXTENDS AiCredits, TLAPS

Unpaid == {"new", "check", "resolve", "debit", "write"}
Paid == {"refresh", "start", "call", "fail", "failure", "result", "cache", "recommend", "finish"}

\* The credits of a call, by the step it is at.
CallOK(r, l, credits) ==
  /\ credits \in {0, Cost[r]}
  /\ l.step \in Unpaid => credits = 0
  /\ l.step \in Paid => credits = Cost[r]

\* How often the provider has been called at most when the loops stand at l.
MostBefore(l) ==
  l.attempts + (IF l.validationRetries = 1 THEN ProviderAttempts ELSE 0)
             + (IF l.retryCount = 1 THEN 2 * ProviderAttempts ELSE 0)

\* The rows of a run, by the step it is at.
RunOK(a, l, status, stored, entry, n, credits) ==
  /\ l.step \in Unpaid \cup {"refresh", "skip", "start"}
       => status = "none" /\ n = 0
  /\ l.step = "call" => status = "running" /\ a \notin stored /\ n <= MostBefore(l)
  /\ l.step \in {"fail", "result"} => status = "running" /\ a \notin stored
  /\ l.step = "failure" => status = "failed"
  /\ l.step = "cache" => status = "running" /\ a \in stored
  /\ l.step \in {"recommend", "finish"} => status = "running" /\ a \in stored /\ entry # NoRun
  /\ n > 0 => credits = Cost[a]
  /\ n <= MostCalls
  /\ status = "succeeded" => a \in stored /\ entry # NoRun
  /\ a \in stored => status \in {"running", "succeeded"}
  /\ status = "cached" => entry # NoRun
  /\ status \in {"none", "cached", "skipped"} => n = 0

CallsOK == \A r \in Requests : CallOK(r, request[r], charged[r])

RunsOK == \A a \in Agents :
  RunOK(a, request[a], runs[a], results, cache, calls[a], charged[a])

CacheOK == cache # NoRun => cache \in results

\* What a debit may spend is bounded by a plan the store has had.
BudgetOK ==
  /\ WithinBudget
  /\ limit <= peak
  /\ \A r \in Requests : request[r].limit <= peak

IInv == TypeOK /\ CallsOK /\ RunsOK /\ CacheOK /\ BudgetOK

-----------------------------------------------------------------------------
(* What the steps have in common                                           *)

LEMMA Constants ==
  /\ \A r \in Requests : Cost[r] \in Nat /\ Cost[r] > 0
  /\ \A a \in Agents : a \in Requests /\ a # NoRun
  /\ Limits \subseteq Nat
  /\ 1 \in Months
  /\ ProviderAttempts \in Nat /\ ProviderAttempts > 0
  BY AiCreditsAssumption DEF Requests, Months

LEMMA SharedType == ASSUME NEW rows \in Rows PROVE Shared(rows) \in Nat
  BY DEF Rows, Metrics, Shared

LEMMA MostType == ASSUME NEW l \in Locals PROVE MostBefore(l) \in Nat
  BY Constants DEF Locals, MostBefore

LEMMA FreshType == Fresh \in Locals
<1>1. 0 \in 0 .. DebitRetries - 1 /\ 0 \in 0 .. ProviderAttempts - 1
  BY AiCreditsAssumption
<1> QED BY <1>1, Constants DEF Fresh, Locals, Steps, NoUsage, Rows, Metrics

\* A step of one call: the others keep their rows.
LEMMA CallStep ==
  ASSUME IInv, TypeOK', BudgetOK', CacheOK',
         NEW r \in Requests, NEW l \in Locals,
         request' = [request EXCEPT ![r] = l],
         \A s \in Requests \ {r} : charged'[s] = charged[s],
         \A a \in Agents \ {r} : runs'[a] = runs[a] /\ calls'[a] = calls[a]
                                 /\ (a \in results' <=> a \in results),
         cache # NoRun => cache' # NoRun,
         CallOK(r, l, charged'[r]),
         r \in Agents => RunOK(r, l, runs'[r], results', cache', calls'[r], charged'[r])
  PROVE  IInv'
<1>1. request'[r] = l /\ \A s \in Requests \ {r} : request'[s] = request[s]
  BY DEF IInv, TypeOK
<1>2. CallsOK'
  BY <1>1 DEF IInv, CallsOK
<1>3. ASSUME NEW a \in Agents \ {r}
      PROVE  RunOK(a, request'[a], runs'[a], results', cache', calls'[a], charged'[a])
  <2>1. RunOK(a, request[a], runs[a], results, cache, calls[a], charged[a])
    BY DEF IInv, RunsOK
  <2>2. /\ request'[a] = request[a] /\ runs'[a] = runs[a] /\ calls'[a] = calls[a]
        /\ charged'[a] = charged[a] /\ (a \in results' <=> a \in results)
    BY <1>1, Constants
  <2> QED BY <2>1, <2>2 DEF RunOK
<1>4. RunsOK'
  BY <1>1, <1>3 DEF RunsOK
<1> QED BY <1>2, <1>4 DEF IInv

\* A step that only moves one call on.
LEMMA PlainStep ==
  ASSUME IInv, NEW r \in Requests, NEW l \in Locals,
         request' = [request EXCEPT ![r] = l],
         UNCHANGED <<ledger, plan, records, calls>>, faults' \in 0 .. MaxFaults,
         l.limit <= peak,
         CallOK(r, l, charged[r]),
         r \in Agents => RunOK(r, l, runs[r], results, cache, calls[r], charged[r])
  PROVE  IInv'
<1> USE DEF ledger, plan, records
<1>1. TypeOK'
  BY DEF IInv, TypeOK
<1>2. BudgetOK'
  BY DEF IInv, TypeOK, BudgetOK, WithinBudget
<1>3. CacheOK'
  BY DEF IInv, CacheOK
<1> QED BY <1>1, <1>2, <1>3, CallStep

\* Changing the step of a call keeps its other locals.
LEMMA GotoType ==
  ASSUME IInv, NEW r \in Requests, NEW step \in Steps
  PROVE  /\ [request[r] EXCEPT !.step = step] \in Locals
         /\ [request[r] EXCEPT !.step = step].step = step
         /\ [request[r] EXCEPT !.step = step].limit = request[r].limit
         /\ request[r].limit <= peak
  BY DEF IInv, TypeOK, BudgetOK, Locals

LEMMA GotoStep ==
  ASSUME IInv, NEW r \in Requests, NEW step \in Steps, Goto(r, step),
         UNCHANGED <<ledger, plan, records, calls>>, faults' \in 0 .. MaxFaults,
         CallOK(r, [request[r] EXCEPT !.step = step], charged[r]),
         r \in Agents => RunOK(r, [request[r] EXCEPT !.step = step], runs[r], results, cache,
                               calls[r], charged[r])
  PROVE  IInv'
  BY GotoType, PlainStep DEF Goto

\* Before the debit a call owes nothing, and may be refused.
LEMMA RefuseStep ==
  ASSUME IInv, NEW r \in Requests, request[r].step \in Unpaid \cup {"refresh"},
         Goto(r, Refused(r)),
         UNCHANGED <<ledger, plan, records, calls>>, faults' \in 0 .. MaxFaults
  PROVE  IInv'
<1>1. Refused(r) \in {"skip", "done"} /\ Refused(r) \in Steps
  BY DEF Refused, Steps
<1>2. CallOK(r, [request[r] EXCEPT !.step = Refused(r)], charged[r])
  BY <1>1, GotoType DEF IInv, CallsOK, CallOK, Unpaid, Paid
<1>3. r \in Agents => RunOK(r, [request[r] EXCEPT !.step = Refused(r)], runs[r], results, cache,
                            calls[r], charged[r])
  BY <1>1, GotoType DEF IInv, RunsOK, RunOK, Unpaid
<1> QED BY <1>1, <1>2, <1>3, GotoStep

LEMMA FaultType == ASSUME IInv, Fault PROVE faults' \in 0 .. MaxFaults
  BY AiCreditsAssumption DEF IInv, TypeOK, Fault

-----------------------------------------------------------------------------
(* The steps of the calls                                                  *)

LEMMA InitEstablishes == Init => IInv
<1> SUFFICES ASSUME Init PROVE IInv
  OBVIOUS
<1> USE DEF Init
<1>1. limit \in Nat /\ \A r \in Requests : request[r] = Fresh
  BY Constants
<1>2. NoUsage \in Rows /\ Shared(NoUsage) = 0
  BY DEF NoUsage, Rows, Metrics, Shared
<1>3. TypeOK
  BY <1>1, <1>2, Constants, FreshType, AiCreditsAssumption DEF TypeOK
<1>4. CallsOK
  BY <1>1 DEF CallsOK, CallOK, Fresh, Paid
<1>5. RunsOK
  <2> SUFFICES ASSUME NEW a \in Agents
               PROVE  RunOK(a, request[a], runs[a], results, cache, calls[a], charged[a])
    BY DEF RunsOK
  <2>1. request[a].step = "new"
    BY <1>1, Constants DEF Fresh
  <2>2. runs[a] = "none" /\ calls[a] = 0 /\ a \notin results /\ 0 <= MostCalls
    BY Constants DEF MostCalls
  <2> QED BY <2>1, <2>2 DEF RunOK
<1>6. CacheOK /\ BudgetOK
  BY <1>1, <1>2 DEF CacheOK, BudgetOK, WithinBudget, Fresh
<1> QED BY <1>3, <1>4, <1>5, <1>6 DEF IInv

LEMMA FaultsStay == ASSUME IInv, UNCHANGED faults PROVE faults' \in 0 .. MaxFaults
  BY DEF IInv, TypeOK

\* Checks, conflicts and refusals move a call that owes nothing.
LEMMA UnpaidStep ==
  ASSUME IInv, NEW r \in Requests, NEW step \in {"check", "resolve"},
         request[r].step \in {"new", "check"}, Goto(r, step),
         UNCHANGED <<ledger, plan, records, calls>>, faults' \in 0 .. MaxFaults
  PROVE  IInv'
<1>1. step \in Steps
  BY DEF Steps
<1>2. CallOK(r, [request[r] EXCEPT !.step = step], charged[r])
  BY <1>1, GotoType DEF IInv, CallsOK, CallOK, Unpaid, Paid
<1>3. r \in Agents => RunOK(r, [request[r] EXCEPT !.step = step], runs[r], results, cache,
                            calls[r], charged[r])
  BY <1>1, GotoType DEF IInv, RunsOK, RunOK, Unpaid
<1> QED BY <1>1, <1>2, <1>3, GotoStep

LEMMA CheckStep == ASSUME IInv, NEW r \in Requests, Check(r) PROVE IInv'
<1>1. CASE Goto(r, "resolve")
  BY <1>1, UnpaidStep, FaultsStay DEF Check, At
<1>2. CASE Goto(r, Refused(r))
  BY <1>2, RefuseStep, FaultsStay DEF Check, At, Unpaid
<1> QED BY <1>1, <1>2 DEF Check

LEMMA RecordStep == ASSUME IInv, NEW r \in Records, Record(r) PROVE IInv'
<1>1. r \in Requests /\ request[r].step = "new"
  BY DEF Requests, Record, At
<1>2. CASE Goto(r, "check")
  BY <1>1, <1>2, UnpaidStep, FaultsStay DEF Record
<1>3. CASE Goto(r, "resolve")
  BY <1>1, <1>3, UnpaidStep, FaultsStay DEF Record
<1> QED BY <1>2, <1>3 DEF Record

LEMMA BlindStep ==
  ASSUME IInv, NEW a \in Agents, CheckBlind(a) \/ RefreshBlind(a) PROVE IInv'
<1>1. a \in Requests /\ Refused(a) = "skip" /\ faults' \in 0 .. MaxFaults
  BY Constants, FaultType DEF Refused, CheckBlind, RefreshBlind
<1>2. CASE Goto(a, "skip")
  BY <1>1, <1>2, RefuseStep DEF CheckBlind, RefreshBlind, At, Unpaid
<1>3. CASE CheckBlind(a) /\ Goto(a, "resolve")
  BY <1>1, <1>3, UnpaidStep DEF CheckBlind, At
<1>4. CASE RefreshBlind(a) /\ Goto(a, "start")
  <2>1. "start" \in Steps
    BY DEF Steps
  <2>2. CallOK(a, [request[a] EXCEPT !.step = "start"], charged[a])
    BY <1>1, <1>4, <2>1, GotoType DEF IInv, CallsOK, CallOK, Unpaid, Paid, RefreshBlind, At
  <2>3. RunOK(a, [request[a] EXCEPT !.step = "start"], runs[a], results, cache,
              calls[a], charged[a])
    BY <1>1, <1>4, <2>1, GotoType DEF IInv, RunsOK, RunOK, Unpaid, RefreshBlind, At
  <2> QED BY <1>1, <1>4, <2>1, <2>2, <2>3, GotoStep DEF RefreshBlind
<1> QED BY <1>2, <1>3, <1>4 DEF CheckBlind, RefreshBlind

LEMMA ResolveStep == ASSUME IInv, NEW r \in Requests, Resolve(r) PROVE IInv'
<1>1. CASE Goto(r, Refused(r))
  BY <1>1, RefuseStep, FaultsStay DEF Resolve, At, Unpaid
<1>2. CASE ~Goto(r, Refused(r))
  <2> DEFINE l == [request[r] EXCEPT !.step = "debit", !.month = month, !.limit = limit]
  <2>0. request[r] \in Locals /\ month \in Months /\ limit \in Nat /\ limit <= peak
    BY Constants DEF IInv, TypeOK, BudgetOK
  <2>1. l \in Locals /\ l.step = "debit" /\ l.limit = limit /\ limit <= peak
    BY <2>0 DEF Locals, Steps
  <2>2. request' = [request EXCEPT ![r] = l]
    BY <1>2 DEF Resolve, IInv, TypeOK
  <2>3. CallOK(r, l, charged[r])
    BY <2>1 DEF IInv, CallsOK, CallOK, Unpaid, Paid, Resolve, At
  <2>4. r \in Agents => RunOK(r, l, runs[r], results, cache, calls[r], charged[r])
    BY <2>1 DEF IInv, RunsOK, RunOK, Unpaid, Resolve, At
  <2> HIDE DEF l
  <2> QED BY <2>1, <2>2, <2>3, <2>4, PlainStep, FaultsStay DEF Resolve
<1> QED BY <1>1, <1>2

LEMMA DebitReadStep == ASSUME IInv, NEW r \in Requests, DebitRead(r) PROVE IInv'
<1> DEFINE l == [request[r] EXCEPT !.step = "write", !.seen = usage[request[r].month]]
<1>1. /\ l \in Locals /\ l.step = "write" /\ l.limit = request[r].limit
      /\ request[r].limit <= peak
  BY DEF IInv, TypeOK, BudgetOK, Locals, Steps
<1>2. request' = [request EXCEPT ![r] = l]
  BY DEF DebitRead, IInv, TypeOK
<1>3. CallOK(r, l, charged[r])
  BY <1>1 DEF IInv, CallsOK, CallOK, Unpaid, Paid, DebitRead, At
<1>4. r \in Agents => RunOK(r, l, runs[r], results, cache, calls[r], charged[r])
  BY <1>1 DEF IInv, RunsOK, RunOK, Unpaid, DebitRead, At
<1> HIDE DEF l
<1> QED BY <1>1, <1>2, <1>3, <1>4, PlainStep, FaultsStay DEF DebitRead

LEMMA ConflictStep == ASSUME IInv, NEW r \in Requests, Conflict(r) PROVE IInv'
<1> DEFINE l == [request[r] EXCEPT !.step = "debit", !.attempt = @ + 1]
<1>1. /\ l \in Locals /\ l.step = "debit" /\ l.limit = request[r].limit
      /\ request[r].limit <= peak
  BY AiCreditsAssumption DEF Conflict, IInv, TypeOK, BudgetOK, Locals, Steps
<1>2. request' = [request EXCEPT ![r] = l]
  BY DEF Conflict, IInv, TypeOK
<1>3. CallOK(r, l, charged[r])
  BY <1>1 DEF IInv, CallsOK, CallOK, Unpaid, Paid, Conflict, Conflicts, At
<1>4. r \in Agents => RunOK(r, l, runs[r], results, cache, calls[r], charged[r])
  BY <1>1 DEF IInv, RunsOK, RunOK, Unpaid, Conflict, Conflicts, At
<1> HIDE DEF l
<1> QED BY <1>1, <1>2, <1>3, <1>4, PlainStep, FaultsStay DEF Conflict

LEMMA RefusalStep ==
  ASSUME IInv, NEW r \in Requests, Exceeded(r) \/ GivesUp(r) \/ ReadFails(r) PROVE IInv'
<1>1. faults' \in 0 .. MaxFaults
  BY FaultType, FaultsStay DEF Exceeded, GivesUp, ReadFails
<1> QED BY <1>1, RefuseStep DEF Exceeded, GivesUp, ReadFails, Conflicts, At, Unpaid

LEMMA RefreshStep == ASSUME IInv, NEW r \in Requests, Refresh(r) PROVE IInv'
<1>1. CASE Goto(r, Refused(r))
  BY <1>1, RefuseStep, FaultsStay DEF Refresh, At
<1>2. CASE r \in Agents /\ Goto(r, "start")
  <2>1. "start" \in Steps
    BY DEF Steps
  <2>2. CallOK(r, [request[r] EXCEPT !.step = "start"], charged[r])
    BY <2>1, GotoType DEF IInv, CallsOK, CallOK, Unpaid, Paid, Refresh, At
  <2>3. RunOK(r, [request[r] EXCEPT !.step = "start"], runs[r], results, cache,
              calls[r], charged[r])
    BY <1>2, <2>1, GotoType DEF IInv, RunsOK, RunOK, Unpaid, Refresh, At
  <2> QED BY <1>2, <2>1, <2>2, <2>3, GotoStep, FaultsStay DEF Refresh
<1>3. r \in Records \/ r \in Agents
  BY DEF Requests
<1>4. r \in Records => r \notin Agents
  BY AiCreditsAssumption
<1> QED BY <1>1, <1>2, <1>3, <1>4 DEF Refresh, Refused

\* The debit itself: nobody has spent since the snapshot.
LEMMA ChargeKeeps ==
  ASSUME IInv, NEW r \in Requests, Commits(r), UNCHANGED plan
  PROVE  /\ usage' \in [Months -> Rows] /\ charged' \in [Requests -> Nat]
         /\ WithinBudget'
         /\ charged'[r] = Cost[r]
         /\ \A s \in Requests \ {r} : charged'[s] = charged[s]
<1> DEFINE m == request[r].month
           rows == [usage[m] EXCEPT ![MetricOf[r]] = @ + Cost[r]]
<1>1. /\ m \in Months /\ usage[m] \in Rows /\ request[r].seen = usage[m]
      /\ request[r].limit \in Nat /\ request[r].limit <= peak /\ peak \in Nat
      /\ usage \in [Months -> Rows] /\ charged \in [Requests -> Nat]
  BY DEF Commits, Overtaken, IInv, TypeOK, BudgetOK, Locals
<1>2. Cost[r] \in Nat /\ MetricOf[r] \in Metrics
  BY Constants, AiCreditsAssumption
<1>3. rows \in Rows
  BY <1>1, <1>2 DEF Rows
<1>4. Shared(rows) = Shared(usage[m]) + Cost[r]
  BY <1>1, <1>2 DEF Rows, Metrics, Shared
<1>5. Shared(usage[m]) + Cost[r] <= request[r].limit
  BY <1>1, <1>2, SharedType DEF Commits, Exceeds
<1>6. usage' = [usage EXCEPT ![m] = rows]
  BY <1>1 DEF Commits, Charge
<1>7. Shared(rows) <= peak
  BY <1>1, <1>2, <1>4, <1>5, SharedType
<1>8. charged[r] = 0
  BY DEF IInv, CallsOK, CallOK, Commits, At, Unpaid
<1> HIDE DEF rows, m
<1>9. WithinBudget'
  BY <1>1, <1>6, <1>7 DEF IInv, BudgetOK, WithinBudget, plan
<1>10. charged' \in [Requests -> Nat] /\ charged'[r] = Cost[r]
       /\ \A s \in Requests \ {r} : charged'[s] = charged[s]
  BY <1>1, <1>2, <1>8 DEF Commits, Charge
<1> QED BY <1>1, <1>3, <1>6, <1>9, <1>10

LEMMA DebitStep ==
  ASSUME IInv, NEW r \in Requests, Commits(r), NEW step \in {"refresh", "skip", "done"},
         Goto(r, step), faults' \in 0 .. MaxFaults, UNCHANGED <<plan, records, calls>>
  PROVE  IInv'
<1> DEFINE l == [request[r] EXCEPT !.step = step]
<1> USE DEF plan, records
<1>1. step \in Steps
  BY DEF Steps
<1>2. l \in Locals /\ l.step = step /\ l.limit = request[r].limit
      /\ request[r].limit <= peak
  BY <1>1, GotoType
<1>3. request' = [request EXCEPT ![r] = l]
  BY DEF Goto, IInv, TypeOK
<1>4. At(r, "write")
  BY DEF Commits
<1>5. CallOK(r, l, charged'[r])
  BY <1>2, ChargeKeeps DEF CallOK, Unpaid
<1>6. r \in Agents => RunOK(r, l, runs'[r], results', cache', calls'[r], charged'[r])
  BY <1>2, <1>4, ChargeKeeps DEF IInv, RunsOK, RunOK, At, Unpaid
<1> HIDE DEF l
<1>7. TypeOK'
  BY <1>2, <1>3, ChargeKeeps DEF IInv, TypeOK
<1>8. BudgetOK'
  BY <1>2, <1>3, ChargeKeeps DEF IInv, TypeOK, BudgetOK
<1>9. CacheOK'
  BY DEF IInv, CacheOK
<1> QED BY <1>2, <1>3, <1>5, <1>6, <1>7, <1>8, <1>9, ChargeKeeps, CallStep

LEMMA DebitWriteStep ==
  ASSUME IInv, NEW r \in Requests, DebitWrite(r) \/ DebitLost(r) PROVE IInv'
<1>1. faults' \in 0 .. MaxFaults
  BY FaultType, FaultsStay DEF DebitWrite, DebitLost
<1>2. Refused(r) \in {"skip", "done"}
  BY DEF Refused
<1> QED BY <1>1, <1>2, DebitStep DEF DebitWrite, DebitLost

LEMMA BreaksStep == ASSUME IInv, NEW r \in Requests, Breaks(r) PROVE IInv'
<1>1. "done" \in Steps
  BY DEF Steps
<1>2. CallOK(r, [request[r] EXCEPT !.step = "done"], charged[r])
  BY <1>1, GotoType DEF IInv, CallsOK, CallOK, Unpaid, Paid
<1>3. r \in Agents => RunOK(r, [request[r] EXCEPT !.step = "done"], runs[r], results, cache,
                            calls[r], charged[r])
  BY <1>1, GotoType DEF IInv, RunsOK, RunOK, Unpaid
<1> QED BY <1>1, <1>2, <1>3, GotoStep, FaultType DEF Breaks

-----------------------------------------------------------------------------
(* The steps of the runs                                                   *)

LEMMA LookupStep ==
  ASSUME IInv, NEW a \in Agents, NEW force \in BOOLEAN, Lookup(a, force) PROVE IInv'
<1>1. a \in Requests /\ request[a].step = "new"
  BY Constants DEF Lookup, At
<1>2. CASE Goto(a, "check") /\ runs' = runs
  BY <1>1, <1>2, UnpaidStep, FaultsStay DEF Lookup, records
<1>3. CASE Goto(a, "done") /\ runs' = [runs EXCEPT ![a] = "cached"] /\ cache # NoRun
  <2> DEFINE l == [request[a] EXCEPT !.step = "done"]
  <2> USE DEF Lookup, ledger, plan
  <2>1. "done" \in Steps
    BY DEF Steps
  <2>2. l \in Locals /\ l.step = "done" /\ l.limit <= peak
    BY <1>1, <2>1, GotoType
  <2>3. request' = [request EXCEPT ![a] = l]
    BY <1>3 DEF Goto, IInv, TypeOK
  <2>4. RunOK(a, request[a], runs[a], results, cache, calls[a], charged[a])
    BY DEF IInv, RunsOK
  <2>5. runs'[a] = "cached" /\ \A b \in Agents \ {a} : runs'[b] = runs[b]
    BY <1>3 DEF IInv, TypeOK
  <2>6. a \notin results /\ calls[a] = 0 /\ calls[a] <= MostCalls
    BY <1>1, <2>4 DEF RunOK, Unpaid
  <2>7. CallOK(a, l, charged'[a])
    BY <1>1, <2>2 DEF IInv, CallsOK, CallOK, Unpaid, Paid
  <2>8. RunOK(a, l, runs'[a], results', cache', calls'[a], charged'[a])
    BY <1>3, <2>2, <2>5, <2>6 DEF RunOK, Unpaid
  <2> HIDE DEF l
  <2>9. TypeOK'
    BY <1>1, <1>3, <2>2, <2>3 DEF IInv, TypeOK
  <2>10. BudgetOK'
    BY <1>1, <2>2, <2>3 DEF IInv, TypeOK, BudgetOK, WithinBudget
  <2>11. CacheOK'
    BY DEF IInv, CacheOK
  <2> QED BY <1>1, <2>2, <2>3, <2>5, <2>7, <2>8, <2>9, <2>10, <2>11, CallStep
<1> QED BY <1>2, <1>3 DEF Lookup

\* A run that has paid, or that is refused, writes its rows and moves on.
LEMMA RunStep ==
  ASSUME IInv, NEW a \in Agents, NEW step \in Steps, NEW status, NEW n \in Nat,
         Goto(a, step),
         runs' = [runs EXCEPT ![a] = status],
         status \in {"skipped", "running", "failed", "succeeded"},
         results' \in {results, results \cup {a}},
         cache' \in {cache, a}, cache' = a => a \in results',
         calls' = [calls EXCEPT ![a] = n],
         faults' \in 0 .. MaxFaults, UNCHANGED <<ledger, plan>>,
         CallOK(a, [request[a] EXCEPT !.step = step], charged[a]),
         RunOK(a, [request[a] EXCEPT !.step = step], status, results', cache', n, charged[a])
  PROVE  IInv'
<1> DEFINE l == [request[a] EXCEPT !.step = step]
<1> USE DEF ledger, plan
<1>1. a \in Requests
  BY Constants
<1>2. l \in Locals /\ l.limit <= peak
  BY <1>1, GotoType
<1>3. request' = [request EXCEPT ![a] = l]
  BY DEF Goto, IInv, TypeOK
<1>4. /\ runs'[a] = status /\ \A b \in Agents \ {a} : runs'[b] = runs[b]
      /\ calls'[a] = n /\ \A b \in Agents \ {a} : calls'[b] = calls[b]
  BY DEF IInv, TypeOK
<1> HIDE DEF l
<1>5. TypeOK'
  BY <1>1, <1>2, <1>3 DEF IInv, TypeOK
<1>6. BudgetOK'
  BY <1>1, <1>2, <1>3 DEF IInv, TypeOK, BudgetOK, WithinBudget
<1>7. CacheOK'
  BY DEF IInv, CacheOK
<1>8. cache # NoRun => cache' # NoRun
  BY Constants
<1> QED BY <1>1, <1>2, <1>3, <1>4, <1>5, <1>6, <1>7, <1>8, CallStep DEF l

LEMMA RowsUnchanged ==
  ASSUME IInv, NEW a \in Agents
  PROVE  /\ runs = [runs EXCEPT ![a] = runs[a]] /\ calls = [calls EXCEPT ![a] = calls[a]]
         /\ calls[a] \in Nat
         /\ RunOK(a, request[a], runs[a], results, cache, calls[a], charged[a])
         /\ CallOK(a, request[a], charged[a])
         /\ a \in Requests
  BY Constants DEF IInv, TypeOK, RunsOK, CallsOK

LEMMA StatusStep ==
  ASSUME IInv, NEW a \in Agents, Skip(a) \/ Start(a) \/ Fails(a) \/ Finish(a) PROVE IInv'
<1>1. {"done", "call", "failure"} \subseteq Steps
  BY DEF Steps
<1>2. CASE Skip(a)
  <2>1. CallOK(a, [request[a] EXCEPT !.step = "done"], charged[a])
    BY <1>1, GotoType, RowsUnchanged DEF CallOK, Unpaid, Paid
  <2>2. RunOK(a, [request[a] EXCEPT !.step = "done"], "skipped", results, cache, calls[a], charged[a])
    BY <1>1, <1>2, GotoType, RowsUnchanged DEF RunOK, Skip, At, Unpaid
  <2>3. runs' = [runs EXCEPT ![a] = "skipped"] /\ calls' = [calls EXCEPT ![a] = calls[a]]
        /\ cache' = cache /\ results' = results /\ Goto(a, "done") /\ UNCHANGED <<ledger, plan, faults>>
    BY <1>2, RowsUnchanged DEF Skip
  <2>4. cache = a => a \in results
    BY Constants DEF IInv, CacheOK
  <2> QED BY <1>1, <2>1, <2>2, <2>3, <2>4, RunStep, RowsUnchanged, FaultsStay
<1>3. CASE Start(a)
  <2>1. CallOK(a, [request[a] EXCEPT !.step = "call"], charged[a])
    BY <1>1, <1>3, GotoType, RowsUnchanged DEF CallOK, Unpaid, Paid, Start, At
  <2>2. RunOK(a, [request[a] EXCEPT !.step = "call"], "running", results, cache, calls[a], charged[a])
    BY <1>1, <1>3, GotoType, MostType, RowsUnchanged DEF RunOK, Start, At, Unpaid
  <2>3. runs' = [runs EXCEPT ![a] = "running"] /\ calls' = [calls EXCEPT ![a] = calls[a]]
        /\ cache' = cache /\ results' = results /\ Goto(a, "call") /\ UNCHANGED <<ledger, plan, faults>>
    BY <1>3, RowsUnchanged DEF Start
  <2>4. cache = a => a \in results
    BY Constants DEF IInv, CacheOK
  <2> QED BY <1>1, <2>1, <2>2, <2>3, <2>4, RunStep, RowsUnchanged, FaultsStay
<1>4. CASE Fails(a)
  <2>1. CallOK(a, [request[a] EXCEPT !.step = "failure"], charged[a])
    BY <1>1, <1>4, GotoType, RowsUnchanged DEF CallOK, Unpaid, Paid, Fails, At
  <2>2. RunOK(a, [request[a] EXCEPT !.step = "failure"], "failed", results, cache, calls[a], charged[a])
    BY <1>1, <1>4, GotoType, RowsUnchanged DEF RunOK, Fails, At, Unpaid
  <2>3. runs' = [runs EXCEPT ![a] = "failed"] /\ calls' = [calls EXCEPT ![a] = calls[a]]
        /\ cache' = cache /\ results' = results /\ Goto(a, "failure") /\ UNCHANGED <<ledger, plan, faults>>
    BY <1>4, RowsUnchanged DEF Fails
  <2>4. cache = a => a \in results
    BY Constants DEF IInv, CacheOK
  <2> QED BY <1>1, <2>1, <2>2, <2>3, <2>4, RunStep, RowsUnchanged, FaultsStay
<1>5. CASE Finish(a)
  <2>1. CallOK(a, [request[a] EXCEPT !.step = "done"], charged[a])
    BY <1>1, GotoType, RowsUnchanged DEF CallOK, Unpaid, Paid
  <2>2. RunOK(a, [request[a] EXCEPT !.step = "done"], "succeeded", results, cache, calls[a], charged[a])
    BY <1>1, <1>5, GotoType, RowsUnchanged DEF RunOK, Finish, At, Unpaid
  <2>3. runs' = [runs EXCEPT ![a] = "succeeded"] /\ calls' = [calls EXCEPT ![a] = calls[a]]
        /\ cache' = cache /\ results' = results /\ Goto(a, "done") /\ UNCHANGED <<ledger, plan, faults>>
    BY <1>5, RowsUnchanged DEF Finish
  <2>4. cache = a => a \in results
    BY Constants DEF IInv, CacheOK
  <2> QED BY <1>1, <2>1, <2>2, <2>3, <2>4, RunStep, RowsUnchanged, FaultsStay
<1> QED BY <1>2, <1>3, <1>4, <1>5

LEMMA StoreStep ==
  ASSUME IInv, NEW a \in Agents,
         StoreFailure(a) \/ StoreResult(a) \/ StoreCache(a) \/ Recommend(a) PROVE IInv'
<1>1. {"done", "cache", "recommend", "finish"} \subseteq Steps
  BY DEF Steps
<1>2. CASE StoreFailure(a)
  <2>1. CallOK(a, [request[a] EXCEPT !.step = "done"], charged[a])
    BY <1>1, GotoType, RowsUnchanged DEF CallOK, Unpaid, Paid
  <2>2. RunOK(a, [request[a] EXCEPT !.step = "done"], runs[a], results, cache, calls[a], charged[a])
    BY <1>1, <1>2, GotoType, RowsUnchanged DEF RunOK, StoreFailure, At, Unpaid
  <2> QED BY <1>1, <1>2, <2>1, <2>2, GotoStep, RowsUnchanged, FaultsStay DEF StoreFailure
<1>3. CASE StoreResult(a)
  <2>1. CallOK(a, [request[a] EXCEPT !.step = "cache"], charged[a])
    BY <1>1, <1>3, GotoType, RowsUnchanged DEF CallOK, Unpaid, Paid, StoreResult, At
  <2>2. runs[a] = "running"
    BY <1>3, RowsUnchanged DEF RunOK, StoreResult, At
  <2>3. RunOK(a, [request[a] EXCEPT !.step = "cache"], "running", results', cache', calls[a], charged[a])
    BY <1>1, <1>3, <2>2, GotoType, RowsUnchanged DEF RunOK, StoreResult, At, Unpaid
  <2>4. runs' = [runs EXCEPT ![a] = "running"] /\ calls' = [calls EXCEPT ![a] = calls[a]]
        /\ cache' = cache /\ results' = results \cup {a}
    BY <1>3, <2>2, RowsUnchanged DEF StoreResult
  <2> QED BY <1>1, <1>3, <2>1, <2>3, <2>4, RunStep, RowsUnchanged, FaultsStay DEF StoreResult
<1>4. CASE StoreCache(a)
  <2>1. CallOK(a, [request[a] EXCEPT !.step = "recommend"], charged[a])
    BY <1>1, <1>4, GotoType, RowsUnchanged DEF CallOK, Unpaid, Paid, StoreCache, At
  <2>2. runs[a] = "running" /\ a \in results
    BY <1>4, RowsUnchanged DEF RunOK, StoreCache, At
  <2>3. RunOK(a, [request[a] EXCEPT !.step = "recommend"], "running", results', cache', calls[a], charged[a])
    BY <1>1, <1>4, <2>2, GotoType, RowsUnchanged, Constants DEF RunOK, StoreCache, At, Unpaid
  <2>4. runs' = [runs EXCEPT ![a] = "running"] /\ calls' = [calls EXCEPT ![a] = calls[a]]
        /\ cache' = a /\ results' = results
    BY <1>4, <2>2, RowsUnchanged DEF StoreCache
  <2> QED BY <1>1, <1>4, <2>1, <2>2, <2>3, <2>4, RunStep, RowsUnchanged, FaultsStay DEF StoreCache
<1>5. CASE Recommend(a)
  <2>1. CallOK(a, [request[a] EXCEPT !.step = "finish"], charged[a])
    BY <1>1, <1>5, GotoType, RowsUnchanged DEF CallOK, Unpaid, Paid, Recommend, At
  <2>2. RunOK(a, [request[a] EXCEPT !.step = "finish"], runs[a], results, cache, calls[a], charged[a])
    BY <1>1, <1>5, GotoType, RowsUnchanged DEF RunOK, Recommend, At, Unpaid
  <2> QED BY <1>1, <1>5, <2>1, <2>2, GotoStep, RowsUnchanged, FaultsStay DEF Recommend
<1> QED BY <1>2, <1>3, <1>4, <1>5

\* What the loops around a call of the provider keep and count.
LEMMA Loops ==
  ASSUME NEW l \in Locals, l.step = "call", NEW answer \in Answers
  PROVE  /\ Looped(l, answer) \in Locals
         /\ Looped(l, answer).limit = l.limit
         /\ Looped(l, answer).step \in {"call", "result", "fail"}
         /\ MostBefore(l) + 1 <= MostCalls
         /\ Looped(l, answer).step = "call" => MostBefore(l) + 1 <= MostBefore(Looped(l, answer))
<1> DEFINE next == Looped(l, answer)
<1>1. /\ l.attempts \in 0 .. ProviderAttempts - 1
      /\ l.validationRetries \in 0 .. 1 /\ l.retryCount \in 0 .. 1
      /\ ProviderAttempts \in Nat /\ ProviderAttempts > 0
  BY Constants DEF Locals
<1>2. MostBefore(l) + 1 <= MostCalls
  BY <1>1 DEF MostBefore, MostCalls
<1>3. CASE TriesAgain(l, answer)
  <2>1. next = [l EXCEPT !.attempts = @ + 1]
    BY <1>3 DEF Looped, ValidatesAgain, ExecutesAgain, TriesAgain
  <2>2. l.attempts + 1 \in 0 .. ProviderAttempts - 1
    BY <1>1, <1>3 DEF TriesAgain
  <2>3. /\ next \in Locals /\ next.limit = l.limit /\ next.step = "call"
        /\ next.attempts = l.attempts + 1 /\ next.validationRetries = l.validationRetries
        /\ next.retryCount = l.retryCount
    BY <2>1, <2>2 DEF Locals
  <2> HIDE DEF next
  <2>4. MostBefore(l) + 1 <= MostBefore(next)
    BY <1>1, <2>3 DEF MostBefore
  <2> QED BY <1>2, <2>3, <2>4 DEF next
<1>4. CASE ValidatesAgain(l, answer)
  <2>1. next = [l EXCEPT !.attempts = 0, !.validationRetries = 1]
    BY <1>4 DEF Looped, ValidatesAgain, ExecutesAgain
  <2>2. 0 \in 0 .. ProviderAttempts - 1 /\ 0 \in 0 .. 1 /\ 1 \in 0 .. 1
    BY <1>1
  <2>3. /\ next \in Locals /\ next.limit = l.limit /\ next.step = "call"
        /\ next.attempts = 0 /\ next.validationRetries = 1 /\ next.retryCount = l.retryCount
    BY <2>1, <2>2 DEF Locals
  <2> HIDE DEF next
  <2>4. MostBefore(l) + 1 <= MostBefore(next)
    BY <1>1, <1>4, <2>3 DEF MostBefore, ValidatesAgain
  <2> QED BY <1>2, <2>3, <2>4 DEF next
<1>5. CASE ExecutesAgain(l, answer)
  <2>1. next = [l EXCEPT !.attempts = 0, !.validationRetries = 0, !.retryCount = 1]
    BY <1>5 DEF Looped, ExecutesAgain, TriesAgain, ValidatesAgain
  <2>2. 0 \in 0 .. ProviderAttempts - 1 /\ 0 \in 0 .. 1 /\ 1 \in 0 .. 1
    BY <1>1
  <2>3. /\ next \in Locals /\ next.limit = l.limit /\ next.step = "call"
        /\ next.attempts = 0 /\ next.validationRetries = 0 /\ next.retryCount = 1
    BY <2>1, <2>2 DEF Locals
  <2> HIDE DEF next
  <2>4. MostBefore(l) + 1 <= MostBefore(next)
    BY <1>1, <1>5, <2>3 DEF MostBefore, ExecutesAgain
  <2> QED BY <1>2, <2>3, <2>4 DEF next
<1>6. CASE ~TriesAgain(l, answer) /\ ~ValidatesAgain(l, answer) /\ ~ExecutesAgain(l, answer)
  <2>1. next = [l EXCEPT !.step = IF answer = "valid" THEN "result" ELSE "fail"]
    BY <1>6 DEF Looped
  <2>2. next \in Locals /\ next.limit = l.limit /\ next.step \in {"result", "fail"}
    BY <2>1 DEF Locals, Steps
  <2> QED BY <1>2, <2>2
<1> QED BY <1>3, <1>4, <1>5, <1>6

\* The provider is called again, within the same run.
LEMMA ProviderStep ==
  ASSUME IInv, NEW a \in Agents, NEW answer \in Answers, Call(a, answer) PROVE IInv'
<1> DEFINE l == Looped(request[a], answer)
<1> USE DEF ledger, plan, records
<1>1. /\ a \in Requests /\ request[a].step = "call" /\ request[a] \in Locals
      /\ runs[a] = "running" /\ a \notin results /\ calls[a] \in Nat
      /\ calls[a] <= MostBefore(request[a])
      /\ charged[a] = Cost[a] /\ request[a].limit <= peak
  BY RowsUnchanged DEF Call, At, RunOK, CallOK, Paid, IInv, TypeOK, BudgetOK, Locals
<1>2. /\ l \in Locals /\ l.limit = request[a].limit /\ l.step \in {"call", "result", "fail"}
      /\ MostBefore(request[a]) + 1 <= MostCalls
      /\ l.step = "call" => MostBefore(request[a]) + 1 <= MostBefore(l)
  BY <1>1, Loops
<1>3. request' = [request EXCEPT ![a] = l]
  BY DEF Call
<1> HIDE DEF l
<1>4. /\ calls'[a] = calls[a] + 1 /\ calls' \in [Agents -> Nat]
      /\ \A b \in Agents \ {a} : calls'[b] = calls[b]
  BY <1>1 DEF Call, IInv, TypeOK
<1>5. /\ MostBefore(request[a]) \in Nat /\ MostBefore(l) \in Nat /\ MostCalls \in Nat
  BY <1>1, <1>2, MostType, Constants DEF MostCalls
<1>6. calls'[a] <= MostCalls /\ (l.step = "call" => calls'[a] <= MostBefore(l))
  BY <1>1, <1>2, <1>4, <1>5
<1>7. CallOK(a, l, charged'[a])
  BY <1>1, <1>2 DEF CallOK, Unpaid, Call
<1>8. RunOK(a, l, runs'[a], results', cache', calls'[a], charged'[a])
  BY <1>1, <1>2, <1>6 DEF RunOK, Unpaid, Call
<1>9. TypeOK'
  BY <1>1, <1>2, <1>3, <1>4 DEF IInv, TypeOK, Call
<1>10. BudgetOK'
  BY <1>1, <1>2, <1>3 DEF IInv, TypeOK, BudgetOK, WithinBudget, Call
<1>11. CacheOK'
  BY DEF IInv, CacheOK, Call
<1> QED BY <1>1, <1>2, <1>3, <1>4, <1>7, <1>8, <1>9, <1>10, <1>11, CallStep DEF Call

\* ... or not at all.
LEMMA UnaskedStep == ASSUME IInv, NEW a \in Agents, Unasked(a) PROVE IInv'
<1>1. "fail" \in Steps
  BY DEF Steps
<1>2. CallOK(a, [request[a] EXCEPT !.step = "fail"], charged[a])
  BY <1>1, GotoType, RowsUnchanged DEF CallOK, Unpaid, Paid, Unasked, At
<1>3. RunOK(a, [request[a] EXCEPT !.step = "fail"], runs[a], results, cache, calls[a], charged[a])
  BY <1>1, GotoType, RowsUnchanged DEF RunOK, Unasked, At, Unpaid
<1> QED BY <1>1, <1>2, <1>3, GotoStep, RowsUnchanged, FaultsStay DEF Unasked

LEMMA SurroundingsStep ==
  ASSUME IInv, (\E l \in Limits : ChangePlan(l)) \/ ChangeAccess \/ NextMonth PROVE IInv'
<1> USE DEF ledger, records
<1>1. CASE \E l \in Limits : ChangePlan(l)
  <2> PICK l \in Limits : ChangePlan(l)
    BY <1>1
  <2>1. l \in Nat /\ peak \in Nat /\ peak' \in Nat /\ peak <= peak' /\ limit' = l /\ l <= peak'
    BY Constants DEF ChangePlan, IInv, TypeOK
  <2>2. TypeOK'
    BY <2>1 DEF IInv, TypeOK, ChangePlan
  <2>3. \A m \in Months : Shared(usage[m]) \in Nat
    BY SharedType DEF IInv, TypeOK
  <2>4. \A r \in Requests : request[r].limit \in Nat
    BY DEF IInv, TypeOK, Locals
  <2>5. BudgetOK'
    BY <2>1, <2>3, <2>4 DEF IInv, BudgetOK, WithinBudget, ChangePlan
  <2>6. CallsOK' /\ RunsOK' /\ CacheOK'
    BY DEF IInv, CallsOK, RunsOK, CacheOK, ChangePlan
  <2> QED BY <2>2, <2>5, <2>6 DEF IInv
<1>2. CASE ChangeAccess \/ NextMonth
  <2>1. TypeOK'
    <3>1. month' \in Months
      BY <1>2, AiCreditsAssumption DEF IInv, TypeOK, ChangeAccess, NextMonth, Months
    <3>2. access' \in BOOLEAN
      BY <1>2 DEF IInv, TypeOK, ChangeAccess, NextMonth
    <3>3. UNCHANGED <<ledger, limit, peak, request, records, faults, calls>>
      BY <1>2 DEF ChangeAccess, NextMonth
    <3> QED BY <3>1, <3>2, <3>3 DEF IInv, TypeOK
  <2>2. BudgetOK'
    BY <1>2 DEF IInv, BudgetOK, WithinBudget, ChangeAccess, NextMonth
  <2>3. CallsOK' /\ RunsOK' /\ CacheOK'
    BY <1>2 DEF IInv, CallsOK, RunsOK, CacheOK, ChangeAccess, NextMonth
  <2> QED BY <2>1, <2>2, <2>3 DEF IInv
<1> QED BY <1>1, <1>2

LEMMA StutterStep == ASSUME IInv, UNCHANGED vars PROVE IInv'
  BY DEF vars, ledger, plan, records, IInv, TypeOK, CallsOK, RunsOK, CacheOK, BudgetOK, WithinBudget

LEMMA StepPreserves == IInv /\ [Next]_vars => IInv'
<1> SUFFICES ASSUME IInv, [Next]_vars PROVE IInv'
  OBVIOUS
<1>1. ASSUME NEW r \in Requests, Debits(r) PROVE IInv'
  BY <1>1, CheckStep, ResolveStep, DebitReadStep, RefusalStep, DebitWriteStep, ConflictStep,
     RefreshStep, BreaksStep DEF Debits
<1>2. ASSUME NEW a \in Agents, Runs(a) PROVE IInv'
  BY <1>2, LookupStep, BlindStep, StatusStep, ProviderStep, UnaskedStep, StoreStep DEF Runs
<1>3. ASSUME NEW r \in Records, Record(r) PROVE IInv'
  BY <1>3, RecordStep
<1> QED BY <1>1, <1>2, <1>3, SurroundingsStep, StutterStep DEF Next

-----------------------------------------------------------------------------
(* Type, payment of every call, rows of every run, the cache entry and the  *)
(* budgets in hand are inductive.                                           *)
THEOREM AiCreditsInvariant == Spec => []IInv
<1> QED BY InitEstablishes, StepPreserves, PTL DEF Spec

(* Every reachable state is well typed.                                     *)
THEOREM AiCreditsTypeCorrect == Spec => []TypeOK
<1>1. IInv => TypeOK
  BY DEF IInv
<1> QED BY <1>1, AiCreditsInvariant, PTL

(* No month spends more than the best plan grants                           *)
(* (tryIncrementAiCreditsWithinLimit).                                      *)
THEOREM BudgetIsKept == Spec => []WithinBudget
<1>1. IInv => WithinBudget
  BY DEF IInv, BudgetOK
<1> QED BY <1>1, AiCreditsInvariant, PTL

(* Retries of the transaction and lost answers never debit a call twice.    *)
THEOREM DebitedOnce == Spec => []ChargedOnce
<1>1. IInv => ChargedOnce
  BY DEF IInv, CallsOK, CallOK, ChargedOnce
<1> QED BY <1>1, AiCreditsInvariant, PTL

(* The provider is never called for a run that has not paid, and the nested *)
(* loops of the orchestrator, the pipeline and executeWithRetry call it     *)
(* four times their attempts at most.                                       *)
THEOREM PaidBeforeProvided == Spec => []ProvidedIsPaid
<1>1. IInv => ProvidedIsPaid
  BY DEF IInv, RunsOK, RunOK, ProvidedIsPaid
<1> QED BY <1>1, AiCreditsInvariant, PTL

(* The rows of runs, results and cache agree, whatever breaks in between.   *)
THEOREM RowsAgree == Spec => []RecordsAgree
<1>1. IInv => RecordsAgree
  BY DEF IInv, RunsOK, RunOK, CacheOK, RecordsAgree
<1> QED BY <1>1, AiCreditsInvariant, PTL

-----------------------------------------------------------------------------
(* The refinement of Prepaid                                               *)

\* A result that is about to be stored was asked for.
Answered == \A a \in Agents : request[a].step = "result" => calls[a] > 0

LEMMA GotoAnswered ==
  ASSUME IInv, Answered, NEW r \in Requests, NEW step, step # "result", Goto(r, step),
         UNCHANGED calls
  PROVE  Answered'
<1>1. request[r] \in Locals /\ request \in [Requests -> Locals]
  BY DEF IInv, TypeOK
<1>2. request'[r].step = step /\ \A s \in Requests \ {r} : request'[s] = request[s]
  BY <1>1 DEF Goto, Locals
<1> QED BY <1>2, Constants DEF Answered

LEMMA DebitsAnswered ==
  ASSUME IInv, Answered, NEW r \in Requests, Debits(r)
  PROVE  Answered'
<1>0. /\ request[r] \in Locals /\ request \in [Requests -> Locals]
      /\ Refused(r) # "result"
  BY DEF IInv, TypeOK, Refused
<1>1. CASE Check(r) \/ Exceeded(r) \/ DebitWrite(r) \/ DebitLost(r) \/ GivesUp(r) \/ Refresh(r)
             \/ ReadFails(r) \/ Breaks(r)
  BY <1>0, <1>1, GotoAnswered
     DEF Check, Exceeded, DebitWrite, DebitLost, GivesUp, Refresh, ReadFails, Breaks
<1>2. CASE Resolve(r) \/ DebitRead(r) \/ Conflict(r)
  <2>1. CASE Goto(r, Refused(r))
    BY <1>0, <1>2, <2>1, GotoAnswered DEF Resolve, DebitRead, Conflict
  <2>2. CASE ~Goto(r, Refused(r))
    <3>1. request'[r].step # "result" /\ \A s \in Requests \ {r} : request'[s] = request[s]
      BY <1>0, <1>2, <2>2 DEF Resolve, DebitRead, Conflict, Locals
    <3> QED BY <1>2, <3>1, Constants DEF Answered, Resolve, DebitRead, Conflict
  <2> QED BY <2>1, <2>2
<1> QED BY <1>1, <1>2 DEF Debits

LEMMA CallAnswered ==
  ASSUME IInv, Answered, NEW a \in Agents, NEW answer \in Answers, Call(a, answer)
  PROVE  Answered'
<1>1. /\ a \in Requests /\ request[a] \in Locals /\ request \in [Requests -> Locals]
      /\ calls \in [Agents -> Nat] /\ Agents \subseteq Requests
  BY Constants DEF IInv, TypeOK
<1>2. calls'[a] > 0 /\ \A b \in Agents \ {a} : calls'[b] = calls[b]
  BY <1>1 DEF Call
<1>3. \A b \in Agents \ {a} : request'[b] = request[b]
  BY <1>1 DEF Call
<1> QED BY <1>2, <1>3 DEF Answered

LEMMA AnsweredStep ==
  ASSUME IInv, Answered, [Next]_vars
  PROVE  Answered'
<1>1. ASSUME NEW a \in Agents, Runs(a) PROVE Answered'
  <2>1. CASE \E answer \in Answers : Call(a, answer)
    BY <2>1, CallAnswered
  <2>2. CASE ~\E answer \in Answers : Call(a, answer)
    BY <1>1, <2>2, Constants, GotoAnswered
       DEF Runs, Lookup, CheckBlind, RefreshBlind, Skip, Start, Unasked, Fails, StoreFailure,
           StoreResult, StoreCache, Recommend, Finish
  <2> QED BY <2>1, <2>2
<1>2. ASSUME NEW r \in Records, Record(r) PROVE Answered'
  BY <1>2, GotoAnswered DEF Record, Requests
<1>3. CASE \/ \E l \in Limits : ChangePlan(l)
           \/ ChangeAccess \/ NextMonth \/ UNCHANGED vars
  BY <1>3 DEF Answered, ChangePlan, ChangeAccess, NextMonth, vars
<1> QED BY <1>1, <1>2, <1>3, DebitsAnswered DEF Next

\* What the service sees of a step.
visible == <<peak, Spent, charged, calls, results>>

\* A debit is paid once, out of a month that has the credits.
LEMMA CommitMaps ==
  ASSUME IInv, NEW r \in Requests, Commits(r), UNCHANGED <<plan, records, calls>>
  PROVE  P!Next
<1> DEFINE m == request[r].month
<1>1. /\ m \in Months /\ usage \in [Months -> Rows] /\ usage[m] \in Rows
      /\ request[r].seen = usage[m] /\ request[r].limit \in Nat
      /\ request[r].limit <= peak /\ peak \in Nat
      /\ charged \in [Requests -> Nat] /\ charged[r] = 0
  BY DEF Commits, Overtaken, At, IInv, TypeOK, Locals, BudgetOK, CallsOK, CallOK, Unpaid
<1>2. Cost[r] \in Nat /\ MetricOf[r] \in Metrics
  BY Constants, AiCreditsAssumption
<1>3. charged' = [charged EXCEPT ![r] = Cost[r]]
  <2>1. charged' = [charged EXCEPT ![r] = charged[r] + Cost[r]]
    BY DEF Commits, Charge
  <2>2. charged[r] + Cost[r] = Cost[r]
    BY <1>1, <1>2
  <2> QED BY <2>1, <2>2
<1>4. Spent[m] + Cost[r] <= peak
  BY <1>1, <1>2, SharedType DEF Commits, Exceeds, Spent
<1>5. Spent' = [Spent EXCEPT ![m] = @ + Cost[r]]
  <2>1. usage'[m] = [usage[m] EXCEPT ![MetricOf[r]] = @ + Cost[r]]
        /\ \A k \in Months \ {m} : usage'[k] = usage[k]
    BY <1>1 DEF Commits, Charge
  <2>2. Shared(usage'[m]) = Shared(usage[m]) + Cost[r]
    BY <1>1, <1>2, <2>1 DEF Rows, Metrics, Shared
  <2> QED BY <1>1, <2>1, <2>2 DEF Spent
<1> QED BY <1>1, <1>3, <1>4, <1>5 DEF P!Next, P!Pay, plan, records

\* The provider is asked for what is paid, and before its answer is stored.
LEMMA CallMaps ==
  ASSUME IInv, NEW a \in Agents, NEW answer \in Answers, Call(a, answer)
  PROVE  P!Next
<1>1. /\ charged[a] = Cost[a] /\ a \notin results /\ calls[a] <= MostBefore(request[a])
      /\ request[a] \in Locals /\ request[a].step = "call" /\ calls[a] \in Nat
  BY RowsUnchanged DEF Call, At, RunOK, CallOK, Paid, IInv, TypeOK
<1>2. calls[a] < MostCalls
  BY <1>1, Loops, MostType, Constants DEF MostCalls
<1>3. calls' = [calls EXCEPT ![a] = @ + 1] /\ UNCHANGED <<peak, Spent, charged, results>>
  BY DEF Call, ledger, plan, records, Spent
<1>4. P!Use(a)
  BY <1>1, <1>2, <1>3 DEF P!Use
<1> QED BY <1>4 DEF P!Next

LEMMA StoreMaps ==
  ASSUME IInv, Answered, NEW a \in Agents, StoreResult(a)
  PROVE  P!Next
<1>1. calls[a] > 0 /\ a \notin results
  BY RowsUnchanged DEF StoreResult, At, RunOK, Answered
<1> QED BY <1>1 DEF P!Next, P!Keep, StoreResult, ledger, plan, Spent

\* A better plan grants more; a worse one takes nothing back.
LEMMA PlanMaps ==
  ASSUME IInv, NEW l \in Limits, ChangePlan(l)
  PROVE  [P!Next]_visible
<1>1. l \in Nat /\ peak \in Nat
  BY Constants DEF IInv, TypeOK
<1>2. CASE l > peak
  BY <1>1, <1>2 DEF P!Next, P!Grant, ChangePlan, ledger, records, Spent
<1>3. CASE ~(l > peak)
  BY <1>3 DEF ChangePlan, ledger, records, Spent, visible
<1> QED BY <1>2, <1>3

LEMMA StepMaps ==
  ASSUME IInv, Answered, [Next]_vars
  PROVE  [P!Next]_visible
<1> USE DEF ledger, plan, records, visible, Spent
<1>1. ASSUME NEW r \in Requests, Debits(r) PROVE [P!Next]_visible
  <2>1. CASE DebitWrite(r) \/ DebitLost(r)
    BY <2>1, CommitMaps DEF DebitWrite, DebitLost
  <2>2. CASE ~(DebitWrite(r) \/ DebitLost(r))
    BY <1>1, <2>2 DEF Debits, Check, Resolve, DebitRead, Exceeded, Conflict, GivesUp, Refresh,
       ReadFails, Breaks
  <2> QED BY <2>1, <2>2
<1>2. ASSUME NEW a \in Agents, Runs(a) PROVE [P!Next]_visible
  <2>1. CASE StoreResult(a) \/ \E answer \in Answers : Call(a, answer)
    BY <2>1, CallMaps, StoreMaps
  <2>2. CASE ~(StoreResult(a) \/ \E answer \in Answers : Call(a, answer))
    BY <1>2, <2>2 DEF Runs, Lookup, CheckBlind, RefreshBlind, Skip, Start, Unasked, Fails,
       StoreFailure, StoreCache, Recommend, Finish
  <2> QED BY <2>1, <2>2
<1>3. CASE \/ \E r \in Records : Record(r)
           \/ ChangeAccess \/ NextMonth \/ UNCHANGED vars
  BY <1>3 DEF Record, ChangeAccess, NextMonth, vars
<1> QED BY <1>1, <1>2, <1>3, PlanMaps DEF Next

(* Debits, runs and results are an execution of Prepaid: what a month       *)
(* spends is what its calls have paid, each once and within what was        *)
(* granted, and the provider works for those that have paid.                *)
THEOREM AiCreditsImplementPrepaid == Spec => PrepaidSpec
<1>1. Init => Answered
  BY Constants DEF Init, Answered, Fresh
<1>2. IInv /\ Answered /\ [Next]_vars => Answered'
  BY AnsweredStep
<1>3. Init => P!Init
  <2> SUFFICES ASSUME Init PROVE P!Init
    OBVIOUS
  <2>1. peak \in Nat
    BY Constants DEF Init
  <2>2. Shared(NoUsage) = 0
    BY DEF NoUsage, Metrics, Shared
  <2> QED BY <2>1, <2>2 DEF Init, P!Init, Spent
<1>4. IInv /\ Answered /\ [Next]_vars => [P!Next]_visible
  BY StepMaps
<1> QED BY <1>1, <1>2, <1>3, <1>4, AiCreditsInvariant, PTL DEF Spec, PrepaidSpec, P!Spec, visible
=============================================================================
