---------------------------- MODULE MCAiCredits ----------------------------
(* Small instances of AiCredits for TLC.                                   *)
EXTENDS AiCredits, TLC

CONSTANTS report   \* the one call that records a report

Metric == [r \in Requests |-> IF r = report THEN "reports_generated" ELSE "ai_requests"]

\* A report costs two credits.
Credits == [r \in Requests |-> IF r = report THEN 2 ELSE 1]

Symmetric == Permutations(Agents)

\* What the steps to come depend on: the locals of a call die with its debit
\* (a snapshot counts by what the commit asks of it), its retries and the number
\* of its calls of the provider with the last answer.
Live(r) ==
  LET l == request[r] IN
  CASE l.step = "debit" -> <<l.step, l.month, l.limit, l.attempt>>
    [] l.step = "write" -> <<l.step, l.month, l.limit, l.attempt, Overtaken(r), Exceeds(r)>>
    [] l.step = "call"  -> <<l.step, l.retryCount, l.validationRetries, l.attempts>>
    [] OTHER -> <<l.step>>

Asked == [a \in Agents |-> IF At(a, "call") \/ calls[a] = 0 THEN calls[a] ELSE 1]

View == <<ledger, plan, [r \in Requests |-> Live(r)], records, faults, Asked>>
=============================================================================
