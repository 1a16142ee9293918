----------------------------- MODULE Onboarding -----------------------------
(***************************************************************************)
(* The onboarding state machine of one store (store_onboarding), as        *)
(* app/services/onboarding.server.ts implements it, driven by the workers  *)
(* of app/services/worker.server.ts and by web requests.                   *)
(*                                                                         *)
(* The queue is reduced to what onboarding sees of it: a job waits, runs   *)
(* under an owner, and ends; module JobQueue has its locks and clocks.     *)
(* Transactions run at READ COMMITTED, and the first UPDATE of the row     *)
(* locks it until commit: every read before it is a step of its own, which *)
(* may grow stale, and what follows is one step, from the first UPDATE of  *)
(* the row to the commit.                                                  *)
(***************************************************************************)
EXTENDS Integers, FiniteSets

CONSTANTS
  Workers, Clients,  \* worker processes; web requests
  MaxAttempts,       \* ONBOARDING_JOB_MAX_ATTEMPTS
  Kinds,             \* the kinds of environment events that may happen
  MaxEvents,         \* bound: environment events
  MaxRuns,           \* bound: onboardingRunIds drawn
  NoWorker, NoJob, NoRow

Phases == 1 .. 3     \* PRODUCTS, INVENTORY, ORDERS
Jobs == Phases \X (0 .. MaxRuns)  \* by idempotency key; run 0 is the backfill's

WaitingOnce == {"queued"}  \* mutant: a job to be retried is not claimed again

Waiting == {"queued", "retrying"}
Terminal == {"completed", "cancelled", "dead_letter"}
JobStatus == {"none", "running"} \cup Waiting \cup Terminal

Open == {"queued", "running"}
Done == {"completed", "blocked"}
PhaseStatus == {"not_started", "failed"} \cup Open \cup Done

Rows == [status : {"not_started", "queued", "running", "completed", "failed"},
         phase : [Phases -> PhaseStatus],
         link : [Phases -> Jobs \cup {NoJob}],  \* productSyncJobId, ...
         current : Jobs \cup {NoJob},           \* currentJobId
         run : 1 .. MaxRuns,                    \* onboardingRunId
         pending : BOOLEAN]                     \* ownershipRepairPending

ASSUME OnboardingAssumption ==
  /\ Workers \cap Clients = {}
  /\ MaxAttempts \in Nat \ {0}
  /\ MaxEvents \in Nat
  /\ MaxRuns \in Nat /\ MaxRuns >= 5
  /\ NoWorker \notin Workers
  /\ NoJob \notin Jobs
  /\ NoRow \notin Rows

VARIABLES
  row,           \* the store's store_onboarding row
  job, owner,    \* SyncJob.status and lockedBy
  tries,         \* SyncJob.attempts
  drawn,         \* onboardingRunIds drawn so far
  pc,            \* what each worker or request is about to do
  held,          \* the job a worker executes
  seen,          \* the row as an actor read it
  found,         \* the job an advance found under the key it is about to link
  cancelling,    \* uninstalls under way: the jobs each has cancelled and locked
  overtaken,     \* history: whose job was cancelled, or whose phase was started
                 \* over, after it was found
  events

db == <<row, job, owner, tries, drawn>>
open == <<found, cancelling, overtaken>>
vars == <<db, pc, held, seen, open, events>>

Actors == Workers \cup Clients

Control == {"idle", "claimed", "starting", "working", "completing", "blocking",
            "failing", "failed", "repairing", "reconciling", "resuming",
            "advance", "advancing", "looking", "linking"}

-----------------------------------------------------------------------------
(* The updates of the row                                                  *)

MarkCompleted(r, p) ==
  [r EXCEPT !.phase[p] = "completed", !.current = NoJob]

MarkBlocked(r, p) == [r EXCEPT !.phase[p] = "blocked", !.current = NoJob]

MarkFailed(r, p) ==
  [r EXCEPT !.status = "failed", !.phase[p] = "failed", !.link[p] = NoJob,
            !.current = NoJob]

Relaunch(r, p, run) ==
  [r EXCEPT !.run = run, !.status = "running", !.phase[p] = "not_started",
            !.link[p] = NoJob, !.current = NoJob]

Link(r, p, j) ==
  [r EXCEPT !.status = "running", !.current = j, !.link[p] = j,
            !.phase[p] = "queued"]

-----------------------------------------------------------------------------
(* A transaction: the row it works from, the database as it will commit it *)
(* and whether it commits.                                                 *)

Txn(s, r, jobs, n) == [seen |-> s, row |-> r, job |-> jobs, drawn |-> n, ok |-> TRUE]
Begin(s) == Txn(s, row, job, drawn)

\* An UPDATE changes the row as it is now, and returns it.
Update(t, r) == [t EXCEPT !.row = r, !.seen = r]

\* repairTerminalPhaseJob
Repair(t, p) ==
  LET j == t.seen.link[p] IN
  IF t.seen.phase[p] \notin Open \/ j = NoJob THEN t
  ELSE CASE t.job[j] = "completed" -> Update(t, MarkCompleted(t.row, p))
         [] t.job[j] = "cancelled" ->
              [Update(t, Relaunch(t.row, p, t.drawn + 1)) EXCEPT !.drawn = @ + 1]
         [] t.job[j] = "dead_letter" -> Update(t, MarkFailed(t.row, p))
         [] OTHER -> t

\* mutant: only the phase itself is compared
MayLinkAlone(r, p) == r.phase[p] = "not_started"

\* buildPhaseLinkWhere
MayLink(r, p) ==
  /\ r.phase[p] = "not_started"
  /\ \A q \in Phases : q < p => r.phase[q] \in Done

\* mutant: the key of an ended job is used again
NeverEnded(t, p) == FALSE

\* A key whose job has ended is not used again: the phase gets a new run.
Ended(t, p) == t.job[<<p, t.seen.run>>] \in Terminal
RunFor(t, p) == IF Ended(t, p) THEN t.drawn + 1 ELSE t.seen.run

Enqueued(t, p) ==
  [t EXCEPT !.row = IF Ended(t, p) THEN [@ EXCEPT !.run = RunFor(t, p)] ELSE @,
            !.drawn = IF Ended(t, p) THEN RunFor(t, p) ELSE @,
            !.job[<<p, RunFor(t, p)>>] = IF @ = "none" THEN "queued" ELSE @]

\* enqueueAndLinkPhaseJob: the link is written only where the phase waits for it.
EnqueueAndLink(t, p) ==
  LET j == <<p, RunFor(t, p)>>
      u == Enqueued(t, p)
  IN  IF MayLink(t.row, p) THEN [u EXCEPT !.row = Link(u.row, p, j)]
      ELSE [u EXCEPT !.ok = (t.row.link[p] = j \/ t.row.current = j)]

\* selectPhaseToEnqueue
Ready(r, p) ==
  r.phase[p] = "not_started" /\ (p > 1 => r.phase[p - 1] \in Done)

NextPhase(r) ==
  CHOOSE p \in Phases : Ready(r, p) /\ \A q \in Phases : Ready(r, q) => p <= q

Enqueues(r) ==
  /\ r.status \notin {"failed", "completed"}
  /\ \E p \in Phases : Ready(r, p)

\* repairTerminalPhaseJobs
Repaired(t) == Repair(Repair(Repair(t, 1), 2), 3)

\* mutant: the onboarding completes when nothing is left to enqueue
AdvanceEager(t0) ==
  LET t == Repaired(t0)
      waiting == {p \in Phases : t.seen.phase[p] = "not_started"}
  IN
  IF t.seen.status \in {"failed", "completed"} THEN t
  ELSE IF waiting = {}
    THEN Update(t, [t.row EXCEPT !.status = "completed", !.current = NoJob])
  ELSE IF \E p \in waiting : Ready(t.seen, p)
    THEN EnqueueAndLink(t, CHOOSE p \in waiting : Ready(t.seen, p))
  ELSE t

\* executeAdvanceOnboarding
Advance(t0) ==
  LET t == Repaired(t0)
      r == t.seen
  IN
  IF r.status \in {"failed", "completed"} THEN t
  ELSE IF \A p \in Phases : r.phase[p] \in Done
    THEN Update(t, [t.row EXCEPT !.status = "completed", !.current = NoJob])
  ELSE IF Enqueues(r) THEN EnqueueAndLink(t, NextPhase(r))
  ELSE t

\* Bound: a transaction draws at most a run per phase it repairs and one more.
RunsLeft == drawn + 4 <= MaxRuns

PhaseOf(j) == j[1]

\* What an advance found is overtaken: the job is cancelled or its phase reset.
Overtake ==
  overtaken' = overtaken \cup
    {a \in Actors :
       pc[a] = "linking" /\ \E j \in found[a] :
         \/ job'[j] = "cancelled"
         \/ row.phase[PhaseOf(j)] # "not_started" /\ row'.phase[PhaseOf(j)] = "not_started"}

Commit(t) ==
  /\ row' = t.row
  /\ job' = t.job
  /\ drawn' = t.drawn

Goto(a, where) == pc' = [pc EXCEPT ![a] = where]
Read(a) == seen' = [seen EXCEPT ![a] = row]
Forget(a) == seen' = [seen EXCEPT ![a] = NoRow]
SetJob(j, s) == job' = [job EXCEPT ![j] = s]

-----------------------------------------------------------------------------
(* advanceOnboarding                                                       *)

AdvanceRead(a) ==
  /\ pc[a] = "advance"
  /\ Read(a)
  /\ Goto(a, "advancing")
  /\ UNCHANGED <<db, held, open, events>>

\* repairTerminalPhaseJob reads the linked jobs: one of an open phase has ended.
Repairs(r) ==
  \E p \in Phases : r.phase[p] \in Open /\ r.link[p] # NoJob /\ job[r.link[p]] \in Terminal

\* Without a repair nothing is locked yet when a phase is found ready.
AdvanceCheck(a) ==
  /\ pc[a] = "advancing"
  /\ ~Repairs(seen[a]) /\ Enqueues(seen[a])
  /\ Goto(a, "looking")
  /\ UNCHANGED <<db, held, seen, open, events>>

\* The row is locked from the first repair, or has nothing left to enqueue.
AdvanceWrite(a) ==
  /\ pc[a] = "advancing" /\ RunsLeft
  /\ Enqueues(seen[a]) => Repairs(seen[a])
  /\ \E t \in {Advance(Begin(seen[a]))} :
       IF t.ok THEN Commit(t) ELSE UNCHANGED <<row, job, drawn>>
  /\ Overtake
  /\ Forget(a)
  /\ Goto(a, "idle")
  /\ UNCHANGED <<owner, tries, held, found, cancelling, events>>

\* enqueueJobWithClient finds the job of the key, or none ...
AdvanceFind(a) ==
  LET j == <<NextPhase(seen[a]), seen[a].run>> IN
  /\ pc[a] = "looking"
  /\ ~Ended(Begin(seen[a]), NextPhase(seen[a]))
  /\ found' = [found EXCEPT ![a] = IF job[j] = "none" THEN {} ELSE {j}]
  /\ Goto(a, "linking")
  /\ UNCHANGED <<db, held, seen, cancelling, overtaken, events>>

\* ... or one that has ended: the new run is written, which locks the row.
AdvanceRenew(a) ==
  LET p == NextPhase(seen[a]) IN
  /\ pc[a] = "looking" /\ RunsLeft
  /\ Ended(Begin(seen[a]), p)
  /\ \E t \in {EnqueueAndLink(Begin(seen[a]), p)} :
       IF t.ok THEN Commit(t) ELSE UNCHANGED <<row, job, drawn>>
  /\ Overtake
  /\ Forget(a)
  /\ Goto(a, "idle")
  /\ UNCHANGED <<owner, tries, held, found, cancelling, events>>

\* The job is created unless it was found, and linked, ended or not.  A job that
\* another transaction created meanwhile violates the key and aborts this one; so
\* does a phase gate that changed.
AdvanceLink(a) ==
  LET p == NextPhase(seen[a])
      j == <<p, seen[a].run>>
      clash == found[a] = {} /\ job[j] # "none"
      shut == ~MayLink(row, p) /\ row.link[p] # j /\ row.current # j
  IN
  /\ pc[a] = "linking"
  /\ IF clash \/ shut
       THEN UNCHANGED <<row, job>>
       ELSE /\ row' = IF MayLink(row, p) THEN Link(row, p, j) ELSE row
            /\ job' = [job EXCEPT ![j] = IF found[a] = {} THEN "queued" ELSE @]
  /\ Forget(a)
  /\ Goto(a, "idle")
  /\ found' = [found EXCEPT ![a] = {}]
  /\ overtaken' = overtaken \ {a}
  /\ UNCHANGED <<owner, tries, drawn, held, cancelling, events>>

-----------------------------------------------------------------------------
(* Workers: one claimed job                                                *)

Event(k) == k \in Kinds /\ events < MaxEvents /\ events' = events + 1

Owns(w) == owner[held[w]] = w

\* An UPDATE of a job waits for an uninstall that has locked it.
Free(j) == \A S \in cancelling : j \notin S

Claim(w) ==
  /\ pc[w] = "idle"
  /\ \E j \in Jobs :
       /\ job[j] \in Waiting /\ Free(j)
       /\ SetJob(j, "running")
       /\ owner' = [owner EXCEPT ![j] = w]
       /\ tries' = [tries EXCEPT ![j] = @ + 1]
       /\ held' = [held EXCEPT ![w] = j]
  /\ Goto(w, "claimed")
  /\ UNCHANGED <<row, drawn, seen, open, events>>

Leave(w) == Goto(w, "idle") /\ held' = [held EXCEPT ![w] = NoJob]

\* beginJobExecution, then markPhaseStarted reads the row: without a current
\* job it throws OnboardingPhaseStartError.
StartRead(w) ==
  /\ pc[w] = "claimed"
  /\ Owns(w) /\ Free(held[w])
  /\ IF row.current = NoJob
       THEN Goto(w, "failing") /\ UNCHANGED seen
       ELSE Goto(w, "starting") /\ Read(w)
  /\ UNCHANGED <<db, held, open, events>>

\* It writes back the current job it read, whichever that is.
StartWrite(w) ==
  /\ pc[w] = "starting"
  /\ row' = [row EXCEPT !.status = "running", !.current = seen[w].current,
                        !.phase[PhaseOf(held[w])] = "running"]
  /\ Forget(w)
  /\ Goto(w, "working")
  /\ UNCHANGED <<job, owner, tries, drawn, held, open, events>>

\* The handler returned: finalizeSuccessfulJobPhase or, when Shopify or the
\* plan refuses products or orders, finalizeBlockedJobPhase checks the owner ...
FinalizeRead(w) ==
  /\ pc[w] = "working"
  /\ Owns(w)
  /\ \/ Goto(w, "completing")
     \/ PhaseOf(held[w]) # 2 /\ Goto(w, "blocking")
  /\ UNCHANGED <<db, held, seen, open, events>>

Finalized(w) ==
  LET p == PhaseOf(held[w])
      r == IF pc[w] = "completing" THEN MarkCompleted(row, p)
                                   ELSE MarkBlocked(row, p)
  IN  Advance(Txn(r, r, [job EXCEPT ![held[w]] = "completed"], drawn))

\* ... and completes the job, marks the phase and advances, in one transaction.
FinalizeWrite(w) ==
  LET t == Finalized(w) IN
  /\ pc[w] \in {"completing", "blocking"} /\ RunsLeft /\ Free(held[w])
  /\ IF t.ok
       THEN /\ Commit(t)
            /\ owner' = [owner EXCEPT ![held[w]] = NoWorker]
            /\ \/ Leave(w) /\ UNCHANGED events
               \* withJobHeartbeat throws a failure it recorded on the way
               \/ Event("beat") /\ Goto(w, "failing") /\ UNCHANGED held
       ELSE Goto(w, "failing") /\ UNCHANGED <<row, job, drawn, owner, held, events>>
  /\ Overtake
  /\ UNCHANGED <<tries, seen, found, cancelling>>

HandlerThrows(w) ==
  /\ pc[w] = "working"
  /\ Event("throw")
  /\ Goto(w, "failing")
  /\ UNCHANGED <<db, held, seen, open>>

\* finalizeFailedOnboardingJob checks the owner ...
FailRead(w) ==
  /\ pc[w] = "failing"
  /\ Owns(w)
  /\ Goto(w, "failed")
  /\ UNCHANGED <<db, held, seen, open, events>>

\* ... and schedules a retry, or dead-letters the job and fails the phase.
FailWrite(w) ==
  /\ pc[w] = "failed" /\ Free(held[w])
  /\ IF tries[held[w]] < MaxAttempts
       THEN SetJob(held[w], "retrying") /\ UNCHANGED row
       ELSE /\ SetJob(held[w], "dead_letter")
            /\ row' = MarkFailed(row, PhaseOf(held[w]))
  /\ owner' = [owner EXCEPT ![held[w]] = NoWorker]
  /\ Leave(w)
  /\ UNCHANGED <<tries, drawn, seen, open, events>>

\* JobWorkerOwnershipError: markOnboardingOwnershipRepairCandidate.
OwnershipConflict(w) ==
  /\ pc[w] \in {"claimed", "working", "failing"}
  /\ ~Owns(w)
  /\ row' = [row EXCEPT !.pending = TRUE, !.current = NoJob]
  /\ Leave(w)
  /\ UNCHANGED <<job, owner, tries, drawn, seen, open, events>>

-----------------------------------------------------------------------------
(* Workers: prepareWorkerQueue                                             *)

\* mutant: jobs are released before their locks expire
ReleaseEarly(j) ==
  /\ job[j] = "running"
  /\ SetJob(j, "retrying")
  /\ owner' = [owner EXCEPT ![j] = NoWorker]
  /\ UNCHANGED <<row, tries, drawn, pc, held, seen, open, events>>

\* releaseStaleJobs: the lock of a job expired, its owner being gone or late.
Release(j) ==
  /\ job[j] = "running" /\ Free(j)
  /\ IF owner[j] = NoWorker THEN UNCHANGED events ELSE Event("lost")
  /\ SetJob(j, "retrying")
  /\ owner' = [owner EXCEPT ![j] = NoWorker]
  /\ UNCHANGED <<row, tries, drawn, pc, held, seen, open>>

RepairRead(w) ==
  /\ pc[w] = "idle"
  /\ row.pending
  /\ Read(w)
  /\ Goto(w, "repairing")
  /\ UNCHANGED <<db, held, open, events>>

\* repairOwnershipConflictOnboarding writes back what it read of the phases.
RepairWrite(w) ==
  LET s == seen[w] IN
  /\ pc[w] = "repairing"
  /\ row' = [row EXCEPT !.pending = FALSE, !.current = NoJob,
               !.link = [p \in Phases |-> NoJob],
               !.phase = [p \in Phases |-> IF s.phase[p] = "running"
                                             THEN "not_started" ELSE s.phase[p]],
               !.status = IF s.status = "running" THEN "queued" ELSE s.status]
  /\ Forget(w)
  /\ Goto(w, "advance")
  /\ UNCHANGED <<job, owner, tries, drawn, held, found, cancelling, events>>
  /\ Overtake

\* The phase of the current job is open although the job has ended.
Mismatch(r) ==
  /\ r.status \notin {"completed", "failed"}
  /\ r.current # NoJob
  /\ r.phase[PhaseOf(r.current)] \in Open
  /\ job[r.current] \in Terminal

\* reconcileOnboardingWithCompletedJobs finds the mismatch ...
ReconcileRead(w) ==
  /\ pc[w] = "idle"
  /\ Mismatch(row)
  /\ Read(w)
  /\ Goto(w, "reconciling")
  /\ UNCHANGED <<db, held, open, events>>

\* ... and marks the phase of the job it found, whatever the row is by now.
ReconcileWrite(w) ==
  LET j == seen[w].current IN
  /\ pc[w] = "reconciling"
  /\ \/ /\ job[j] = "completed"
        /\ row' = MarkCompleted(row, PhaseOf(j))
        /\ Goto(w, "advance")
     \/ /\ job[j] # "completed"
        /\ row' = MarkFailed(row, PhaseOf(j))
        /\ Goto(w, "idle")
  /\ Forget(w)
  /\ UNCHANGED <<job, owner, tries, drawn, held, open, events>>

\* The process dies: its job stays running under nobody.
Crash(w) ==
  /\ pc[w] # "idle"
  /\ Event("crash")
  /\ owner' = [j \in Jobs |-> IF owner[j] = w THEN NoWorker ELSE owner[j]]
  /\ Forget(w)
  /\ Leave(w)
  /\ found' = [found EXCEPT ![w] = {}]
  /\ overtaken' = overtaken \ {w}
  /\ UNCHANGED <<row, job, tries, drawn, cancelling>>

-----------------------------------------------------------------------------
(* Requests and webhooks                                                   *)

\* runPostAuthBootstrap advances the onboarding at every authentication.
Authenticate(c) ==
  /\ pc[c] = "idle"
  /\ Event("auth")
  /\ Goto(c, "advance")
  /\ UNCHANGED <<db, held, seen, open>>

\* ensureStoreBackfillAfterReinstall: stale data of a completed onboarding.
Backfill(p) ==
  /\ Event("backfill")
  /\ row.status = "completed"
  /\ job[<<p, 0>>] = "none"
  /\ SetJob(<<p, 0>>, "queued")
  /\ UNCHANGED <<row, owner, tries, drawn, pc, held, seen, open>>

\* An order webhook meets a permanent access failure: markPhaseBlocked.
BlockOrders(c) ==
  /\ pc[c] = "idle"
  /\ Event("block")
  /\ row' = MarkBlocked(row, 3)
  /\ Goto(c, "advance")
  /\ UNCHANGED <<job, owner, tries, drawn, held, seen, open>>

\* retry-shopify-sync: resumeOnboarding reads the row, perhaps beside other
\* requests, perhaps (a premise of some runs) only when no other one is under way ...
ResumeRead(c) ==
  /\ pc[c] = "idle"
  /\ \/ Event("resume")
     \/ Event("quiet resume") /\ \A d \in Clients : pc[d] = "idle"
  /\ Read(c)
  /\ Goto(c, "resuming")
  /\ UNCHANGED <<db, held, open>>

\* retryOnboardingPhase
Retry(p) ==
  LET r == Relaunch(row, p, drawn + 1)
  IN  EnqueueAndLink(Txn(r, r, job, drawn + 1), p)

FailedPhases(r) == {p \in Phases : r.phase[p] = "failed"}

\* ... and retries its first failed phase, or just advances.
ResumeWrite(c) ==
  LET s == seen[c]
      failed == FailedPhases(s)
      t == Retry(CHOOSE p \in failed : \A q \in failed : p <= q)
  IN
  /\ pc[c] = "resuming" /\ RunsLeft
  /\ \/ /\ s.status = "failed" /\ failed # {} /\ t.ok
        /\ Commit(t)
        /\ Goto(c, "advance")
     \/ /\ s.status = "failed" /\ failed # {} /\ ~t.ok
        /\ Goto(c, "idle")
        /\ UNCHANGED <<row, job, drawn>>
     \/ /\ s.status = "failed" /\ failed = {}
        /\ row' = [row EXCEPT !.status = "not_started"]
        /\ Goto(c, "advance")
        /\ UNCHANGED <<job, drawn>>
     \/ /\ s.status # "failed"
        /\ Goto(c, "advance")
        /\ UNCHANGED <<row, job, drawn>>
  /\ Forget(c)
  /\ Overtake
  /\ UNCHANGED <<owner, tries, held, found, cancelling, events>>

Fresh(r) ==
  [r EXCEPT !.status = "not_started", !.phase = [p \in Phases |-> "not_started"],
            !.link = [p \in Phases |-> NoJob], !.current = NoJob,
            !.pending = FALSE]

\* cancelStoreJobsOnUninstall cancels the jobs there are, one uninstall at a time ...
UninstallCancel ==
  /\ Event("uninstall")
  /\ cancelling = {}
  /\ cancelling' = {{j \in Jobs : job[j] \in Waiting \cup {"running"}}}
  /\ UNCHANGED <<db, pc, held, seen, found, overtaken>>

\* ... and starts the row over, in one transaction: a job created in between is
\* spared.
UninstallReset(S) ==
  /\ job' = [j \in Jobs |-> IF j \in S THEN "cancelled" ELSE job[j]]
  /\ owner' = [j \in Jobs |-> IF j \in S THEN NoWorker ELSE owner[j]]
  /\ row' = Fresh(row)
  /\ cancelling' = cancelling \ {S}
  /\ Overtake
  /\ UNCHANGED <<tries, drawn, pc, held, seen, found, events>>

-----------------------------------------------------------------------------
\* ensureStoreOnboarding has created the row.
Init ==
  /\ row = [status |-> "not_started", phase |-> [p \in Phases |-> "not_started"],
            link |-> [p \in Phases |-> NoJob], current |-> NoJob, run |-> 1,
            pending |-> FALSE]
  /\ job = [j \in Jobs |-> "none"]
  /\ owner = [j \in Jobs |-> NoWorker]
  /\ tries = [j \in Jobs |-> 0]
  /\ drawn = 1
  /\ pc = [a \in Actors |-> IF a \in Clients THEN "advance" ELSE "idle"]
  /\ held = [w \in Workers |-> NoJob]
  /\ seen = [a \in Actors |-> NoRow]
  /\ found = [a \in Actors |-> {}]
  /\ cancelling = {}
  /\ overtaken = {}
  /\ events = 0

ExecuteJob(w) ==
  \/ Claim(w) \/ StartRead(w) \/ StartWrite(w) \/ FinalizeRead(w)
  \/ FinalizeWrite(w) \/ HandlerThrows(w) \/ FailRead(w) \/ FailWrite(w)
  \/ OwnershipConflict(w)

Prepare(w) ==
  \/ RepairRead(w) \/ RepairWrite(w) \/ ReconcileRead(w) \/ ReconcileWrite(w)

Request(c) ==
  \/ Authenticate(c) \/ BlockOrders(c) \/ ResumeRead(c) \/ ResumeWrite(c)

AdvanceOnboarding(a) ==
  \/ AdvanceRead(a) \/ AdvanceCheck(a) \/ AdvanceWrite(a)
  \/ AdvanceFind(a) \/ AdvanceRenew(a) \/ AdvanceLink(a)

Next ==
  \/ \E a \in Actors : AdvanceOnboarding(a)
  \/ \E w \in Workers : ExecuteJob(w) \/ Prepare(w) \/ Crash(w)
  \/ \E j \in Jobs : Release(j)
  \/ \E p \in Phases : Backfill(p)
  \/ \E c \in Clients : Request(c)
  \/ UninstallCancel
  \/ \E S \in cancelling : UninstallReset(S)

Spec == Init /\ [][Next]_vars

\* A live worker's loop goes on, and its handlers return; some worker keeps
\* sweeping; a request that began ends.
Fairness ==
  /\ \A w \in Workers :
       WF_vars(ExecuteJob(w) \/ Prepare(w) \/ AdvanceOnboarding(w))
  /\ WF_vars(\E j \in Jobs : Release(j))
  /\ \A c \in Clients : WF_vars(AdvanceOnboarding(c) \/ ResumeWrite(c))

FairSpec == Spec /\ Fairness

-----------------------------------------------------------------------------
(* Properties                                                              *)

\* The type of the state.
TypeOK ==
  /\ row \in Rows
  /\ job \in [Jobs -> JobStatus]
  /\ owner \in [Jobs -> Workers \cup {NoWorker}]
  /\ tries \in [Jobs -> Nat]
  /\ drawn \in 1 .. MaxRuns
  /\ pc \in [Actors -> Control]
  /\ held \in [Workers -> Jobs \cup {NoJob}]
  /\ seen \in [Actors -> Rows \cup {NoRow}]
  /\ found \in [Actors -> SUBSET Jobs]
  /\ cancelling \subseteq SUBSET Jobs
  /\ overtaken \subseteq Actors
  /\ events \in 0 .. MaxEvents

Live == Waiting \cup {"running"}

\* A phase is linked to a job that has ended only by an advance that found it live
\* and was overtaken before its UPDATE: the job was cancelled by an uninstall, or
\* the phase was started over.  Otherwise nothing would ever sync the phase.
LinkedJobIsLive ==
  [][\A p \in Phases :
       row'.link[p] \notin {row.link[p], NoJob} =>
         \/ job'[row'.link[p]] \in Live
         \/ \E a \in overtaken : pc[a] = "linking" /\ pc'[a] = "idle"]_vars

\* However stale the row an advance or a retry works from, it queues a phase
\* only when every earlier phase is done.
QueuedInOrder ==
  [][\A p, q \in Phases :
       row'.link[p] \notin {row.link[p], NoJob} /\ q < p => row'.phase[q] \in Done]_vars

\* f34-onboarding-state-machine.test.ts:116, for any interleaving of finalizers,
\* authentications and crashes: advancing again never creates a second job beside
\* one that is still live.  Holds while no job is lost and no resume begins beside
\* another request (onboarding.server.ts:1174).
OneLiveJob == \A j, k \in Jobs : job[j] \in Live /\ job[k] \in Live => j = k

\* An onboarding fails only where a sync handler has failed.
FailsOnlyOnHandlerError == "throw" \in Kinds \/ row.status # "failed"

\* The store does not stay half synced: whatever crashes, its onboarding ends.
Settles == (row.status \in {"queued", "running"})
             ~> (row.status \in {"completed", "failed"})

\* The phases as a pipeline: those done are counted, and it ends once.
Prefix == {n \in 0 .. 3 : \A p \in 1 .. n : row.phase[p] \in Done}
P == INSTANCE Pipeline WITH
       Length <- 3,
       done <- CHOOSE n \in Prefix : \A m \in Prefix : m <= n,
       outcome <- IF row.status \in {"completed", "failed"} THEN row.status
                                                           ELSE "open"

\* The transactions, crashes and retries of the onboarding implement the
\* pipeline: no phase is undone or skipped, and a completed onboarding stays so.
PipelineSpec == P!Spec
=============================================================================
