------------------------------ MODULE JobQueue ------------------------------
(***************************************************************************)
(* The Postgres-backed job queue of StorePilot (sync_jobs), as             *)
(* app/services/job.server.ts implements it and as the workers of          *)
(* app/services/worker.server.ts drive it.                                 *)
(*                                                                         *)
(* Prisma runs `$transaction` at READ COMMITTED, so every operation of the *)
(* form "findUnique; check; update where id" is two steps here: a Read     *)
(* that checks the committed row and opens the transaction, and a Write    *)
(* that overwrites whatever the row has become.  Single statements (the    *)
(* SKIP LOCKED claim, updateMany) are one step.                            *)
(*                                                                         *)
(* One tick of the clock is one default lock duration; timestamps are kept *)
(* as the ticks elapsed since, or left until, the instant they name.       *)
(***************************************************************************)
EXTENDS Integers, FiniteSets

CONSTANTS
  Jobs,            \* rows of sync_jobs, one per idempotency key
  Stores,
  Workers,         \* worker identities: every process start draws a fresh one
  Sweepers,        \* concurrent callers of releaseStaleJobs
  Operators,       \* callers of requeueDeadLetterJob and cancelJob
  StoreOf,         \* the store each job belongs to
  Priority,        \* 1 = critical .. 4 = low
  MaxAttempts,     \* SyncJob.maxAttempts
  Bootstrap,       \* onboarding jobs, whose finalizer passes its generation
  LockDuration,    \* resolveLockDurationMs(), in ticks
  HeartbeatLock,   \* DEFAULT_LOCK_DURATION_MS, in ticks
  BaseDelay, MaxDelay, MaxJitter,  \* retry backoff, in ticks
  MaxSweep,        \* bound: ticks one sweep may span
  MaxFaults,       \* bound: crashes, stalls and failed database calls
  MaxInterventions,  \* bound: app/uninstalled webhooks and operators' actions
  MaxClaims,       \* bound: claims of one job
  NoWorker, NoJob  \* null

StaleAfter == 2 * LockDuration   \* STALE_HEARTBEAT_GRACE_MULTIPLIER * lock

ASSUME QueueAssumption ==
  /\ IsFiniteSet(Jobs)
  /\ StoreOf \in [Jobs -> Stores]
  /\ Priority \in [Jobs -> 1 .. 4]
  /\ MaxAttempts \in [Jobs -> Nat \ {0}]
  /\ Bootstrap \subseteq Jobs
  /\ LockDuration \in Nat \ {0} /\ HeartbeatLock \in Nat \ {0}
  /\ BaseDelay \in Nat /\ MaxDelay \in Nat /\ MaxJitter \in Nat
  /\ MaxSweep \in Nat /\ MaxFaults \in Nat
  /\ MaxInterventions \in Nat /\ MaxClaims \in Nat
  /\ NoWorker \notin Workers
  /\ NoJob \notin Jobs

VARIABLES
  \* the sync_jobs rows
  status, attempts, gen,   \* SyncJob.status, attempts, workerGeneration
  lockedBy,
  leased,     \* lockExpiresAt and heartbeatAt are not null
  lockLeft,   \* ticks until lockExpiresAt
  beatAge,    \* ticks since heartbeatAt
  delay,      \* ticks until availableAt
  created,    \* creation order; 0 while there is no row
  \* the worker processes
  pc, held, token,         \* control state, claimed job, claimed generation
  tx,                      \* the transaction its main flow has open
  beatTx,                  \* the job whose heartbeat transaction it has open
  beatDue, beatFailed,     \* the interval elapsed; heartbeatFailure is set
  retryIn,                 \* the delay failJob decided on, or NoRetry
  stalled,                 \* suspended, or cut off from the database
  \* the callers of releaseStaleJobs
  list, lag, releasing,    \* jobs left, age of its `now`, job in transaction
  \* operators
  requeuing,               \* job that requeueDeadLetterJob found dead-lettered
  faults, uninstalls, manual

rowVars == <<status, attempts, gen, lockedBy, leased, lockLeft, beatAge,
             delay, created>>
workerVars == <<pc, held, token, tx, beatTx, beatDue, beatFailed, retryIn,
                stalled>>
sweepVars == <<list, lag, releasing>>
budgets == <<faults, uninstalls, manual>>
vars == <<rowVars, workerVars, sweepVars, requeuing, budgets>>

Active == {"claimed", "running"}
Waiting == {"queued", "retrying"}
Terminal == {"completed", "cancelled", "dead_letter"}
Status == {"none"} \cup Waiting \cup Active \cup Terminal

Control == {"idle", "claimed", "begun", "working", "failing", "gone"}

BeatCap == StaleAfter + MaxSweep
LockFloor == -(1 + MaxSweep)

NoRetry == -1

RetryDelay(n) == LET d == BaseDelay * 2 ^ (n - 1)
                 IN  IF d \in 0 .. MaxDelay THEN d ELSE MaxDelay

-----------------------------------------------------------------------------
(* Row updates shared by the operations                                    *)

RefreshLock(j, lock) ==
  /\ leased' = [leased EXCEPT ![j] = TRUE]
  /\ lockLeft' = [lockLeft EXCEPT ![j] = lock]
  /\ beatAge' = [beatAge EXCEPT ![j] = 0]

ClearLockKeepingOwner(J) ==   \* mutant
  /\ leased' = [j \in Jobs |-> j \notin J /\ leased[j]]
  /\ UNCHANGED <<lockedBy, lockLeft, beatAge>>

ClearLock(J) ==
  /\ lockedBy' = [j \in Jobs |-> IF j \in J THEN NoWorker ELSE lockedBy[j]]
  /\ leased' = [j \in Jobs |-> j \notin J /\ leased[j]]
  /\ lockLeft' = [j \in Jobs |-> IF j \in J THEN 0 ELSE lockLeft[j]]
  /\ beatAge' = [j \in Jobs |-> IF j \in J THEN 0 ELSE beatAge[j]]

Owns(w) == lockedBy[held[w]] = w                     \* assertWorkerOwnership
OwnsToken(w) == Owns(w) /\ gen[held[w]] = token[w]

TxOpenOn(j) ==
  \/ \E w \in Workers : beatTx[w] = j \/ (tx[w] # "none" /\ held[w] = j)
  \/ \E s \in Sweepers : releasing[s] = j

NoTxOpen ==
  /\ \A w \in Workers : tx[w] = "none" /\ beatTx[w] = NoJob
  /\ \A s \in Sweepers : releasing[s] = NoJob

-----------------------------------------------------------------------------
(* Producers                                                               *)

\* enqueueJob: a second call with the key of an existing row changes nothing.
Enqueue(j) ==
  /\ status[j] = "none"
  /\ status' = [status EXCEPT ![j] = "queued"]
  /\ created' = [created EXCEPT ![j] =
                   1 + Cardinality({k \in Jobs : status[k] # "none"})]
  /\ UNCHANGED <<attempts, gen, lockedBy, leased, lockLeft, beatAge, delay,
                 workerVars, sweepVars, requeuing, budgets>>

-----------------------------------------------------------------------------
(* Workers                                                                 *)

ClaimableWhenExpired(j) ==   \* mutant: the claim also takes expired locks
  /\ status[j] \in Waiting \/ (leased[j] /\ lockLeft[j] < 0)
  /\ delay[j] = 0 /\ attempts[j] < MaxClaims

Claimable(j) ==
  status[j] \in Waiting /\ delay[j] = 0 /\ attempts[j] < MaxClaims

Before(j, k) == \/ Priority[j] < Priority[k]
                \/ Priority[j] = Priority[k] /\ created[j] < created[k]

NextGeneration(j) == gen[j] + 1

\* claimNextJob.  SKIP LOCKED passes over a row another transaction may hold.
Claim(w) ==
  /\ pc[w] = "idle"
  /\ \E j \in Jobs :
       /\ Claimable(j)
       /\ \A k \in Jobs : Claimable(k) /\ Before(k, j) => TxOpenOn(k)
       /\ status' = [status EXCEPT ![j] = "claimed"]
       /\ attempts' = [attempts EXCEPT ![j] = @ + 1]
       /\ gen' = [gen EXCEPT ![j] = NextGeneration(j)]
       /\ lockedBy' = [lockedBy EXCEPT ![j] = w]
       /\ RefreshLock(j, LockDuration)
       /\ held' = [held EXCEPT ![w] = j]
       /\ token' = [token EXCEPT ![w] = NextGeneration(j)]
  /\ pc' = [pc EXCEPT ![w] = "claimed"]
  /\ UNCHANGED <<delay, created, tx, beatTx, beatDue, beatFailed, retryIn,
                 stalled, sweepVars, requeuing, budgets>>

\* The worker ends its execution and forgets the job.
Leave(w) ==
  /\ pc' = [pc EXCEPT ![w] = "idle"]
  /\ held' = [held EXCEPT ![w] = NoJob]
  /\ token' = [token EXCEPT ![w] = 0]
  /\ beatDue' = [beatDue EXCEPT ![w] = FALSE]
  /\ beatFailed' = [beatFailed EXCEPT ![w] = FALSE]
  /\ stalled' = [stalled EXCEPT ![w] = FALSE]

\* clearInterval, and the error goes to handleJobFailure.
Throw(w) ==
  /\ pc' = [pc EXCEPT ![w] = "failing"]
  /\ beatDue' = [beatDue EXCEPT ![w] = FALSE]
  /\ UNCHANGED <<held, token, beatFailed, stalled>>

OpenTx(w, op) ==
  /\ tx[w] = "none"
  /\ tx' = [tx EXCEPT ![w] = op]
  /\ UNCHANGED <<rowVars, pc, held, token, beatTx, beatDue, beatFailed,
                 stalled, sweepVars, requeuing, budgets>>

CommitTx(w, op) ==
  /\ tx[w] = op
  /\ tx' = [tx EXCEPT ![w] = "none"]
  /\ UNCHANGED <<gen, attempts, created, beatTx, retryIn, sweepVars,
                 requeuing, budgets>>

\* beginJobExecution: owner, generation and status are checked ...
MayBegin(w) == OwnsToken(w) /\ status[held[w]] \in Active

BeginRead(w) ==
  /\ pc[w] = "claimed"
  /\ MayBegin(w)
  /\ OpenTx(w, "begin")
  /\ UNCHANGED retryIn

BeginNoLock(j) == UNCHANGED <<leased, lockLeft, beatAge>>   \* mutant
BeginLock(j) == RefreshLock(j, LockDuration)

\* ... and the row is written by id.
BeginWrite(w) ==
  /\ CommitTx(w, "begin")
  /\ status' = [status EXCEPT ![held[w]] = "running"]
  /\ BeginLock(held[w])
  /\ pc' = [pc EXCEPT ![w] = "begun"]
  /\ UNCHANGED <<lockedBy, delay, held, token, beatDue, beatFailed, stalled>>

\* withJobHeartbeat extends the lock once before the handler starts.
ExtendRead(w) ==
  /\ pc[w] = "begun"
  /\ Owns(w)
  /\ OpenTx(w, "extend")
  /\ UNCHANGED retryIn

ExtendWrite(w) ==
  /\ CommitTx(w, "extend")
  /\ RefreshLock(held[w], HeartbeatLock)
  /\ pc' = [pc EXCEPT ![w] = "working"]
  /\ UNCHANGED <<status, lockedBy, delay, held, token, beatDue, beatFailed,
                 stalled>>

BeatNoLock(j) == UNCHANGED <<leased, lockLeft, beatAge>>   \* mutant
BeatLock(j) == RefreshLock(j, HeartbeatLock)

LossSwallowed(w) == UNCHANGED beatFailed   \* mutant
LossRecorded(w) == beatFailed' = [beatFailed EXCEPT ![w] = TRUE]

\* The interval timer calls extendJobLock beside the running handler.
BeatRead(w) ==
  /\ pc[w] = "working"
  /\ beatDue[w]
  /\ beatDue' = [beatDue EXCEPT ![w] = FALSE]
  /\ IF Owns(w)
       THEN /\ beatTx' = [beatTx EXCEPT ![w] = held[w]]
            /\ UNCHANGED beatFailed
       ELSE LossRecorded(w) /\ UNCHANGED beatTx
  /\ UNCHANGED <<rowVars, pc, held, token, tx, retryIn, stalled, sweepVars,
                 requeuing, budgets>>

\* The write may land after the worker has left the job.
BeatWrite(w) ==
  /\ beatTx[w] # NoJob
  /\ BeatLock(beatTx[w])
  /\ beatTx' = [beatTx EXCEPT ![w] = NoJob]
  /\ UNCHANGED <<status, attempts, gen, lockedBy, delay, created, pc, held,
                 token, tx, beatDue, beatFailed, retryIn, stalled,
                 sweepVars, requeuing, budgets>>

\* Anything but the ownership check throws: the transaction of
\* beginJobExecution, markPhaseStarted, the store lookup, the handler, or its
\* finalizer before it commits.
HandlerThrows(w) ==
  /\ pc[w] \in {"claimed", "begun", "working"}
  /\ tx[w] = "none"
  /\ Throw(w)
  /\ UNCHANGED <<rowVars, tx, beatTx, retryIn, sweepVars, requeuing,
                 budgets>>

\* completeJobWithClient: only onboarding finalizers pass the generation.
MayComplete(w) == Owns(w) /\ (held[w] \in Bootstrap => OwnsToken(w))

CompleteRead(w) ==
  /\ pc[w] = "working"
  /\ MayComplete(w)
  /\ OpenTx(w, "complete")
  /\ UNCHANGED retryIn

\* After work() returns, a recorded heartbeatFailure is thrown; an onboarding
\* finalizer may also throw after its commit, when it schedules the next job.
CompleteWrite(w) ==
  /\ CommitTx(w, "complete")
  /\ status' = [status EXCEPT ![held[w]] = "completed"]
  /\ ClearLock({held[w]})
  /\ \/ ~beatFailed[w] /\ Leave(w)
     \/ (beatFailed[w] \/ held[w] \in Bootstrap) /\ Throw(w)
  /\ UNCHANGED delay

RetryAtLimit(j) == attempts[j] <= MaxAttempts[j]   \* mutant
NoLastRetry(j) == attempts[j] + 1 < MaxAttempts[j]   \* mutant
ShouldRetry(j) == attempts[j] < MaxAttempts[j]

AfterFailure(retry) == IF retry THEN "retrying" ELSE "dead_letter"

\* failJobWithClient: the choice between retry and dead letter, and the delay
\* of the retry, are made on the row that was read.
FailRead(w) ==
  /\ pc[w] = "failing"
  /\ Owns(w)
  /\ \E jitter \in 0 .. MaxJitter :
       retryIn' = [retryIn EXCEPT ![w] =
                     IF ShouldRetry(held[w])
                       THEN RetryDelay(attempts[held[w]]) + jitter ELSE NoRetry]
  /\ OpenTx(w, "fail")

FailWrite(w) ==
  LET retry == retryIn[w] # NoRetry IN
  /\ CommitTx(w, "fail")
  /\ status' = [status EXCEPT ![held[w]] = AfterFailure(retry)]
  /\ delay' = [delay EXCEPT ![held[w]] = IF retry THEN retryIn[w] ELSE @]
  /\ ClearLock({held[w]})
  /\ Leave(w)

\* JobWorkerOwnershipError: the worker gives the job up without writing it.
OwnershipConflict(w) ==
  /\ tx[w] = "none"
  /\ \/ pc[w] = "claimed" /\ ~MayBegin(w) /\ Leave(w)
     \/ pc[w] \in {"begun", "failing"} /\ ~Owns(w) /\ Leave(w)
     \/ pc[w] = "working" /\ ~MayComplete(w) /\ ~beatFailed[w] /\ Leave(w)
     \/ pc[w] = "working" /\ ~MayComplete(w) /\ beatFailed[w] /\ Throw(w)
  /\ UNCHANGED <<rowVars, tx, beatTx, retryIn, sweepVars, requeuing,
                 budgets>>

-----------------------------------------------------------------------------
(* Faults                                                                  *)

Fault == faults < MaxFaults /\ faults' = faults + 1

\* The process is over, and with it its identity.
Gone(w) ==
  /\ pc' = [pc EXCEPT ![w] = "gone"]
  /\ held' = [held EXCEPT ![w] = NoJob]
  /\ token' = [token EXCEPT ![w] = 0]
  /\ tx' = [tx EXCEPT ![w] = "none"]
  /\ beatDue' = [beatDue EXCEPT ![w] = FALSE]
  /\ beatFailed' = [beatFailed EXCEPT ![w] = FALSE]
  /\ stalled' = [stalled EXCEPT ![w] = FALSE]
  /\ UNCHANGED <<rowVars, retryIn, sweepVars, requeuing, uninstalls, manual>>

\* The process dies; the database rolls its open transactions back.
Crash(w) ==
  /\ Fault
  /\ pc[w] # "gone"
  /\ Gone(w)
  /\ beatTx' = [beatTx EXCEPT ![w] = NoJob]

\* A heartbeat's transaction fails; the lock stays as it was.
BeatLost(w) ==
  /\ Fault
  /\ beatDue[w]
  /\ beatDue' = [beatDue EXCEPT ![w] = FALSE]
  /\ beatFailed' = [beatFailed EXCEPT ![w] = TRUE]
  /\ UNCHANGED <<rowVars, pc, held, token, tx, beatTx, retryIn, stalled,
                 sweepVars, requeuing, uninstalls, manual>>

\* A database call outside the handler fails (the claim's audit event,
\* failJob itself): runWorkerBatch rethrows, the worker loop or the cron request
\* ends, and the job keeps its lock.  An open heartbeat may still land.
Abandon(w) ==
  /\ Fault
  /\ pc[w] \in {"claimed", "failing"}
  /\ Gone(w)
  /\ UNCHANGED beatTx

\* The process is suspended or cannot reach the database for a while: from
\* here to the end of this execution it may be arbitrarily slow.
Stall(w) ==
  /\ Fault
  /\ pc[w] \notin {"idle", "gone"}
  /\ ~stalled[w]
  /\ stalled' = [stalled EXCEPT ![w] = TRUE]
  /\ UNCHANGED <<rowVars, pc, held, token, tx, beatTx, beatDue, beatFailed,
                 retryIn, sweepVars, requeuing, uninstalls, manual>>

-----------------------------------------------------------------------------
(* releaseStaleJobs                                                        *)

ExpiredRunning(j) ==   \* mutant: claimed rows are not scanned
  status[j] = "running" /\ leased[j] /\ lockLeft[j] < 0

\* findExpiredLockedJobs
Expired(j) == status[j] \in Active /\ leased[j] /\ lockLeft[j] < 0

SweepScan(s) ==
  /\ list[s] = {}
  /\ \E j \in Jobs : Expired(j)
  /\ list' = [list EXCEPT ![s] = {j \in Jobs : Expired(j)}]
  /\ lag' = [lag EXCEPT ![s] = 0]
  /\ UNCHANGED <<rowVars, workerVars, releasing, requeuing, budgets>>

\* isJobEligibleForStaleRelease against the `now` taken after the scan.
Eligible(j, age) ==
  /\ status[j] \in Active
  /\ leased[j]
  /\ lockLeft[j] + age < 0
  /\ beatAge[j] - age >= StaleAfter

ReleaseRead(s) ==
  /\ releasing[s] = NoJob
  /\ \E j \in list[s] :
       /\ list' = [list EXCEPT ![s] = @ \ {j}]
       /\ releasing' = IF Eligible(j, lag[s])
                         THEN [releasing EXCEPT ![s] = j] ELSE releasing
  /\ UNCHANGED <<rowVars, workerVars, lag, requeuing, budgets>>

\* attempts > 0 on every row that was ever claimed, but the code asks.
ReleaseWrite(s) ==
  LET j == releasing[s] IN
  /\ j # NoJob
  /\ status' = [status EXCEPT ![j] =
                  IF attempts[j] > 0 THEN "retrying" ELSE "queued"]
  /\ gen' = [gen EXCEPT ![j] = @ + 1]
  /\ delay' = [delay EXCEPT ![j] = 0]
  /\ ClearLock({j})
  /\ releasing' = [releasing EXCEPT ![s] = NoJob]
  /\ UNCHANGED <<attempts, created, workerVars, list, lag, requeuing, budgets>>

\* A transaction of the loop fails, or its process dies: the rest is left.
SweepAbort(s) ==
  /\ Fault
  /\ list[s] # {} \/ releasing[s] # NoJob
  /\ list' = [list EXCEPT ![s] = {}]
  /\ releasing' = [releasing EXCEPT ![s] = NoJob]
  /\ UNCHANGED <<rowVars, workerVars, lag, requeuing, uninstalls, manual>>

-----------------------------------------------------------------------------
(* Uninstall and operators                                                 *)

\* cancelStoreJobsOnUninstall: one updateMany over the store's open jobs.
CancelStoreJobs(s) ==
  LET J == {j \in Jobs : StoreOf[j] = s /\ status[j] \in Waiting \cup Active}
  IN
  /\ uninstalls + manual < MaxInterventions
  /\ uninstalls' = uninstalls + 1
  /\ status' = [j \in Jobs |-> IF j \in J THEN "cancelled" ELSE status[j]]
  /\ gen' = [j \in Jobs |-> IF j \in J THEN gen[j] + 1 ELSE gen[j]]
  /\ ClearLock(J)
  /\ UNCHANGED <<attempts, delay, created, workerVars, sweepVars, requeuing,
                 faults, manual>>

\* cancelJob asks neither for the owner nor for the status.
CancelJob(j) ==
  /\ status[j] # "none"
  /\ uninstalls + manual < MaxInterventions
  /\ manual' = manual + 1
  /\ status' = [status EXCEPT ![j] = "cancelled"]
  /\ ClearLock({j})
  /\ UNCHANGED <<attempts, gen, delay, created, workerVars, sweepVars,
                 requeuing, faults, uninstalls>>

RequeueableTerminal(j) == status[j] \in Terminal   \* mutant
Requeueable(j) == status[j] = "dead_letter"

\* requeueDeadLetterJob checks the status outside of the transaction ...
RequeueRead(o) ==
  /\ requeuing[o] = NoJob
  /\ uninstalls + manual < MaxInterventions
  /\ manual' = manual + 1
  /\ \E j \in Jobs : /\ Requeueable(j)
                     /\ requeuing' = [requeuing EXCEPT ![o] = j]
  /\ UNCHANGED <<rowVars, workerVars, sweepVars, faults, uninstalls>>

\* ... that writes by id and leaves attempts as they are.
RequeueWrite(o) ==
  LET j == requeuing[o] IN
  /\ j # NoJob
  /\ status' = [status EXCEPT ![j] = "queued"]
  /\ gen' = [gen EXCEPT ![j] = @ + 1]
  /\ delay' = [delay EXCEPT ![j] = 0]
  /\ ClearLock({j})
  /\ requeuing' = [requeuing EXCEPT ![o] = NoJob]
  /\ UNCHANGED <<attempts, created, workerVars, sweepVars, budgets>>

-----------------------------------------------------------------------------
(* Time                                                                    *)

\* A worker that is not stalled crosses the steps around the handler well
\* within a tick and sends every heartbeat the interval asks for.
Prompt(w) == \/ stalled[w]
             \/ pc[w] \in {"idle", "gone"}
             \/ pc[w] = "working" /\ ~beatDue[w]

\* Prisma aborts an interactive transaction after five seconds: none spans a
\* tick.
Tick ==
  /\ NoTxOpen
  /\ \A w \in Workers : Prompt(w)
  /\ \A s \in Sweepers : list[s] # {} => lag[s] < MaxSweep
  /\ lockLeft' = [j \in Jobs |-> IF leased[j] /\ lockLeft[j] > LockFloor
                                   THEN lockLeft[j] - 1 ELSE lockLeft[j]]
  /\ beatAge' = [j \in Jobs |-> IF leased[j] /\ beatAge[j] < BeatCap
                                  THEN beatAge[j] + 1 ELSE beatAge[j]]
  /\ delay' = [j \in Jobs |-> IF delay[j] > 0 THEN delay[j] - 1 ELSE 0]
  /\ beatDue' = [w \in Workers |-> pc[w] = "working"]
  /\ lag' = [s \in Sweepers |-> IF list[s] # {} THEN lag[s] + 1 ELSE 0]
  /\ UNCHANGED <<status, attempts, gen, lockedBy, leased, created, pc, held,
                 token, tx, beatTx, beatFailed, retryIn, stalled, list,
                 releasing, requeuing, budgets>>

-----------------------------------------------------------------------------
Init ==
  /\ status = [j \in Jobs |-> "none"]
  /\ attempts = [j \in Jobs |-> 0]
  /\ gen = [j \in Jobs |-> 0]
  /\ lockedBy = [j \in Jobs |-> NoWorker]
  /\ leased = [j \in Jobs |-> FALSE]
  /\ lockLeft = [j \in Jobs |-> 0]
  /\ beatAge = [j \in Jobs |-> 0]
  /\ delay = [j \in Jobs |-> 0]
  /\ created = [j \in Jobs |-> 0]
  /\ pc = [w \in Workers |-> "idle"]
  /\ held = [w \in Workers |-> NoJob]
  /\ token = [w \in Workers |-> 0]
  /\ tx = [w \in Workers |-> "none"]
  /\ beatTx = [w \in Workers |-> NoJob]
  /\ beatDue = [w \in Workers |-> FALSE]
  /\ beatFailed = [w \in Workers |-> FALSE]
  /\ retryIn = [w \in Workers |-> NoRetry]
  /\ stalled = [w \in Workers |-> FALSE]
  /\ list = [s \in Sweepers |-> {}]
  /\ lag = [s \in Sweepers |-> 0]
  /\ releasing = [s \in Sweepers |-> NoJob]
  /\ requeuing = [o \in Operators |-> NoJob]
  /\ faults = 0 /\ uninstalls = 0 /\ manual = 0

WorkerStep(w) ==
  \/ Claim(w) \/ BeginRead(w) \/ BeginWrite(w) \/ ExtendRead(w)
  \/ ExtendWrite(w) \/ BeatRead(w) \/ BeatWrite(w) \/ CompleteRead(w)
  \/ CompleteWrite(w) \/ HandlerThrows(w) \/ FailRead(w) \/ FailWrite(w)
  \/ OwnershipConflict(w)

WorkerFault(w) == Crash(w) \/ BeatLost(w) \/ Abandon(w) \/ Stall(w)

SweepStep(s) == SweepScan(s) \/ ReleaseRead(s) \/ ReleaseWrite(s)

Next ==
  \/ \E j \in Jobs : Enqueue(j) \/ CancelJob(j)
  \/ \E w \in Workers : WorkerStep(w) \/ WorkerFault(w)
  \/ \E s \in Sweepers : SweepStep(s) \/ SweepAbort(s)
  \/ \E s \in Stores : CancelStoreJobs(s)
  \/ \E o \in Operators : RequeueRead(o) \/ RequeueWrite(o)
  \/ Tick

Spec == Init /\ [][Next]_vars

\* A live worker's loop keeps running, its heartbeat timer is a flow of its
\* own, some caller keeps sweeping, and time passes.
LoopFairness ==
  /\ WF_vars(Tick)
  /\ \A w \in Workers : /\ WF_vars(WorkerStep(w))
                        /\ WF_vars(BeatRead(w)) /\ WF_vars(BeatWrite(w))
  /\ \A s \in Sweepers : WF_vars(SweepStep(s)) /\ WF_vars(ReleaseWrite(s))

\* Handlers return or throw.  A premise, not part of the specification: nothing
\* in the worker bounds their running time.
HandlersReturn == \A w \in Workers :
  WF_vars(CompleteRead(w) \/ HandlerThrows(w) \/ OwnershipConflict(w))

LoopSpec == Spec /\ LoopFairness

-----------------------------------------------------------------------------
(* Properties                                                              *)

\* The type of the state.
TypeOK ==
  /\ status \in [Jobs -> Status]
  /\ attempts \in [Jobs -> Nat]
  /\ gen \in [Jobs -> Nat]
  /\ lockedBy \in [Jobs -> Workers \cup {NoWorker}]
  /\ leased \in [Jobs -> BOOLEAN]
  /\ lockLeft \in [Jobs -> Int]
  /\ beatAge \in [Jobs -> Nat]
  /\ delay \in [Jobs -> Nat]
  /\ created \in [Jobs -> Nat]
  /\ pc \in [Workers -> Control]
  /\ held \in [Workers -> Jobs \cup {NoJob}]
  /\ token \in [Workers -> Nat]
  /\ tx \in [Workers -> {"none", "begin", "extend", "complete", "fail"}]
  /\ beatTx \in [Workers -> Jobs \cup {NoJob}]
  /\ beatDue \in [Workers -> BOOLEAN]
  /\ beatFailed \in [Workers -> BOOLEAN]
  /\ retryIn \in [Workers -> Nat \cup {NoRetry}]
  /\ stalled \in [Workers -> BOOLEAN]
  /\ list \in [Sweepers -> SUBSET Jobs]
  /\ lag \in [Sweepers -> Nat]
  /\ releasing \in [Sweepers -> Jobs \cup {NoJob}]
  /\ requeuing \in [Operators -> Jobs \cup {NoJob}]
  /\ faults \in Nat /\ uninstalls \in Nat /\ manual \in Nat

\* workerGeneration is a fencing token (FencedLease states the promise): a row
\* is given an owner only while it has none, by a claim that draws a fresh
\* generation, and loses it without its generation ever going back -- in
\* whatever order the transactions of workers, sweeps, uninstalls and operators
\* commit.
Lease == INSTANCE FencedLease
           WITH Items <- Jobs, Clients <- Workers,
                Nobody <- NoWorker, Nothing <- NoJob,
                holder <- lockedBy, epoch <- gen,
                item <- held, ticket <- token
LeaseSpec == Lease!Spec

\* What the lease buys: no two workers ever act on the same claim of a job, and
\* the row names as owner of its current generation only the worker whose claim
\* drew it; assertWorkerOwnership fences every other one.
FencingTokens == Lease!Fenced

\* A job that nobody may write any more has no owner: only claimed and running
\* rows are locked, so no terminal or waiting job can be completed, failed or
\* heartbeaten by a worker that checks its ownership now.
OnlyActiveJobsLocked ==
  \A j \in Jobs : lockedBy[j] # NoWorker => status[j] \in Active

\* Every claimed or running row carries a lock expiry and a heartbeat, even
\* the ones an interleaving left without an owner: findExpiredLockedJobs can
\* always reach it, no job is stranded out of the sweeps' sight.
NoStrandedJob ==
  \A j \in Jobs : status[j] \in Active => leased[j]

\* A dead-lettered job has used up its attempts: neither a fail decided on a
\* row that changed meanwhile, nor a requeue, dead-letters a job too early.
DeadLetterExhausted ==
  \A j \in Jobs : status[j] = "dead_letter" => attempts[j] >= MaxAttempts[j]

\* Attempts beyond maxAttempts never come for free: while no two sweeps release
\* the same job at once and a retry waits longer than a transaction, a fault,
\* an uninstall that races with the worker, or a requeue costs at most two
\* claims beyond the limit (the release of a stale claim, and the release of
\* the row that its late transaction brought back to running).
AttemptsAccounted ==
  \A j \in Jobs :
    attempts[j] <= MaxAttempts[j] + 2 * (faults + uninstalls + manual)

Executing(w, j) == pc[w] \in {"begun", "working"} /\ held[w] = j

\* A sweep never takes a job from a worker that keeps its heartbeat: what it
\* releases belongs to a worker that has stalled, has recorded the loss of its
\* heartbeat, or does not execute it, however old the sweep's list and `now`
\* are and whatever commits between its read and its write.  Holds while no two
\* sweeps release the same job at once, no operator requeues the job, and a
\* retry waits longer than a transaction lasts (job.server.ts:424).
SweepsSpareHealthy ==
  [][\A s \in Sweepers, w \in Workers :
       LET j == releasing[s] IN
       manual = 0 /\ j # NoJob /\ releasing'[s] = NoJob /\ gen'[j] # gen[j]
         => \/ ~(Executing(w, j) /\ Owns(w))
            \/ stalled[w] \/ beatFailed[w]]_vars

\* A completed job never runs again: as long as no worker has faulted,
\* uninstalls, requeues and cancellations cannot bring it back, in whatever
\* order their transactions commit with the worker's.  Holds while no two sweeps
\* release, and no two operators requeue, the same job at once: of two operators
\* who read the same dead letter, the second resets what the first one's run
\* completed (requeueDeadLetterJob,
\* job.server.ts:931).
CompletedNeverReruns ==
  [][faults' = 0 =>
       \A j \in Jobs : status[j] = "completed"
                         => status'[j] \in {"completed", "cancelled"}]_vars

\* Every enqueued job is settled, if handlers return: through crashes, stalls,
\* lost heartbeats, racing sweeps and uninstalls it reaches a terminal status.
EveryJobSettles ==
  HandlersReturn => \A j \in Jobs : status[j] # "none" ~> status[j] \in Terminal

\* A worker that lost its job to a sweep or an uninstall finds out: it records
\* the failed heartbeat, or it leaves the job, even when its handler hangs.
LossNoticed ==
  \A w \in Workers :
    pc[w] = "working" /\ ~Owns(w) ~> pc[w] # "working" \/ beatFailed[w]
=============================================================================
