# StorePilot: TLA+ models, checks and proofs

StorePilot (`src/store-pilot`) is a Shopify app: a web process that answers OAuth
callbacks, webhooks, cron requests and the merchant's pages, and worker
processes that execute background jobs.  They share one Postgres database
through Prisma and talk to each other only through its rows.  This directory
models the parts whose correctness depends on how those processes interleave.

## 1. Inventory

| Component | State | Operations | Talks to |
|---|---|---|---|
| Job queue (`app/services/job.server.ts`) | rows of `sync_jobs`: status, attempts, lockedBy, workerGeneration, lockExpiresAt, heartbeatAt, availableAt | enqueue, claim (`FOR UPDATE SKIP LOCKED`), begin, heartbeat, complete, fail, release stale, cancel, cancel on uninstall, requeue dead letter | everyone that schedules work |
| Worker loop (`worker.server.ts`) | the claim in hand, the heartbeat timer and its recorded failure | claim-begin-run-finalize, failure handling, ownership conflict | queue, onboarding, Shopify |
| Worker runtime and registry (`worker-runtime`, `worker-registry`, `cron-worker`) | runtime state, `worker_instances` rows | recovery cycle, batch, drain, stop | queue, signals |
| Onboarding (`onboarding.server.ts`) | one `store_onboarding` row per store: three phases, current job, run id, repair flag | advance, mark started/completed/blocked/failed, finalize, retry, resume, reconcile, ownership repair | queue, worker, uninstall |
| Install and uninstall (`store`, `after-auth-bootstrap`, `store-backfill`) | `stores` row: active, accessToken, lastAuthenticatedAt | upsert after auth, uninstall webhook, deactivate, post-auth bootstrap | webhook lease, billing, queue |
| Webhook event lease (`webhook.server.ts`) | `webhook_events` row: processedSuccessfully, processingOwner, processingExpiresAt | claim, finalize, release, cleanup cron | all webhook handlers |
| Subscriptions (`billing.server.ts`) | `subscriptions` | ensure, terminate, sync from Shopify | install/uninstall, billing webhook |
| AI credits and agent runs (`billing.server.ts`, `ai-cost-control`, `app/ai/orchestrator`) | `usage_records` of the month; `agent_runs`, `agent_results`, `agent_cache` | budget check, debit in a serializable transaction, run, three nested loops of retries around the provider, cache | subscriptions, AI providers |
| Plan enforcement (`billing-enforcement.server.ts`) | limits of the plan, counted under a lock | check and create in one transaction | orders, products, billing |
| GDPR (`gdpr.server.ts`) | exports, redaction flags | data request, customer redact, shop redact | webhook lease |
| Cron (`cron-scheduler`, `cron-jobs`) | bucketed idempotency keys | dispatch, sweep, cleanup | queue, webhook lease |
| Order sync (`orders.server.ts`) | `orders` rows; per store one cursor with its quarantine, historicalOrdersImportDone, lastOrdersSyncAt | historical and incremental sync, webhook upsert | queue, Shopify, plan limit, redaction |
| Product sync (`product.server.ts`) | `products` rows, one per variant: updatedAt, status | sync, webhooks for create, update and delete, reconciliation of removed variants | queue, Shopify, plan limit |
| Inventory sync (`inventory.server.ts`) | quantities of the variants | paged import, webhook | queue, Shopify |
| Automation (`automation-lifecycle`, `app/automation`, `app/shopify-automation`) | maps of the process: snapshots of automations, idempotency records, the call queue of a store | create, approve, execute, verify, cancel, archive | operations, Shopify |
| AI foundation (`app/ai/foundation`) | caches, rate limits, cost | route, retry, validate | AI providers, the orchestrator above it |
| Operations queue, knowledge, learning, prediction, experiments | merchant tasks, analytics rows | lifecycle, scoring | handlers of jobs |

What is hard: every queue operation except the claim and the uninstall
cancellation is a check followed by an update *by id* in a READ COMMITTED
transaction; three independent callers run the stale sweep; heartbeats are sent
by a timer that runs beside the handler; processes die between any two
statements; webhooks are delivered late, twice and concurrently; multi-step
handlers (uninstall, bootstrap, redaction, paged imports) are retried after failing half way;
snapshots kept in memory are loaded before an await and saved after it.
`PROJECT.json` lists each such place under `hazards`.

## 2. The job queue: `JobQueue.tla`

### State

The row variables are the columns of `sync_jobs`, one function of the jobs each;
`leased` says that `lockExpiresAt` and `heartbeatAt` are not null (every
statement sets or clears the two together).  One tick is one default lock
duration (5 minutes).  Time is kept as ages and remaining ticks, saturating at
`BeatCap` and `LockFloor`, so that the state space is finite: nothing the code
compares distinguishes larger values.

A worker process has a control state (`pc`), the claim it carries (`held`,
`token` = the generation its claim drew), the transaction its main flow has
open (`tx`), the job its timer's heartbeat transaction is about to write
(`beatTx`), whether the interval has elapsed (`beatDue`) and whether
`heartbeatFailure` is set (`beatFailed`).  A caller of `releaseStaleJobs` has the
rest of its list, the age of its `now` and the job in transaction.

### Actions

| Action | Code |
|---|---|
| `Enqueue` | `enqueueJob`: an existing key changes nothing |
| `Claim` | the CTE of `claimNextJob`: priority, then age; rows that a transaction may hold are skipped |
| `BeginRead`, `BeginWrite` | `beginJobExecution` |
| `ExtendRead`, `ExtendWrite` | the first `extendJobLock` of `withJobHeartbeat` |
| `BeatRead`, `BeatWrite`, `BeatLost` | the interval's `extendJobLock`, its ownership error, its database error |
| `CompleteRead`, `CompleteWrite` | `completeJobWithClient`, alone or inside the onboarding finalizers |
| `HandlerThrows`, `FailRead`, `FailWrite` | the catch block of `executeNextClaimedJob`, `failJobWithClient` |
| `OwnershipConflict` | `JobWorkerOwnershipError` caught: `buildOwnershipConflictResult` |
| `SweepScan`, `ReleaseRead`, `ReleaseWrite`, `SweepAbort` | `releaseStaleJobs` |
| `CancelStoreJobs`, `CancelJob`, `RequeueRead`, `RequeueWrite` | uninstall and operators |
| `Crash`, `Abandon`, `Stall`, `Tick` | process death, an error that escapes the worker loop, a slow process, time |

`FencedLease.tla` is the abstract specification: items, holders, epochs, tickets;
a client acquires a free item with a fresh epoch, items may be revoked at any
time, clients find out later.

### Abstractions

- A transaction of the form "findUnique, check, update by id" is a `...Read` and a
  `...Write` step; the checks are on the row that was read, the update on the row as
  it is.  Single statements (`claimNextJob`, the two `updateMany`) are one step.
- Prisma aborts an interactive transaction after five seconds, one tick is five
  minutes: `Tick` waits until no transaction is open.
- A claim skips the rows that an open transaction *may* have locked
  (`SKIP LOCKED`): `TxOpenOn` is that set, and a claim may also take such a row
  before its transaction has locked it.
- The handler of a job type is one step that returns or throws; whether and when the
  job is retried is computed from the attempts read (`retryIn`), as `failJobWithClient` does.
- The worker's identity is its process start (a fresh id per start), so a restart
  is a new element of `Workers`; `Crash` is final for its worker.
- Audit rows (`job_events`), payloads, error texts and metrics are left out.

### Properties

Checked and proved: `OnlyActiveJobsLocked`, `NoStrandedJob`, `DeadLetterExhausted`,
`LeaseSpec` (refinement of `FencedLease`).  `FencingTokens` follows from `LeaseSpec` and is proved.
`SweepsSpareHealthy`, `AttemptsAccounted` and `CompletedNeverReruns` are proved while no two
sweeps release the same job at once (`OneRelease`), which section 11 says the code allows;
the first two also need that a retry waits longer than a transaction, the last one that no two operators requeue
the same job at once.
Only model-checked: the liveness properties `EveryJobSettles` and `LossNoticed`.

## 3. The webhook event lease: `WebhookLease.tla`

State: the `webhook_events` rows (`stored`, `processed` =
`processedSuccessfully`, `owner` = `processingOwner`, `lease` = whether
`processingExpiresAt` is null, in the future or past) and the HTTP requests in
progress (`at`, `event`).  A request draws a fresh owner id, so the slot it runs in
stands for that id as long as the row may still carry it (`Fresh`).  `overrun`,
`finished` and `acked` record what happened and are read by no guard of the code.

| Action | Code |
|---|---|
| `Deliver`, `Duplicate` | Shopify: again until a 200; and more than once |
| `FindEvent`, `CreateEvent`, `FindRaced` | the findUnique, the create, and the findUnique after its unique violation, of `claimWebhookEvent` |
| `Acquire` | the conditional updateMany of `acquireWebhookProcessingLease` |
| `Finish`, `Fails` | the end of the work, normal or by an exception |
| `Finalize`, `Recheck` | the conditional updateMany of `markWebhookEventProcessed`, and what it reads when it changed no row |
| `Release` | `releaseWebhookProcessingLease` |
| `Overrun`, `LapseOrphan` | the lease of a live request, or of a dead one, expires |
| `Cleanup` | the cleanup cron clears expired leases |
| `Crash` | a web process dies |

The deletion of processed rows, by retention thirty days after their creation and by
the redaction of a shop, is left out: Shopify has stopped redelivering by then.

## 4. The life of a store: `StoreLifecycle.tla`

It EXTENDS `WebhookLease` and composes it with OAuth, the uninstall webhook, the
billing webhook and the bootstrap job, which share four rows: the store, its
session, its subscription and its bootstrap job.  Every action says what it does
to the lease and what it does to the store.

| Actions | Code |
|---|---|
| `Install`, `Uninstall`, `BillingChanges` | the merchant at Shopify |
| `AuthBegin` .. `AuthSchedule`, `AuthFail` | the stored session, then `afterAuth`: metadata, the upsert, the bootstrap job; its errors are logged and swallowed |
| `UninstallArrives`, `OrphanArrives`, `OrphanSessions`, `BillingArrives` | `lookupStoreForWebhook` and `gateWebhookEvent`: an uninstall is handled for an inactive store too, and without a row when there is none; a billing event of an inactive store is refused |
| `CheckStale` .. `DeleteSessions` | `handleAppUninstalledWebhook` and the three calls it makes, a step per statement |
| `SyncPlan` | `syncInternalPlanFromShopify` |
| `Answer`, `Breaks` | what follows the work: finalize, recheck, release, answer |
| `BootStart` .. `BootFinish`, `BootThrow` | the worker running `runPostAuthBootstrap`; `EnsureRead`, `EnsureWrite`, `BootMark` are `ensureSubscriptionForActiveStore` |
| `Purge` | retention of completed jobs |

`clock` orders the instants that the code compares (`X-Shopify-Triggered-At`,
`lastAuthenticatedAt`, `createdAt` of the event); it advances only when one of them
is stamped.  `active` is `store.active` together with a non-empty access token,
which the code writes together.  `sub = "cancelled"` stands for the statuses that
`isSubscriptionTerminated` accepts.  One authentication runs at a time.  The
bootstrap job has an abstract queue: its claim, heartbeat and sweep are those of
`JobQueue`.  The onboarding and backfill steps of the bootstrap are
in `Onboarding`; the owner and learning steps are left out.

`overlap` records that an uninstall fell into a running authentication.  Such an
authentication cannot be told from a reinstall by anything the row keeps, so the
properties of an uninstall exclude it.  This is a limit of the program, listed
among the hazards, and not of the model.

`UninstallCancelsJobs` holds for one uninstall whose webhook does not fail.  It
fails when the webhook fails half way (section 11), and also, without any fault, with two
uninstalls, because the second one may return early while the first one still works.

## 5. The onboarding: `Onboarding.tla`

One row of `store_onboarding` (`row`), the jobs of its phases by idempotency key
(phase and run id; run 0 is the key of the backfill), and the processes that read the
row and later update it.  The queue is reduced to what onboarding sees of it: a
job waits, runs under an owner, ends.  `Release` and `Crash` stand for the
sweeps, locks and clocks of `JobQueue`.

| Action | Code |
|---|---|
| `AdvanceRead`, `AdvanceCheck`, `AdvanceFind`, `AdvanceLink` | `advanceOnboarding` when nothing is to be repaired: it reads the row, finds a phase ready, looks its job up by key, and links it where the phase still waits for it; nothing is locked before the link |
| `AdvanceWrite`, `AdvanceRenew` | the same from the update that locks the row: a repair of a phase whose job has ended, the completion, a new run id because the job of the key has ended |
| `Claim`, `StartRead`, `StartWrite` | the worker's claim, `beginJobExecution` and `markPhaseStarted` |
| `FinalizeRead`, `FinalizeWrite` | `finalizeSuccessfulJobPhase`, `finalizeBlockedJobPhase`: job, phase and advance in one transaction |
| `HandlerThrows`, `FailRead`, `FailWrite` | `finalizeFailedOnboardingJob` |
| `OwnershipConflict`, `RepairRead`, `RepairWrite` | the repair flag and `repairOwnershipConflictOnboarding` |
| `ReconcileRead`, `ReconcileWrite` | `reconcileOnboardingWithCompletedJobs` |
| `Authenticate`, `BlockOrders`, `ResumeRead`, `ResumeWrite` | web requests and webhooks that advance, block or resume |
| `Backfill` | catch-up jobs after a reinstall |
| `UninstallCancel`, `UninstallReset` | `cancelStoreJobsOnUninstall`: the jobs there are, then the row, in one transaction; until its commit the jobs are locked (`Free`) and others see them as they were |

A transaction (`Txn`) is a record that the operators of the code transform one after the
other, as the functions of the code pass `tx` and the row along: the row it read, the row and
the jobs it will commit, and whether a phase gate threw.  Transactions run at READ
COMMITTED; the first UPDATE of the row locks it until the commit, so an operation is
its reads, each of which may grow stale, and one step from its first UPDATE to its commit.
A job that was found may be cancelled or finished before the link, and a job that was not
found may be created by another transaction, whose key then aborts this one.  The reads of a
repair (one per open phase) are one step, and one uninstall runs at a time.
Labels, percentages and time stamps are left out.

`Pipeline.tla` is the abstract specification: phases are done one after the other,
none twice and none skipped, and the onboarding ends completed, or failed and may be
retried where it stopped.

`LinkedJobIsLive` and `QueuedInOrder` hold whatever happens and are proved.  The first one has
an exception that the code has: an advance that found a live job is `overtaken` when the job is
cancelled, or its phase started over, before the link; such an advance, and no other step, may link
a job that has ended (section 11).
`OneLiveJob`, `PipelineSpec` and `Settles` hold under crashes, handler errors,
authentications at any moment, and resumes that begin while no other request is under
way (the event `quiet resume`); the first two are proved.  They do not hold when a
job is *lost* (its lock expires under a live worker, or its heartbeat fails), when an
uninstall runs beside a worker, when an order webhook blocks the orders phase early, or
when a resume begins beside another resume or advance: a late write then puts a phase
back, or links a job that has ended, and the next one may start beside it.  Section 11 lists what follows.

## 6. Order synchronisation: `OrderSync.tla`

| Variable | Code |
|---|---|
| `shop`, `now` | Shopify: `updatedAt` of each order, 0 before it is placed |
| `rows` | the orders table: version and `privacyRedacted` |
| `saved`, `importDone`, `lastSync` | `ordersSyncCursor` (page, quarantine, historicalPagesComplete), `historicalOrdersImportDone`, `lastOrdersSyncAt` |
| `limit` | `maxOrders` of the plan in force |
| `run`, `tx` | the locals of each running sync; the upsert each run or webhook is in |

| Action | Code |
|---|---|
| `Start`, `FetchPage`, `TakeOrder`, `PersistPage`, `Finish` | `syncOrdersFromShopify`, `syncOrdersIncremental`, `retryQuarantinedOrders`, `processOrdersPageEdges` |
| `WebhookFetch` | `upsertOrderFromWebhookGraphql` |
| `FindOrder`, `UpdateOrder`, `CheckLimit`, `CreateOrder` | `upsertOrderRow` and `assertOrderCreateAllowedAtomic`, statement by statement |
| `Unreadable`, `Abort` | orders that cannot be normalised; crashes and thrown errors |
| `ChangeOrder`, `Redact`, `ChangePlan` | Shopify, `redactCustomerOrders`, `syncInternalPlanFromShopify` |

Abstractions: a page is a position of the list and the orders of a page or of the
quarantine are taken in any order; nodes without an id, which the code skips (`orders.server.ts:125`)
and Shopify's schema excludes, are left out; the store stays active (its checks are in
`StoreLifecycle`); the cutoff of the historical window does not move during an
import; line items are written in the transaction of their order; the serialised cursor is read back as it
was written.

`Replica.tla` is the abstract specification of a table that copies another system: a key is stored at a
version its source has had, its version never decreases, it is never dropped, and a withheld key comes back only
at a newer version.  Orders implement it with `redacted` as the withheld keys, and so do the rows of a product
(section 9) with `archived`: the two services guard their updates in different ways, by the version in an
`updateMany` and by a repeated test, and have different exceptions around them, but promise the same.

## 7. Automation: `Automation.tla`

The automations of one store live in maps of the process.  `snapshot` is the saved
record of each, `idempotency` the records of the executions, `storeQueue` the calls to
Shopify of the store in their order, `request` the locals of each execution in progress,
`tags` the product at Shopify.  `approvals`, `sends` and `applied` are history.

| Action | Code |
|---|---|
| `Create`, `Submit`, `Approve`, `RequestChanges`, `Cancel`, `Verify`, `Archive` | the operations of `automation-lifecycle.server.ts` that take one turn |
| `Refuse`, `Replay`, `Begin` | `executeShopifyAutomation` up to its first await: the dry run, a record in progress or completed, a new record |
| `Connect`, `ConnectFails` | `resolveShopifyAdminContext` |
| `Queue`, `Read`, `Mutate`, `Retry`, `Fail` | the calls through `executeWithRateLimit` and its retries; between two calls an execution is not in the queue |
| `Mismatch`, `Complete` | `assertMutationVerified`, `completeIdempotency`, and the save of the snapshot loaded before the calls |
| `Crash`, `EditProduct` | the process ends with its maps; the merchant edits the product |

Node runs one turn at a time, and what an operation awaits outside of an execution are promises that
are already resolved, so such an operation is one step.  Of the mutations,
`update_product_tags` with "add" stands for all: read a list, write the whole
list, read it back.  There is one process; with two, the maps would be two
independent copies.

`Effects.tla` is the abstract specification: commands are approved, sent, take effect and are recorded as
done.  A command is sent once and only after its approval; its call may be repeated until it is recorded and
never after; a record may be lost or set back, but names only what has taken effect.  The mapping (`E`) reads
`sent` and `effective` from the history of the calls and `recorded` from the saved snapshot, so the
idempotency records, the queue of the store and the snapshots that requests hold are what implements it.

## 8. AI credits and agent runs: `AiCredits.tla`

`usage` is `usage_records` by month and metric; `month`, `limit` and `access` are the calendar, the plan
and the status in force; `request` holds the locals of each call; `runs`, `results` and `cache` are
the rows an agent run writes.  `charged`, `calls` and `peak` are history.

A call is an agent run (`AIOrchestrator.execute`) or a `recordUsageIfAllowed`, which only tests call
today and which is the one writer of `reports_generated`, the metric that shares the budget.

| Actions | Code |
|---|---|
| `Lookup`, `Check`, `Resolve`, `Refresh`, `ReadFails` | the cache, `getAiBudgetStatus` before and after the debit, `resolveAiBudget`; a usage query that fails answers "nothing used" |
| `DebitRead`, `Exceeded`, `DebitWrite`, `DebitLost`, `Conflict`, `GivesUp` | `debitAiCreditsWithinLimit`: its snapshot, its refusal, its commit, an answer lost after the commit, a serialization failure and the last one |
| `Skip`, `Start`, `Fails`, `StoreFailure`, `StoreResult`, `StoreCache`, `Recommend`, `Finish`, `Breaks` | the rest of `execute`, write by write |
| `Call`, `Unasked` | one call of the provider, and what the three loops around it do with its answer (`TriesAgain`: `executeWithRetry`; `ValidatesAgain`: `FoundationPipeline.execute`; `ExecutesAgain`: `AIOrchestrator.execute`); the rate limiter or the open circuit breaker refuses before an attempt |
| `ChangePlan`, `ChangeAccess`, `NextMonth` | subscription and calendar |

A serializable transaction is a snapshot and a commit that succeeds only if the rows of
the month are as they were; it may also be told to fail without a reason (`P2034`), and then tries
again or gives up.  All runs have one fingerprint, so that they meet in the cache.

An answer is one of six kinds, told apart by what the loops do with it: an error of the transport, a
`SyntaxError`, a breach of the schema, another error, and, when the pipeline returns, a malformed or a
valid answer.  The inner loop repeats the first two; the middle one repeats, once and counting anew, a
`SyntaxError` that the inner one has given up, or a breach; the outer one repeats, once and counting anew, what is
malformed.  A paid run asks at most `MostCalls == 4 * ProviderAttempts` times, which is sixteen.  What the
client library of a provider repeats below `generateStructured` is not counted.

`Prepaid.tla` is the abstract specification, an account: what may be spent is granted, a customer pays its
price once and in one step out of a budget that has it, uses the service `MostUses` times at most (`MostCalls` in the
mapping) and only when it has paid, and keeps the result of a use, which ends its use.  The mapping (`P`) reads `spent` from the rows of
`usage_records`, so every change of these rows has to be the payment of one call.  A debit of three
steps with retries, conflicts and lost answers is the one step `Pay`, at its commit.

## 9. The product catalogue: `Catalog.tla`

The rows of one product.  `catalog` holds the versions of the product at Shopify (its `updatedAt` is an
index), `row` the version and status of the row of each variant, `sync` and `hook` the locals of running syncs and
`products/update` webhooks.

| Actions | Code |
|---|---|
| `SyncFetch`, `SyncUpsert`, `SyncBlocked`, `SyncReconcile`, `SyncFails` | `syncProductsFromShopify` with `upsertVariantRow` and `reconcileRemovedVariants` |
| `HookFetch`, `HookMiss`, `HookWrite`, `HookFails` | `handleProductUpdateWebhook`, which reads the product anew; in its transaction, the first variant it does not find, and the rest to the commit |
| `CreateHook`, `DeleteHook` | `handleProductCreateWebhook` with a payload that may be late, `handleProductDeleteWebhook` |
| `Edit`, `Delete`, `ChangePlan` | the merchant, and the plan |

Abstractions: products share nothing but the plan limit, so `Limits` are the rows that the plan leaves for this
product; all pages of variants are fetched at once; a webhook's transaction is one step, because each of
its statements locks what it changes until the commit or skips a row that stays newer, but for one read: the
`findUnique` of the first variant that is not there (`HookMiss`) comes before the lock of the store, under which
no other writer creates.  A variant created in between is skipped if the plan is full by then (`Commits`),
and else violates the key, which fails the transaction.

`outrun` records that a row was archived from an older version than its own.
Archiving and reconciliation look at no version, and a later pass at the row's version
skips it as stale: the row stays archived until the product changes again.  `Converges` therefore excludes it.
It also excepts the one variant that a webhook `Overlooked`: it did not find the row, another writer created it
from an older version, and the plan was full when the webhook asked (section 11).

The rows implement `Replica` (section 6): the source of every variant is at the version of the product, and
archived rows are withheld.  `Replica` permits withholding at any version, which is what archiving does.

## 10. Runs

| Run | Question | Bounds |
|---|---|---|
| `queue` | do the locks fence, who may lose a job, what does an extra attempt cost, is every job settled and every loss noticed? | 1 job with 2 attempts, 2 workers, 1 sweep, 1 fault, 1 uninstall or intervention |
| `store_live` | is a webhook's work done before its 200, once, and in the end; does an uninstall take effect; is the composition a `WebhookLease`? | 1 uninstall, 2 deliveries, 2 faults, 1 duplicate, 2 authentications |
| `store_life` | are the jobs cancelled and is there one trial? | 1 uninstall, 1 paid billing event, 2 authentications, 2 job starts, 1 error |
| `onboarding_pipeline` | is it a pipeline of three phases, and does it end? | 1 worker, 2 requests, 2 attempts, 2 events out of crash, error, quiet resume, authentication |
| `onboarding_storm` | what does a phase keep when anything may interleave? | 2 workers, 1 request, 2 events out of six kinds |
| `orders_shared` | is an import complete, although runs share a cursor? | 2 runs of both kinds, 2 orders on 2 pages, limits 1 and 2, 1 fault |
| `orders_webhooks` | do limit, versions (`Replica`) and redaction survive concurrent upserts? | 1 run, 2 webhooks, 2 orders, 3 versions, limits 1 and 2, 1 fault |
| `automation` | is an automation sent once, only when approved, and recorded only when done (`Effects`), whatever stale snapshots are saved? | 3 automations of 2 sources, 2 requests, 2 attempts, 2 faults |
| `credits` | is the budget kept and each call debited once, as in `Prepaid`? | 2 agent runs, 1 report, limits 0 and 2, 2 months, 2 tries of a debit, 2 attempts of the inner retry, 1 fault |
| `catalog` | do the rows follow the product, as a `Replica` of it and in the end? | 2 variants, 1 sync, 1 webhook, 3 versions, limits 1 and 2 |
| `onboarding_backfill`, `automation_cancelled` | does the code do what its documents say? (expected violations) | as small as shows it |

Type correctness is proved for every module and every value of its constants (section 12), so the runs
check what types do not say.

Bounds.  `MaxFaults`, `MaxInterventions`, `MaxDuplicates`, `MaxAuths`,
`MaxThrows`, `MaxStarts` and `MaxEvents` limit how often something unusual happens; the rest is free.
One job suffices for the ownership properties, because rows share nothing but
the workers, and a worker carries one claim: another job could only keep a worker
busy.  Two workers give a loser and a winner of every race.  In `queue`,
`AttemptsAccounted` itself shows that no job is claimed more than six times, so
`MaxClaims = 10` cuts nothing off; two sweeps that overlap are left to the proofs.
`LockDuration`, `HeartbeatLock`, `BaseDelay` are one tick, the smallest values that
keep the order of the code's durations: a heartbeat interval is below the lock, a
stale heartbeat is twice the lock, a retry waits longer than any transaction lasts
(30 s against 5 s).  Only `SweepsSpareHealthy` needs the last one.

`MaxRuns` bounds the run ids of an onboarding; a transaction draws at most four
(`RunsLeft`), and the bounds on events leave room for every chain of repairs they can
start.  Two orders, on one page or on two, are what the order properties compare: one that is
being written and one that is stored, skipped or still ahead.  With three versions an
order can be overtaken twice.  In `orders_webhooks` one order exists at the installation
and the other is placed later, so that both webhooks and the run create it.

In `automation`, `x1` and `x2` have one source and `x2` is refused by the dry run; ids, requests and faults
are enough for a request to save a snapshot in which another automation has been executed, archived or replaced since,
and for a call to fail on its last attempt.  In `credits` the limits 0 and 2 are a plan without AI and one that
two of the three calls exhaust; two months suffice, because a debit names the month it was checked for, and
two tries are a first and a last, and so are two attempts of the inner retry,
which make eight calls at most.  Its `View` leaves locals that no later step reads out of the
states TLC compares (the limit of a call whose debit is over, for example); no property reads them.  In `catalog` three versions let a late payload, a slow sync
and a webhook hold a version each, and one variant can be added and removed; the limits 1 and 2 make
the plan refuse a creation or not.

Deadlock is checked in `queue` and `catalog`.  It is not in the other runs, which
stop when the merchant does nothing more and every delivery, phase, page and call is done.

### Fairness

- `queue`, `LoopFairness`: time passes, a worker that is alive and not stalled
  takes its next step (`runWorkerBatch` loops), its heartbeat timer fires (a
  `setInterval` of its own), a caller of `releaseStaleJobs` keeps sweeping (cron, runtime and
  batch all do).  Nothing bounds the running time of a handler, so `HandlersReturn`
  is a premise of `EveryJobSettles` and no part of the specification; `LossNoticed`
  does without it.  No fairness is assumed of faults, uninstalls or operators.
- `store_live`, `LifecycleFairness`: a request that was received runs on unless its process
  dies, the lease of a dead request expires, the cleanup cron runs, `afterAuth` and the
  worker run on, and Shopify redelivers uninstalls until it gets a 200.  Billing events are not covered: an
  inactive store refuses them for as long as it stays inactive.
- `onboarding_pipeline`, `Fairness`: a live worker's loop goes on and its handlers
  return, some worker keeps sweeping, a request that began ends.
- `automation`, `FairSpec`: the event loop runs what it has, so a pending await of an execution is answered,
  by a result or an error.  Merchants are free to do nothing.

## 11. Where the code departs from its documents

| Run | Document | Code |
|---|---|---|
| `onboarding_backfill` | catch-up jobs are enqueued after a reinstall (`store-backfill.server.ts:28`) | they start as phases of a completed onboarding, which has no current job: every attempt throws, and the onboarding turns to failed |
| `automation_cancelled` | a cancelled automation has no move left (`app/automation/__tests__/automation-matrix.test.ts:15`) | an execution saves the snapshot it loaded before its calls: what was cancelled meanwhile is executed |

More were met while modelling; the models have the behaviours, no run is kept for them.

Queue and store:

- The bootstrap job has the constant key `post-auth:bootstrap:<storeId>`: after an uninstall the row is
  cancelled or completed, `enqueueJob` returns it, and a reinstall runs no bootstrap
  (`after-auth-bootstrap.server.ts:41`, against its own line 57, "install/reinstall bootstrap").
- An upsert that began before an uninstall and lands after it leaves the store active, and its later time
  stamp makes the uninstall look stale (`store.server.ts:201`).
- Worker transactions check a row and then update it by id: a cancellation that commits in
  between is overwritten (`job.server.ts:650`, against `JOB_LIFECYCLE.md:46`).
- Of two overlapping sweeps, the later write releases a claim made since its read
  (`job.server.ts:431`, against `JOB_LIFECYCLE.md:146`).
- The staleness check of an uninstall and the deactivation are separate statements: a
  reinstall in between is undone (`store.server.ts:369`, against
  `f616-critical-elimination.test.ts:117`).
- The redelivery of an uninstall that failed after the store update returns early and
  cancels no job (`store.server.ts:412`, against `docs/remediation/WEBHOOK_RELIABILITY.md:54`).
- A fail transaction that began before a release and commits after the next claim
  sets that claim's job to retrying; until its worker's next heartbeat a third one may execute it
  beside it (`job.server.ts:1080`).
- `requeueDeadLetterJob` checks the status outside of its transaction, so a second
  requeue resets a job that a worker has claimed (`JOB_LIFECYCLE.md:43`), or one that has
  completed meanwhile: with two operators `CompletedNeverReruns` fails without any fault.
- A job that kills its worker is released and claimed again beyond `maxAttempts`
  (`JOB_LIFECYCLE.md:20`); `AttemptsAccounted` says how far.
- The bootstrap may create the trial after the uninstall has terminated the
  subscription (`billing.server.ts:412`).
- An error between the trial row and `firstTrialStartedAt` allows a second trial
  (`billing.server.ts:270`); `OneTrial` holds without such an error.
- Retention selects dead letters by `completedAt`, which they do not have
  (`docs/audit/DATA_CLASSIFICATION.md:23`).

Onboarding:

- One failed heartbeat during a successful handler is thrown after the finalizer has
  committed; the ownership conflict it leads to clears `currentJobId`, the job of the next phase cannot
  start, and after its attempts the onboarding has failed (`worker.server.ts:220`,
  against `docs/JOB_LIFECYCLE.md:159`).
- `markPhaseCompleted`, `markPhaseBlocked` and the ownership repair commit their
  update before they advance: after a crash in between only another authentication, resume or job
  moves the row on (`onboarding.server.ts:1412`).
- The ownership repair clears the links of all phases but resets only running
  ones: a phase that was queued keeps that status without a job (`onboarding.server.ts:1399`).
- A resume that worked from a row read before another resume, or beside an advance that read the row
  before it, relaunches the phase a second time, and two jobs of it are live (`onboarding.server.ts:1174`);
  a repeated advance creates no second job (`f34-onboarding-state-machine.test.ts:116`).
- An uninstall that commits between the lookup of a job (`onboarding.server.ts:731`) and the link
  (`onboarding.server.ts:767`) cancels the job and resets the row, and the link then succeeds: the phase is queued
  behind a cancelled job.  The next advance relaunches it, unless a worker's reconciliation comes first and marks it failed.
- An advance that read the row before a finalizer committed finds the job completed and marks the phase
  completed again.  That clears `currentJobId`, which by then names the next job: it cannot start, and after
  its attempts the onboarding has failed without an error of any handler (`onboarding.server.ts:323`).  `Settles`
  holds all the same, because a failure is an end.

Orders:

- A page that is fetched again after a run ended half way through it finds its own rows "stale",
  quarantines them and retries them for ever, so the import never completes (`orders.server.ts:2018`, against
  `docs/infrastructure/QUEUE_AUDIT.md:34`, sync jobs are idempotent by store and cursor).
- An upsert that found its row before the redaction updates it afterwards:
  the update is guarded by the version and not by `privacyRedacted`, so the order's name comes back
  (`orders.server.ts:1442`, against
  `docs/audit/PHASE_B_PRIVACY_SHOPIFY_COMPLIANCE_AUDIT.md:228`).  `RedactionLasts` therefore speaks of
  orders that no pending update names.
- An order that is imported after its customer was redacted is stored as it is.
- `lastOrdersSyncAt` is the end of a sync: an order that changed after its page was
  fetched is missed by the next sync unless a webhook brings it.
- An import that the plan blocked resumes on the page it stopped at, whose stored orders are
  quarantined; the same happens to an order retried from the quarantine whose page comes later.

Automation:

- An error after `beginIdempotency` leaves the record in progress and the automation "executing"; a later
  execution is refused as a duplicate, and only a cancellation leads out (`shopify-idempotency.ts:53`;
  a failed verification calls itself retryable, `shopify-verification.ts:103`, but no retry gets past the record).
- The tags are read and the whole list is written two turns later: an edit of the merchant, or the
  tags of another automation, in between are lost (`shopify-product-mutations.ts:32`).
- A verification whose metrics do not satisfy the rules saves "verifying" and throws.  No operation leads out
  of "verifying", not even a second verification with better metrics: it asks for "verifying" first, which
  is no move from "verifying" (`automation-state.ts:10`, `automation-lifecycle.server.ts:138`).
- The entry of a store in `storeQueues` is never removed, because the promise that `finally` returns is not the
  one compared with (`shopify-rate-limit.ts:84`).

Credits and runs:

- The status is read again after the debit: when plan or subscription have changed, the call is refused and its credit is
  gone (`ai-cost-control.server.ts:375`, against `f54-ai-cost-control.test.ts:97`).
- An error or a restart after the row of a run is created leaves it "running" for ever
  (`ai-orchestrator.server.ts:255`, against `app/ai/PLATFORM_V2.md:53`).
- `getCurrentMonthUsage` answers 0 when its query fails, so the check in front of the debit lets every call pass
  (`billing.server.ts:648`); the debit itself still refuses.
- Two runs of one fingerprint that both miss the cache both pay and both call the provider.
- One credit may pay for sixteen calls of the provider: four attempts (`retry-engine.ts:11`), twice
  (`pipeline.ts:139`), twice (`ai-orchestrator.server.ts:303`).
- A conflict that Postgres reports through a raw query is `P2010`, not `P2034`, and is not retried
  (`billing.server.ts:613`).

Catalogue and inventory:

- Reconciliation and archiving ignore versions: an older page archives a newer row, which every later pass at the
  same version then skips (`product.server.ts:1396`, against `f614-high-elimination.test.ts:211`).
- `products/update` passes over a variant that a sync, or a late `products/create`, created from an older version
  after the webhook's read (`product.server.ts:477`) and before its plan check, if that filled the plan: it takes the
  refusal for that of a variant that is not there (`product.server.ts:1465`), is processed, and the row stays old until the next pass.
- A `products/create` that arrives after `products/delete` creates the rows of the deleted product again
  (`product.server.ts:1744`); nothing but another delete webhook removes them.

## 12. Proofs

All theorems are for any sets and bounds that satisfy the assumption named in each module
(`QueueAssumption` .. `CatalogAssumption`): null is no worker, job, delivery, event, row, run or transaction, the
numbers are naturals, attempts, retries, costs and durations are positive, and the sets that are counted are finite.

**`JobQueueProofs`.**  `TypeCorrect` is inductive as it stands.  `QueueInvariant`
proves `IInv`, the conjunction of the type, the three safety invariants and two facts they rest
on: `Shape` (a worker with an open transaction or a control state past the
claim carries a job; a transaction fits its control state) and `FailDecided` (a worker that decided
not to retry did so on a row whose attempts were used up; attempts never
decrease, so the decision stays right whatever commits in between).  `OwnersAreActive`,
`NothingStranded` and `DeadLettersExhausted` follow.  `QueueImplementsLease` maps
every step to `Acquire`, `Revoke`, `Forget`, `Revoke` with `Forget`, or a stutter of
`FencedLease`; it needs `IInv` for the claim, which may take only rows that are waiting
and hence, by `OnlyActiveJobsLocked`, without an owner.  `FencedLeaseProofs!LeaseSafe` proves `Fenced` of the abstract lease,
and `GenerationsFence` carries it over to the queue.

`QueuePulse` adds what time and counting need (`PulseInv`).  A worker is `Sound` while it has neither stalled nor
recorded the loss of a heartbeat; a `Holder` owns the job it carries.  `Beating`: a sound holder's lock is alive,
and one that works has a tick left unless its heartbeat is due or under way; `Tick` waits for both, so
the lock cannot run out (`SoundWorkersKeepLocks`).  `LateFresh`: a transaction that lost its row while open finds
a row whose lock was set since, because no time passes while it is open.  `Current`, `Claimed`, `RetryAllowed` and
`PendingPaid` tie token, attempts and the requeues under way to the row.  On top of it:

- `HealthySpared`: `Spared` says what a sweep that has read the row may still do to it.  The row it read was expired, so
  its holder was not sound, and a claim of the row before the sweep's write needs a retry whose delay is over, which takes
  a tick.  Hence the premise `RetryWaits` (`RetryDelay(n) >= 1`; it holds when the base and the largest delay are positive,
  but the provers have no rule for `^`) and `OneRelease` (of two sweeps with
  the same row the second releases the claim made after the first).
- `AttemptsPaidFor`: the credit of a job is its limit plus two for each fault, uninstall and manual step, less its
  attempts, less two for each requeue under way.  `OneMore`, `TwoMore` and `ThreeMore` say in which states
  the job can be claimed once, twice or three times more before anything else is paid (waiting; active
  without a live worker; a late transaction; a release under way; and their combinations), and
  `Covered` that the credit suffices.  `PaidCovered`, `StillCovered` and the lemmas on claim, failure and requeue take the
  steps that pay, those that keep everything, and those that spend.
- `CompletedStaysCompleted`: `Calm` is what holds while no fault has occurred: an owned job is carried by its
  owner, transactions of two workers never meet on a job, a late transaction finds only cancelled rows, and a
  release or requeue under way names a job nobody touches.  `CompletedIsQuiet` follows: no step has a
  completed job in hand.

The premises on sweeps and operators are state predicates assumed at every state (`[]OneRelease`); any
number of sweeps may scan and release different jobs at the same time.  Both hold of the run
`queue`, which has one of each.  With two operators who read the same dead letter TLC
refutes `CompletedNeverReruns`.

**`StoreLifecycleProofs`, the lease.**  `LeaseInv` adds to the properties: `Busy` (a request has an
event), `LeaseMatches` (an expiry is there exactly when an owner is), `ProcessedFree` (a processed
row is unlocked and its work finished), `Holders` (a request that was
not overrun still owns its row under a live lease, and never has to recheck) and `WorkDone`.  From it follow
`LeaseTypeCorrect`, `AcknowledgedWork`, `WorkIsExclusive`, `LeasesAreReleased` and
`ProcessedWorkStaysDone`.

**`StoreLifecycleProofs`, the store.**  `LifecycleImplementsLease`: every step is a `WebhookLease` step or leaves it
alone, so the theorems about the lease hold of the composition
(`LifecycleAcknowledgedWork`).  `StoreInv` has `Chronology` (no instant is from the future),
`Causality` (which events can be stored or answered), `StepsOfWork`, `Departure`
(what the state looks like after the merchant has left) and `Progress` (how far each
request has come, and that the effect of the steps it has behind it stands).
`UninstallIsEffective` follows from it and from `Holders`.  `TrialInv`, that a granted trial is recorded or about to be
while no error has occurred, gives `TrialsAreSingle`.  `CancelInv` gives `UninstallEndsJobs`: while the only uninstall has
left a job open, no delivery of it is past the cancellation, and either the store is still active or a delivery
is between the deactivation and the cancellation; a second one at work beside it would need an expired lease (`Alone`).

**`OnboardingProofs`.**  `OnboardingInvariant` proves `IInv`, the type with `Shape` (a started step
has read its row; a worker past the claim holds a job; an uninstall cancels jobs that exist), `Runs` (no run
id beyond those drawn is in use, and a run that is not drawn has no job) and `Founds` (the job an advance found is
live, or its phase is past "not_started", or the advance is overtaken).  The transactions have their own lemmas:
`RepairGood`, `EnqueueGood` and `AdvanceGood` say that a transaction keeps a link or drops it, and links only
to a live job behind phases that are done.  `LinksAreLive` and `QueuesInOrder` rest on them; a link of what was found
rests on `Founds`, which is kept because a job ends together with its phase, or in a step that
overtakes (`FoundsKept`).

`JobsAreSingle` and `OnboardingImplementsPipeline` have the premise `Calm`: the environment's events are crashes,
handler errors, authentications and quiet resumes, in any number.  Their invariant is `CalmInv`.
`Agrees` ties row and jobs together: phases are done in order, an open phase is linked to a live job
and every live job is linked by its open phase.  `WorkersOwn` says that a worker at work owns its job, so that
ownership conflicts, repairs and reconciliations do not occur; `RequestsKnow` that a job an advance found belongs to a phase
that has been started, so that its link is refused; `ResumesKnow` that nothing has changed a failed row since a resume
read it.  No uninstall is under way (`Installed`).  The difficulty is the stale rows: `Known(s, row, job)` says what still holds of a
row `s` that was read before (what was done is done; what was open has the same live job or ended as its job
did), `Moves` is what a step may change so that `Known` survives it (`KnownMoves`), and
`AdvanceMoves` shows that an advance from any row of which `Known` holds keeps `Agrees` and is such a step.
`RowStep` says what a step does to the phases; `RowStepCounts` turns it into a step of `Pipeline`.

**`OrderSyncProofs`.**  `IInv` is the type with `PresentPlaced`, `TakenOK` and `FoundOK` (the order a run is
about to write is one of the orders it has left; one it updates is stored), `RunsOK` (no run's cursor
leaves an order of the shop behind: it is stored, quarantined, on the rest of the page, or ahead),
`SavedOK` (the same of the saved cursor) and `PlanOK` (one holder of the billing lock, and room for
the order it writes).  From it follow `CursorsCover`, `ImportsAreComplete`, `PlanIsKept`, `VersionsGrow` and
`RedactionsLast`.  `OrdersImplementReplica` maps every step to one of `Replica` or a stutter.  It needs `Current` besides: what
a run has fetched and what an upsert is about to write are versions Shopify has had, and none is newer than
the clock; the conditional update and the unique key then do the rest.

**`AutomationProofs`.**  `AutomationInvariant` says the same of the saved snapshot and of every snapshot a request
will save (`SnapshotsOK`): ids, approvals and effects are right in both, so it does not matter which is saved last.
`HoldsRecord` and `OneRequest` tie a request to the idempotency record of its automation; `EffectOK`, `SendsOK`
and `Remembered` say what has been sent and that a process that has sent it remembers.  A crash forgets
snapshots and records together.  `SentOnce`, `ApprovedBeforeSent`, `RecordedIsDone` and `SourcesAreSingle` follow.
`AutomationImplementsEffects` maps every step to one of `Effects`.  It needs `EffectsInv` besides: whatever
any snapshot, saved or held, calls executed has a completed idempotency record, and a request that tries its mutation
again has sent it.  So a request that is still calling Shopify has an automation that no snapshot calls
executed, and a save of any of them changes nothing but the records.

**`AiCreditsProofs`.**  `AiCreditsInvariant` is indexed by the step a call is at: `CallsOK` (what it has
paid, and that it called the provider at most as often as the counters of its three loops allow, `MostBefore`), `RunsOK` (what the row of a run says), `CacheOK` (what is
served has a result) and `BudgetOK` (no month exceeds `peak`, and a pending debit was granted a limit below
it).  `Loops` shows
that whichever loop repeats a call leaves room for it below `MostCalls`.
`BudgetIsKept`, `DebitedOnce`, `PaidBeforeProvided` and `RowsAgree` follow.  `AiCreditsImplementPrepaid` maps every
step to one of `Prepaid` or a stutter; it needs `Answered` besides (a result about to be stored was asked for), and the budget
part of the invariant for the commit of a debit, whose limit was read before and is one the store has had.

**`CatalogProofs`.**  Every step that changes rows is an instance of `Writes(n, W, gone)`: the variants of `W` are
written from version `n` over older rows, those of `gone` are archived.  `CatalogInvariant` is the type with
`RowsOffered` (a row's variant belongs to its version), `UpToDate` (a row of the current version has its status
unless it was outrun), `SyncProgress` (what a sync has stored so far is stored) and `ArchivedWasGone`.
`NothingArchivedInVain`, `CompletedSyncs`, `NoRowGoesBack` and `RowsConverge` follow, and `CatalogImplementsReplica`, where `Writes`
refreshes the variants of `W` and keeps the others; `RowsConverge`
also needs that only a reconciliation or a webhook's transaction can end a writer (`WhatEnds`), and says of what a
webhook missed only that its row is then `Overlooked` or as new.

Every safety and action property of the passing runs is stated by a theorem.  Out of the prover's reach, and so
only model-checked, is liveness under fairness and ENABLED: `EveryJobSettles`, `LossNoticed`, `UninstallSettles`,
`Settles` and `RequestsEnd`.

## 13. Not modelled, and what is left

`PROJECT.json` lists every component with its status.  Left out for good: analytics and scoring
(executive dashboard, command center, knowledge, learning, prediction, experiments and root cause are pure
numeric functions over stored facts, without state of their own that interleaves), UI and
formatting, monitoring, scripts, and the Shopify and AI clients (I/O).  They are most of the
repository's lines: a finite model of a score or of a page would say nothing that its unit tests do not.

Worth modelling next, in this order:

1. `WorkerRuntime`: draining, signals and registry rows.  The SIGTERM handler of the database client
   (`packages/database/client.ts:124`) exits the process while the runtime is still draining; in `JobQueue`
   that is a `Crash`.
2. Inventory: two writers of one quantity, ordered by nothing, and the repair of the `tracked` flag
   (`inventory.server.ts:606`), which may run against a newer page.
3. The lifecycle of recommendations and of the operations queue: the same kind of snapshot as `Automation`.
4. The model router and rate limits of the AI foundation; line items, the data export and the deletion of a
   shop in `Gdpr`.
5. Hazards without a model: two concurrent enqueues of one key (`job.server.ts:376`: the unique violation aborts the
   Postgres transaction, so the `findUnique` that follows fails too); a hung handler, which keeps
   its lease for ever because nothing bounds its running time (`worker.server.ts:218`).
