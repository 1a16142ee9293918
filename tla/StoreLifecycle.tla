--------------------------- MODULE StoreLifecycle ---------------------------
(***************************************************************************)
(* The life of one store: OAuth (afterAuth of shopify.server.ts), the      *)
(* app/uninstalled webhook (store.server.ts), the billing webhook          *)
(* (webhooks.app.subscriptions.update.tsx) and the bootstrap job           *)
(* (after-auth-bootstrap.server.ts), which share the store row, its        *)
(* session, its subscription and its bootstrap job.  The two webhooks go   *)
(* through the processing lease of WebhookLease.                           *)
(*                                                                         *)
(* Rows are keyed by shop, so stores do not interact.  `active' stands for *)
(* store.active and a non-empty store.accessToken, which the modelled code *)
(* always writes together; sub = "cancelled" for a subscription that       *)
(* isSubscriptionTerminated holds of.                                      *)
(***************************************************************************)
EXTENDS WebhookLease

CONSTANTS
  Uninstalls,   \* the app/uninstalled events; the others are billing events
  Charged,      \* billing events whose payload is an active subscription
  Headless,     \* events without an X-Shopify-Triggered-At header
  MaxAuths,     \* bound: authentications
  MaxThrows,    \* bound: errors in afterAuth and in the bootstrap job
  MaxStarts,    \* bound: starts of the bootstrap job by a worker
  MaxTries      \* maxAttempts of the bootstrap job

ASSUME LifecycleAssumption ==
  /\ Uninstalls \subseteq Events /\ Headless \subseteq Uninstalls
  /\ Charged \subseteq Events \ Uninstalls
  /\ MaxAuths \in Nat /\ MaxThrows \in Nat /\ MaxStarts \in Nat
  /\ MaxTries \in Nat \ {0}

VARIABLES
  clock,       \* orders the instants that are compared
  installed,   \* whether the app is installed at Shopify
  trig,        \* when the event was triggered, 0: not yet
  created,     \* createdAt of its webhook_events row
  orphan,      \* uninstall events that found no store row: "no", "found", "done"
  authAt,      \* lastAuthenticatedAt, 0: no store row
  active, sessionAt,            \* store.active; when the session was saved, or 0
  sub, trialUsed,               \* subscription.status; firstTrialStartedAt # null
  job, tries,                   \* status and attempts of the bootstrap job
  auth, step, boot,             \* control: afterAuth, webhook handlers, bootstrap
  auths, starts, throws,        \* bounded counters
  overlap,     \* an uninstall fell into a running authentication
  trials       \* trials granted

shopVars == <<clock, installed, trig, overlap>>
hookVars == <<created, orphan, step>>
authVars == <<authAt, auth, auths>>
subVars == <<sub, trialUsed, trials>>
bootVars == <<job, tries, boot, starts>>
storeVars == <<shopVars, hookVars, authVars, active, sessionAt, subVars,
               bootVars, throws>>
vars == <<leaseVars, storeVars>>

Billing == Events \ Uninstalls
Terminated == {"none", "cancelled"}
Throw == throws < MaxThrows /\ throws' = throws + 1
Settled(e) == e \in acked \/ orphan[e] = "done"

-----------------------------------------------------------------------------
(* The merchant                                                            *)

Install ==
  /\ ~installed
  /\ installed' = TRUE
  /\ UNCHANGED <<leaseVars, clock, trig, overlap, hookVars, authVars, active,
                 sessionAt, subVars, bootVars, throws>>

Trigger(e) ==
  /\ trig[e] = 0
  /\ clock' = clock + 1
  /\ trig' = [trig EXCEPT ![e] = clock + 1]
  /\ UNCHANGED <<leaseVars, hookVars, authVars, active, sessionAt, subVars,
                 bootVars, throws>>

Uninstall(e) ==
  /\ e \in Uninstalls /\ installed
  /\ Trigger(e)
  /\ installed' = FALSE
  /\ overlap' = (overlap \/ auth # "idle")

\* Shopify also reports the subscription of an app that was uninstalled.
BillingChanges(e) ==
  /\ e \in Billing /\ (installed \/ e \notin Charged)
  /\ Trigger(e)
  /\ UNCHANGED <<installed, overlap>>

-----------------------------------------------------------------------------
(* OAuth: the session is stored before afterAuth runs                      *)

AuthBegin ==
  /\ auth = "idle" /\ installed /\ auths < MaxAuths
  /\ auths' = auths + 1
  /\ clock' = clock + 1
  /\ sessionAt' = clock + 1
  /\ auth' = "begun"
  /\ UNCHANGED <<leaseVars, installed, trig, overlap, hookVars, authAt, active,
                 subVars, bootVars, throws>>

\* fetchShopMetadata needs a valid token.
AuthFetch ==
  /\ auth = "begun"
  /\ auth' = IF installed THEN "fetched" ELSE "idle"
  /\ UNCHANGED <<leaseVars, shopVars, hookVars, authAt, auths, active,
                 sessionAt, subVars, bootVars, throws>>

\* The upsert of upsertStoreFromSession, stamped with its own time.
AuthUpsert ==
  /\ auth = "fetched"
  /\ clock' = clock + 1
  /\ authAt' = clock + 1
  /\ active' = TRUE
  /\ auth' = "saved"
  /\ UNCHANGED <<leaseVars, installed, trig, overlap, hookVars, auths,
                 sessionAt, subVars, job, tries, boot, starts, throws>>

\* enqueueJob under the constant key post-auth:bootstrap:<storeId>.
AuthSchedule ==
  /\ auth = "saved"
  /\ job' = IF job = "none" THEN "open" ELSE job
  /\ auth' = "idle"
  /\ UNCHANGED <<leaseVars, shopVars, hookVars, authAt, auths, active,
                 sessionAt, subVars, tries, boot, starts, throws>>

\* afterAuth logs its errors and returns.
AuthFail ==
  /\ auth # "idle"
  /\ Throw
  /\ auth' = "idle"
  /\ UNCHANGED <<leaseVars, shopVars, hookVars, authAt, auths, active,
                 sessionAt, subVars, bootVars>>

-----------------------------------------------------------------------------
(* Both webhooks, up to the claim                                          *)

Arrive(d, e) ==
  /\ Deliver(d, e) \/ Duplicate(d, e)
  /\ UNCHANGED storeVars

GatedUninstall(d, e) ==   \* mutant
  /\ e \in Uninstalls /\ trig[e] > 0 /\ orphan[e] = "no" /\ active
  /\ Arrive(d, e)

\* lookupStoreForWebhook finds the row ...
UninstallArrives(d, e) ==
  /\ e \in Uninstalls /\ trig[e] > 0 /\ orphan[e] = "no" /\ authAt > 0
  /\ Arrive(d, e)

\* ... or none: handleAppUninstalledWebhook deletes the sessions and answers.
OrphanMoves(e, from, to) ==
  /\ orphan[e] = from
  /\ orphan' = [orphan EXCEPT ![e] = to]
  /\ UNCHANGED <<leaseVars, shopVars, created, step, authVars, active, subVars,
                 bootVars, throws>>

OrphanArrives(e) ==
  /\ e \in Uninstalls /\ trig[e] > 0 /\ authAt = 0
  /\ OrphanMoves(e, "no", "found")
  /\ UNCHANGED sessionAt

OrphanSessions(e) == OrphanMoves(e, "found", "done") /\ sessionAt' = 0

\* gateWebhookEvent answers 503 before the claim while the store is inactive.
BillingArrives(d, e) ==
  /\ e \in Billing /\ trig[e] > 0
  /\ active
  /\ Arrive(d, e)

Claim(d) ==
  \/ FindEvent(d) /\ UNCHANGED storeVars
  \/ FindRaced(d) /\ UNCHANGED storeVars
  \/ Acquire(d) /\ UNCHANGED storeVars
  \/ /\ CreateEvent(d)
     /\ created' = IF event[d] \in stored THEN created
                   ELSE [created EXCEPT ![event[d]] = clock]
     /\ UNCHANGED <<shopVars, orphan, step, authVars, active, sessionAt,
                    subVars, bootVars, throws>>

-----------------------------------------------------------------------------
(* handleAppUninstalledWebhook, after the claim                            *)

\* A handler statement: from one step of the work to another.
Does(d, from, to) ==
  /\ at[d] = "working" /\ step[d] = from
  /\ step' = [step EXCEPT ![d] = to]
  /\ UNCHANGED <<leaseVars, shopVars, created, orphan, authVars, trialUsed,
                 trials, tries, boot, starts, throws>>

Uninstalling(d) == event[d] \in Uninstalls

\* resolveUninstallStaleReferenceAt and isStaleUninstallWebhook.
ReferenceAt(e) == IF e \in Headless THEN created[e] ELSE trig[e]
StaleOnceKnown(e) == authAt > 0   \* mutant
Stale(e) == authAt > ReferenceAt(e)

CheckStale(d) ==
  /\ Uninstalling(d)
  /\ Does(d, "start", IF Stale(event[d]) THEN "done" ELSE "load")
  /\ UNCHANGED <<active, sessionAt, sub, job>>

\* deactivateStoreOnUninstall returns early on a store already deactivated.
LoadStore(d) ==
  /\ Does(d, "load", IF active THEN "deactivate" ELSE "sessions")
  /\ UNCHANGED <<active, sessionAt, sub, job>>

Deactivate(d) ==
  /\ Does(d, "deactivate", "terminate")
  /\ active' = FALSE
  /\ UNCHANGED <<sessionAt, sub, job>>

\* terminateSubscriptionOnUninstall: a read, and an update of live ones.
ReadSubscription(d) ==
  /\ Does(d, "terminate", IF sub \in Terminated THEN "cancel" ELSE "terminating")
  /\ UNCHANGED <<active, sessionAt, sub, job>>

Terminate(d) ==
  /\ Does(d, "terminating", "cancel")
  /\ sub' = "cancelled"
  /\ UNCHANGED <<active, sessionAt, job>>

CancelNothing(d) ==   \* mutant
  /\ Does(d, "cancel", "sessions")
  /\ UNCHANGED <<active, sessionAt, sub, job>>

\* cancelStoreJobsOnUninstall, for the bootstrap job.
CancelJobs(d) ==
  /\ Does(d, "cancel", "sessions")
  /\ job' = IF job = "open" THEN "cancelled" ELSE job
  /\ UNCHANGED <<active, sessionAt, sub>>

DeleteSessions(d) ==
  /\ Does(d, "sessions", "done")
  /\ sessionAt' = 0
  /\ UNCHANGED <<active, sub, job>>

\* handleBillingSubscriptionWebhook: the upsert of syncInternalPlanFromShopify.
SyncPlan(d) ==
  /\ event[d] \in Billing
  /\ Does(d, "start", "done")
  /\ sub' = IF event[d] \in Charged THEN "active" ELSE "cancelled"
  /\ UNCHANGED <<active, sessionAt, job>>

HandlerWork(d) ==
  \/ CheckStale(d) \/ LoadStore(d) \/ Deactivate(d) \/ ReadSubscription(d)
  \/ Terminate(d) \/ CancelJobs(d) \/ DeleteSessions(d) \/ SyncPlan(d)

\* The end of the work, normal or not, and what follows it.
Leave(d) ==
  /\ step' = [step EXCEPT ![d] = "start"]
  /\ UNCHANGED <<shopVars, created, orphan, authVars, active, sessionAt,
                 subVars, bootVars, throws>>

AckFirst(d) ==   \* mutant
  /\ at[d] = "working" /\ step[d] = "done"
  /\ Ack(d)
  /\ Leave(d)
  /\ UNCHANGED <<eventVars, finished, faults, duplicates>>

Answer(d) ==
  \/ step[d] = "done" /\ Finish(d) /\ Leave(d)
  \/ Finalize(d) /\ UNCHANGED storeVars
  \/ Recheck(d) /\ UNCHANGED storeVars
  \/ Release(d) /\ UNCHANGED storeVars

Breaks(d) == (Fails(d) \/ Crash(d)) /\ Leave(d)

LeaseTime ==
  /\ (\E e \in Events : Overrun(e) \/ LapseOrphan(e)) \/ Cleanup
  /\ UNCHANGED storeVars

-----------------------------------------------------------------------------
(* The bootstrap job; stalled workers and the queue itself are in JobQueue *)

\* A statement of the worker, which the uninstall may overtake.
Worker(from) ==
  /\ boot = from
  /\ UNCHANGED <<leaseVars, shopVars, hookVars, authVars, active, sessionAt>>

\* failJob on a job that the worker still owns.
BootFails ==
  /\ boot' = "idle"
  /\ IF job # "open" THEN UNCHANGED <<job, tries>>
     ELSE /\ tries' = tries + 1
          /\ job' = IF tries' >= MaxTries THEN "dead_letter" ELSE "open"
  /\ UNCHANGED subVars

\* resolveStoreExecutionContext needs an active store and a session.
BootStart ==
  /\ Worker("idle") /\ job = "open"
  /\ starts < MaxStarts /\ starts' = starts + 1
  /\ \/ /\ active /\ sessionAt > 0
        /\ boot' = "load"
        /\ UNCHANGED <<subVars, job, tries>>
     \/ /\ ~(active /\ sessionAt > 0)
        /\ BootFails
  /\ UNCHANGED throws

\* runPostAuthBootstrap looks again.
BootLoad ==
  /\ Worker("load")
  /\ boot' = IF active THEN "ensure" ELSE "finish"
  /\ UNCHANGED <<subVars, job, tries, starts, throws>>

\* The reads of ensureSubscriptionForActiveStore.
TrialAgain ==   \* mutant
  IF sub \notin Terminated THEN "finish"
  ELSE IF sub = "none" THEN "createTrial" ELSE "restartTrial"

Entitlement ==
  IF sub \notin Terminated THEN "finish"
  ELSE IF trialUsed
       THEN IF sub = "none" THEN "createCancelled" ELSE "restartCancelled"
       ELSE IF sub = "none" THEN "createTrial" ELSE "restartTrial"

EnsureRead ==
  /\ Worker("ensure")
  /\ boot' = Entitlement
  /\ UNCHANGED <<subVars, job, tries, starts, throws>>

\* Its writes; a create throws when the billing webhook created the row first.
EnsureWrite ==
  \/ /\ \E w \in {"createTrial", "restartTrial"} : Worker(w)
     /\ boot = "restartTrial" \/ sub = "none"
     /\ sub' = "trialing" /\ trials' = trials + 1
     /\ boot' = "mark"
     /\ UNCHANGED <<trialUsed, job, tries, starts, throws>>
  \/ /\ \E w \in {"createCancelled", "restartCancelled"} : Worker(w)
     /\ boot = "restartCancelled" \/ sub = "none"
     /\ sub' = "cancelled"
     /\ boot' = "finish"
     /\ UNCHANGED <<trialUsed, trials, job, tries, starts, throws>>
  \/ /\ \E w \in {"createTrial", "createCancelled"} : Worker(w)
     /\ sub # "none"
     /\ BootFails
     /\ UNCHANGED <<starts, throws>>

\* The separate update of firstTrialStartedAt.
BootMark ==
  /\ Worker("mark")
  /\ trialUsed' = TRUE
  /\ boot' = "finish"
  /\ UNCHANGED <<sub, trials, job, tries, starts, throws>>

BootFinish ==
  /\ Worker("finish")
  /\ boot' = "idle"
  /\ job' = IF job = "open" THEN "completed" ELSE job
  /\ UNCHANGED <<subVars, tries, starts, throws>>

BootThrow ==
  Worker(boot) /\ boot # "idle" /\ Throw /\ BootFails /\ UNCHANGED starts

\* The retention sweep deletes jobs by completedAt, which only completed ones
\* have; the requeueing of a dead letter by an operator is in JobQueue.
Purge ==
  /\ boot = "idle" /\ job = "completed"
  /\ job' = "none" /\ tries' = 0
  /\ UNCHANGED <<leaseVars, shopVars, hookVars, authVars, active, sessionAt,
                 subVars, boot, starts, throws>>

-----------------------------------------------------------------------------
StoreInit ==
  /\ clock = 0 /\ installed = FALSE /\ overlap = FALSE
  /\ trig = [e \in Events |-> 0] /\ created = [e \in Events |-> 0]
  /\ orphan = [e \in Events |-> "no"]
  /\ step = [d \in Deliveries |-> "start"]
  /\ authAt = 0 /\ auth = "idle" /\ auths = 0
  /\ active = FALSE /\ sessionAt = 0
  /\ sub = "none" /\ trialUsed = FALSE /\ trials = 0
  /\ job = "none" /\ tries = 0 /\ boot = "idle"
  /\ starts = 0 /\ throws = 0

Merchant == Install \/ \E e \in Events : Uninstall(e) \/ BillingChanges(e)

Authenticate == AuthFetch \/ AuthUpsert \/ AuthSchedule

Request(d) == Claim(d) \/ HandlerWork(d) \/ Answer(d)

Bootstrap ==
  BootStart \/ BootLoad \/ EnsureRead \/ EnsureWrite \/ BootMark \/ BootFinish

Next ==
  \/ Merchant \/ AuthBegin \/ Authenticate \/ AuthFail
  \/ \E d \in Deliveries, e \in Events :
       UninstallArrives(d, e) \/ BillingArrives(d, e)
  \/ \E e \in Events : OrphanArrives(e) \/ OrphanSessions(e)
  \/ \E d \in Deliveries : Request(d) \/ Breaks(d)
  \/ LeaseTime
  \/ Bootstrap \/ BootThrow \/ Purge

LifecycleInit == LeaseInit /\ StoreInit

LifecycleSpec == LifecycleInit /\ [][Next]_vars

\* Requests and the worker run on, Shopify redelivers uninstalls until they
\* are answered with 200, leases expire and the cleanup cron runs.
LifecycleFairness ==
  /\ WF_vars(Authenticate) /\ WF_vars(Bootstrap)
  /\ WF_vars(LeaseTime /\ faults' = faults) /\ WF_vars(Purge)
  /\ \A d \in Deliveries : WF_vars(Request(d))
  /\ \A e \in Events :
       /\ WF_vars(OrphanArrives(e)) /\ WF_vars(OrphanSessions(e))
       /\ WF_vars(\E d \in Deliveries : Deliver(d, e) /\ UninstallArrives(d, e))

FairLifecycle == LifecycleSpec /\ LifecycleFairness

-----------------------------------------------------------------------------
(* Properties                                                              *)

Steps == {"start", "load", "deactivate", "terminate", "terminating", "cancel",
          "sessions", "done"}
BootSteps == {"idle", "load", "ensure", "createTrial", "restartTrial",
              "createCancelled", "restartCancelled", "mark", "finish"}

\* The type of the state.
LifecycleTypeOK ==
  /\ clock \in Nat /\ installed \in BOOLEAN /\ overlap \in BOOLEAN
  /\ trig \in [Events -> Nat] /\ created \in [Events -> Nat]
  /\ orphan \in [Events -> {"no", "found", "done"}]
  /\ step \in [Deliveries -> Steps]
  /\ authAt \in Nat /\ auth \in {"idle", "begun", "fetched", "saved"}
  /\ auths \in Nat /\ active \in BOOLEAN /\ sessionAt \in Nat
  /\ sub \in {"none", "trialing", "active", "cancelled"}
  /\ trialUsed \in BOOLEAN /\ trials \in Nat
  /\ job \in {"none", "open", "completed", "dead_letter", "cancelled"}
  /\ tries \in Nat /\ boot \in BootSteps
  /\ starts \in Nat /\ throws \in Nat

\* The merchant has left, nobody was in the middle of an authentication when
\* that happened, and every uninstall has been answered.
Gone == /\ ~installed /\ authAt > 0 /\ ~overlap
        /\ \A e \in Uninstalls : trig[e] > 0 => Settled(e)

\* Whatever crashes, expires, is retried or delivered twice, and however often
\* the merchant came back before: once the uninstalls are answered, a store
\* that was left is inactive and has no session.
UninstallTakesEffect == Gone => ~active /\ sessionAt = 0

OneUninstall == \A e, f \in Uninstalls : trig[e] > 0 /\ trig[f] > 0 => e = f

\* ... and its bootstrap job is not waiting to be run, unless a webhook failed
\* half way or two uninstalls were triggered (store.server.ts:412).
UninstallCancelsJobs == Gone /\ faults = 0 /\ OneUninstall => job # "open"

\* A store has one trial, across reinstalls, billing events and the deletion of
\* its old jobs, as long as no error falls between the two writes that grant it.
OneTrial == throws = 0 => trials <= 1

\* Every uninstall is settled in the end.
UninstallSettles == \A e \in Uninstalls : trig[e] > 0 ~> Settled(e)
=============================================================================
