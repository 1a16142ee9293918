------------------------ MODULE StoreLifecycleProofs ------------------------
(***************************************************************************)
(* What holds of the webhook lease and of a store's life for any number of *)
(* events, deliveries, faults and reinstalls.  First the lease by itself:  *)
(* its type, that a 200 means the work was done, that work on one event    *)
(* overlaps only after an expiry, that no answered delivery keeps a lease, *)
(* and that processed work is never started again.  Then the store, whose  *)
(* webhooks use the lease as WebhookLease specifies it, so that all this   *)
(* holds of them; and an uninstall that was answered has taken effect.     *)
(***************************************************************************)
EXTENDS StoreLifecycle, TLAPS

-----------------------------------------------------------------------------
(* The webhook lease                                                       *)

(* The strengthening.  Ownership is what the properties rest on: a delivery *)
(* that has not been overrun still owns its row, under a live lease.        *)

Owning == Handling \cup {"releasing"}

Busy == \A d \in Deliveries :
  at[d] \notin {"free", "dead"} => event[d] \in Events

LeaseMatches == \A e \in Events : lease[e] = "none" <=> owner[e] = Nobody

ProcessedFree ==
  \A e \in Events : processed[e] => owner[e] = Nobody /\ e \in finished

Holders ==
  \A d \in Deliveries :
    at[d] \in Owning \cup {"rechecking"} /\ d \notin overrun =>
      /\ at[d] # "rechecking"
      /\ owner[event[d]] = d /\ lease[event[d]] = "live"

WorkDone ==
  \A d \in Deliveries :
    at[d] \in {"finalizing", "rechecking"} => event[d] \in finished

LeaseInv ==
  /\ LeaseTypeOK
  /\ Busy /\ LeaseMatches /\ ProcessedFree /\ Holders /\ WorkDone
  /\ NoLeakedLease /\ AckedWasDone

-----------------------------------------------------------------------------
LEMMA InitLeaseInv == ASSUME LeaseInit PROVE LeaseInv
  BY WebhookAssumption
  DEF LeaseInit, LeaseInv, LeaseTypeOK, Busy, LeaseMatches, ProcessedFree,
      Holders, WorkDone, NoLeakedLease, AckedWasDone, Owning, Handling, Held,
      Control

LEMMA StepLeaseInv == ASSUME LeaseInv, [LeaseNext]_leaseVars PROVE LeaseInv'
<1> USE WebhookAssumption
    DEF LeaseInv, LeaseTypeOK, Busy, LeaseMatches, ProcessedFree, Holders,
        WorkDone, NoLeakedLease, Held, AckedWasDone, Owning, Handling,
        Control, eventVars, deliveryVars, historyVars, Goto, End, Ack, RetryLater
<1>1. ASSUME NEW d \in Deliveries, NEW e \in Events, Receive(d, e),
             duplicates' \in Nat
      PROVE  LeaseInv'
  BY <1>1 DEF Receive, Fresh
<1>2. ASSUME NEW d \in Deliveries, NEW e \in Events, Deliver(d, e)
      PROVE  LeaseInv'
  BY <1>1, <1>2 DEF Deliver
<1>3. ASSUME NEW d \in Deliveries, NEW e \in Events, Duplicate(d, e)
      PROVE  LeaseInv'
  BY <1>1, <1>3 DEF Duplicate
<1>4. ASSUME NEW d \in Deliveries, FindEvent(d) PROVE LeaseInv'
  BY <1>4 DEF FindEvent
<1>5. ASSUME NEW d \in Deliveries, CreateEvent(d) PROVE LeaseInv'
  BY <1>5 DEF CreateEvent
<1>6. ASSUME NEW d \in Deliveries, FindRaced(d) PROVE LeaseInv'
  BY <1>6 DEF FindRaced
<1>7. ASSUME NEW d \in Deliveries, Acquire(d) PROVE LeaseInv'
  BY <1>7 DEF Acquire, Acquirable, OwnerId
<1>8. ASSUME NEW d \in Deliveries, Finish(d) PROVE LeaseInv'
  BY <1>8 DEF Finish
<1>9. ASSUME NEW d \in Deliveries, Finalize(d) PROVE LeaseInv'
  <2>1. CASE Finalizable(d)
    <3>1. /\ processed' = [processed EXCEPT ![event[d]] = TRUE]
          /\ owner' = [owner EXCEPT ![event[d]] = Nobody]
          /\ lease' = [lease EXCEPT ![event[d]] = "none"]
          /\ at' = [at EXCEPT ![d] = "free"]
          /\ event' = [event EXCEPT ![d] = NoEvent]
          /\ overrun' = overrun \ {d}
          /\ acked' = acked \cup {event[d]}
          /\ UNCHANGED <<stored, finished, faults, duplicates>>
      BY <1>9, <2>1 DEF Finalize, Unlock
    <3>2. event[d] \in Events /\ event[d] \in finished
      BY <1>9 DEF Finalize
    <3>3. owner[event[d]] = d
      BY <2>1 DEF Finalizable
    <3>4. LeaseTypeOK' /\ Busy' /\ LeaseMatches' /\ WorkDone'
      BY <3>1, <3>2
    <3>5. ProcessedFree' /\ AckedWasDone'
      BY <3>1, <3>2
    <3>6. Holders'
      <4> SUFFICES ASSUME NEW c \in Deliveries, c # d,
                          at[c] \in Owning \cup {"rechecking"}, c \notin overrun
                   PROVE  /\ at[c] # "rechecking"
                          /\ owner'[event[c]] = c /\ lease'[event[c]] = "live"
        BY <3>1
      <4>1. event[c] \in Events /\ owner[event[c]] = c
        OBVIOUS
      <4>2. event[c] # event[d]
        BY <4>1, <3>3
      <4>3. QED BY <3>1, <4>1, <4>2
    <3>7. NoLeakedLease'
      <4> SUFFICES ASSUME NEW e \in Events, owner'[e] # Nobody
                   PROVE  \/ /\ at'[owner'[e]] \in Owning
                             /\ event'[owner'[e]] = e
                          \/ at'[owner'[e]] = "dead"
        OBVIOUS
      <4>1. e # event[d] /\ owner'[e] = owner[e]
        BY <3>1, <3>2
      <4>2. owner[e] # d
        BY <4>1, <1>9 DEF Finalize
      <4>3. QED BY <3>1, <4>1, <4>2
    <3>8. QED BY <3>4, <3>5, <3>6, <3>7
  <2>2. CASE ~Finalizable(d)
    BY <1>9, <2>2 DEF Finalize, Finalizable
  <2>3. QED BY <2>1, <2>2
<1>10. ASSUME NEW d \in Deliveries, Recheck(d) PROVE LeaseInv'
  BY <1>10 DEF Recheck, RecheckFindsProcessed
<1>11. ASSUME NEW d \in Deliveries, Release(d) PROVE LeaseInv'
  BY <1>11 DEF Release, Releasable, Finalizable, Unlock
<1>12. ASSUME NEW d \in Deliveries, Fails(d) PROVE LeaseInv'
  BY <1>12 DEF Fails, Fault
<1>13. ASSUME NEW d \in Deliveries, Crash(d) PROVE LeaseInv'
  BY <1>13 DEF Crash, Fault
<1>14. ASSUME NEW e \in Events, Overrun(e) PROVE LeaseInv'
  BY <1>14 DEF Overrun, Fault
<1>15. ASSUME NEW e \in Events, LapseOrphan(e) PROVE LeaseInv'
  BY <1>15 DEF LapseOrphan
<1>16. CASE Cleanup
  BY <1>16 DEF Cleanup
<1>17. CASE UNCHANGED leaseVars
  BY <1>17 DEF leaseVars
<1>18. QED
  BY <1>2, <1>3, <1>4, <1>5, <1>6, <1>7, <1>8, <1>9, <1>10, <1>11, <1>12,
     <1>13, <1>14, <1>15, <1>16, <1>17
  DEF LeaseNext, HandlerStep

\* The strengthened invariant holds in every reachable state.
THEOREM LeaseInvariant == Spec => []LeaseInv
<1>1. LeaseInit => LeaseInv BY InitLeaseInv
<1>2. LeaseInv /\ [LeaseNext]_leaseVars => LeaseInv' BY StepLeaseInv
<1>3. QED BY <1>1, <1>2, PTL DEF Spec

\* Type correctness.
THEOREM LeaseTypeCorrect == Spec => []LeaseTypeOK
<1>1. LeaseInv => LeaseTypeOK BY DEF LeaseInv
<1>2. QED BY <1>1, LeaseInvariant, PTL

\* A 200 means that the work of the event was completed.
THEOREM AcknowledgedWork == Spec => []AckedWasDone
<1>1. LeaseInv => AckedWasDone BY DEF LeaseInv
<1>2. QED BY <1>1, LeaseInvariant, PTL

\* Work on one event overlaps only after the lease of one delivery expired:
\* two deliveries that were not overrun would both own the same row.
THEOREM WorkIsExclusive == Spec => []SingleFlight
<1>1. LeaseInv => SingleFlight
  BY DEF LeaseInv, Holders, Owning, Handling, SingleFlight
<1>2. QED BY <1>1, LeaseInvariant, PTL

\* Whoever answered has left no lease behind.
THEOREM LeasesAreReleased == Spec => []NoLeakedLease
<1>1. LeaseInv => NoLeakedLease BY DEF LeaseInv
<1>2. QED BY <1>1, LeaseInvariant, PTL

\* Only a claim starts the work, and it claims unprocessed rows only.
THEOREM ProcessedWorkStaysDone == Spec => ProcessedIsFinal
<1> DEFINE Final == \A d \in Deliveries :
      at[d] # "working" /\ at'[d] = "working" => ~processed[event[d]]
<1>1. ASSUME LeaseInv, [LeaseNext]_leaseVars PROVE [Final]_leaseVars
  <2> SUFFICES ASSUME NEW d \in Deliveries,
                      at[d] # "working", at'[d] = "working"
               PROVE  ~processed[event[d]]
    OBVIOUS
  <2>1. at \in [Deliveries -> Control]
    BY <1>1 DEF LeaseInv, LeaseTypeOK
  <2>2. CASE Acquire(d)
    BY <2>1, <2>2 DEF Acquire, Acquirable, RetryLater, End, Goto
  <2>3. CASE ~Acquire(d)
    BY <1>1, <2>1, <2>3
    DEF LeaseNext, leaseVars, deliveryVars, HandlerStep, Deliver, Duplicate,
        Receive, FindEvent, CreateEvent, FindRaced, Acquire, Finish, Finalize,
        Recheck, Release, Fails, Crash, Overrun, LapseOrphan, Cleanup, Goto,
        End, Ack, RetryLater
  <2>4. QED BY <2>2, <2>3
<1>2. QED BY <1>1, LeaseInvariant, PTL DEF Spec, ProcessedIsFinal

-----------------------------------------------------------------------------
(* The life of the store                                                   *)

USE WebhookAssumption, LifecycleAssumption

(* The strengthening.  Every instant recorded is in the past.               *)

Chronology ==
  /\ authAt <= clock /\ sessionAt <= clock
  /\ \A e \in Events : trig[e] <= clock

\* Nothing happens with an event before it was triggered, and the row of a
\* claimed event was created after that.
Causality ==
  /\ \A d \in Deliveries : event[d] \in Events => trig[event[d]] > 0
  /\ \A e \in Events :
       /\ e \in stored => trig[e] > 0 /\ created[e] >= trig[e]
       /\ e \in finished \/ orphan[e] # "no" => trig[e] > 0
  /\ \A d \in Deliveries :
       at[d] \in {"raced", "acquiring", "working"} => event[d] \in stored

\* A handler's steps belong to its work.
StepsOfWork == \A d \in Deliveries : at[d] # "working" => step[d] = "start"

\* A store that was left was left after its last authentication.
Departure ==
  /\ authAt = 0 => ~active
  /\ ~overlap /\ auth # "idle" => installed
  /\ ~installed /\ ~overlap /\ authAt > 0 =>
       \E e \in Uninstalls : trig[e] > authAt /\ trig[e] > sessionAt

\* What an uninstall has achieved, first for the store row, then altogether.
Deactivated(e) == authAt > trig[e] \/ ~active
Effective(e) ==
  \/ authAt > trig[e]
  \/ ~active /\ (sessionAt = 0 \/ sessionAt > trig[e])

Progress ==
  /\ \A d \in Deliveries :
       event[d] \in Uninstalls =>
         /\ step[d] \in {"terminate", "terminating", "cancel", "sessions"}
              => Deactivated(event[d])
         /\ step[d] = "done" => Effective(event[d])
  /\ \A e \in Uninstalls :
       /\ orphan[e] = "found" => Deactivated(e)
       /\ e \in finished \/ orphan[e] = "done" => Effective(e)

StoreInv ==
  /\ LifecycleTypeOK
  /\ Chronology /\ Causality /\ StepsOfWork /\ Departure /\ Progress

-----------------------------------------------------------------------------
LEMMA StepIsLeaseStep == Next => [LeaseNext]_leaseVars
<1> SUFFICES ASSUME Next PROVE LeaseNext \/ UNCHANGED leaseVars
  OBVIOUS
<1>1. CASE Merchant
  BY <1>1 DEF Merchant, Install, Uninstall, BillingChanges, Trigger
<1>2. CASE AuthBegin \/ Authenticate \/ AuthFail
  BY <1>2 DEF Authenticate, AuthBegin, AuthFetch, AuthUpsert, AuthSchedule, AuthFail
<1>3. ASSUME NEW d \in Deliveries, NEW e \in Events,
             UninstallArrives(d, e) \/ BillingArrives(d, e)
      PROVE  LeaseNext
  BY <1>3 DEF UninstallArrives, BillingArrives, Arrive, LeaseNext
<1>4. ASSUME NEW e \in Events, OrphanArrives(e) \/ OrphanSessions(e)
      PROVE  UNCHANGED leaseVars
  BY <1>4 DEF OrphanArrives, OrphanSessions, OrphanMoves
<1>5. ASSUME NEW d \in Deliveries, Request(d)
      PROVE  LeaseNext \/ UNCHANGED leaseVars
  <2>1. CASE Claim(d)
    BY <2>1 DEF Claim, LeaseNext, HandlerStep
  <2>2. CASE HandlerWork(d)
    BY <2>2 DEF HandlerWork, CheckStale, LoadStore, Deactivate, ReadSubscription,
                Terminate, CancelJobs, DeleteSessions, SyncPlan, Does
  <2>3. CASE Answer(d)
    BY <2>3 DEF Answer, LeaseNext, HandlerStep
  <2>4. QED BY <1>5, <2>1, <2>2, <2>3 DEF Request
<1>6. ASSUME NEW d \in Deliveries, Breaks(d) PROVE LeaseNext
  BY <1>6 DEF Breaks, LeaseNext
<1>7. CASE LeaseTime
  BY <1>7 DEF LeaseTime, LeaseNext
<1>8. CASE Bootstrap \/ BootThrow \/ Purge
  BY <1>8 DEF Bootstrap, BootStart, BootLoad, EnsureRead, EnsureWrite, BootMark,
              BootFinish, BootThrow, Purge, Worker
<1>9. QED BY <1>1, <1>2, <1>3, <1>4, <1>5, <1>6, <1>7, <1>8 DEF Next

\* The webhooks of a store use the lease as WebhookLease says: every step of
\* the composition is a step of the lease or leaves it alone.
THEOREM LifecycleImplementsLease == LifecycleSpec => Spec
<1>1. [Next]_vars => [LeaseNext]_leaseVars
  BY StepIsLeaseStep DEF vars
<1>2. QED BY <1>1, PTL DEF LifecycleSpec, LifecycleInit, Spec

-----------------------------------------------------------------------------
LEMMA InitStoreInv == ASSUME LeaseInit, StoreInit PROVE StoreInv
<1> USE DEF LeaseInit, StoreInit
<1>1. LifecycleTypeOK BY DEF LifecycleTypeOK, Steps, BootSteps
<1>2. Chronology /\ Departure BY DEF Chronology, Departure
<1>3. Causality /\ StepsOfWork BY DEF Causality, StepsOfWork
<1>4. Progress BY DEF Progress
<1>5. QED BY <1>1, <1>2, <1>3, <1>4 DEF StoreInv

\* The merchant, OAuth and the bootstrap job.
LEMMA OutsideStep ==
  ASSUME LeaseInv, StoreInv,
         Merchant \/ AuthBegin \/ Authenticate \/ AuthFail
           \/ Bootstrap \/ BootThrow \/ Purge
  PROVE  StoreInv'
<1> USE DEF StoreInv, LifecycleTypeOK, Chronology, Causality, StepsOfWork,
            Departure, Progress, Effective, Deactivated, leaseVars, eventVars,
            deliveryVars, historyVars, hookVars, authVars, subVars, bootVars,
            shopVars, LeaseInv, LeaseTypeOK
<1>1. CASE Install BY <1>1 DEF Install
<1>2. ASSUME NEW e \in Events, Uninstall(e) PROVE StoreInv'
  <2> USE <1>2 DEF Uninstall, Trigger
  <2>1. /\ trig[e] = 0 /\ clock' = clock + 1 /\ installed' = FALSE
        /\ trig' = [trig EXCEPT ![e] = clock + 1]
        /\ overlap' = (overlap \/ auth # "idle")
        /\ UNCHANGED <<leaseVars, hookVars, authVars, active, sessionAt,
                       subVars, bootVars, throws>>
        /\ e \in Uninstalls
    OBVIOUS
  <2> HIDE <1>2 DEF Uninstall, Trigger
  <2>2. LifecycleTypeOK'
    <3>1. overlap' \in BOOLEAN BY <2>1, Zenon
    <3>2. clock' \in Nat /\ trig' \in [Events -> Nat]
      BY <2>1
    <3>3. installed' \in BOOLEAN
      BY <2>1, Zenon
    <3>4. QED BY <2>1, <3>1, <3>2, <3>3
  <2>3. Chronology' BY <2>1
  <2>4. Causality' BY <2>1
  <2>5. StepsOfWork' BY <2>1
  <2>6. Departure'
    <3>1. trig'[e] > authAt' /\ trig'[e] > sessionAt' BY <2>1
    <3>2. QED BY <2>1, <3>1
  <2>7. Progress' BY <2>1
  <2>8. QED BY <2>2, <2>3, <2>4, <2>5, <2>6, <2>7
<1>3. ASSUME NEW e \in Events, BillingChanges(e) PROVE StoreInv'
  <2> USE <1>3 DEF BillingChanges, Trigger, Billing
  <2>1. LifecycleTypeOK' /\ Chronology' /\ StepsOfWork' OBVIOUS
  <2>2. Causality' OBVIOUS
  <2>3. Departure' OBVIOUS
  <2>4. Progress' OBVIOUS
  <2>5. QED BY <2>1, <2>2, <2>3, <2>4
<1>4. CASE AuthBegin BY <1>4 DEF AuthBegin
<1>5. CASE AuthFetch BY <1>5 DEF AuthFetch
<1>6. CASE AuthUpsert BY <1>6 DEF AuthUpsert
<1>7. CASE AuthSchedule BY <1>7 DEF AuthSchedule
<1>8. CASE AuthFail BY <1>8 DEF AuthFail, Throw
<1>9. CASE Bootstrap \/ BootThrow \/ Purge
  <2>1. LifecycleTypeOK'
    <3> USE DEF Worker, BootFails, BootSteps
    <3>1. CASE BootStart \/ BootLoad BY <3>1 DEF BootStart, BootLoad
    <3>2. CASE EnsureRead BY <3>2 DEF EnsureRead, Entitlement
    <3>3. CASE EnsureWrite BY <3>3 DEF EnsureWrite
    <3>4. CASE BootMark \/ BootFinish
      <4>1. CASE BootMark BY <4>1 DEF BootMark
      <4>2. CASE BootFinish BY <4>2 DEF BootFinish
      <4>3. QED BY <3>4, <4>1, <4>2
    <3>5. CASE BootThrow \/ Purge BY <3>5 DEF BootThrow, Purge, Throw
    <3>6. QED BY <1>9, <3>1, <3>2, <3>3, <3>4, <3>5 DEF Bootstrap
  <2>2. UNCHANGED <<leaseVars, shopVars, hookVars, authVars, active, sessionAt>>
    BY <1>9 DEF Bootstrap, BootStart, BootLoad, EnsureRead, EnsureWrite,
      BootMark, BootFinish, BootThrow, Purge, Worker
  <2>3. QED BY <2>1, <2>2
<1>10. QED
  BY <1>1, <1>2, <1>3, <1>4, <1>5, <1>6, <1>7, <1>8, <1>9
  DEF Merchant, Authenticate

\* Deliveries, orphans and the claim.
LEMMA ClaimStep ==
  ASSUME LeaseInv, StoreInv,
         \/ \E d \in Deliveries, e \in Events :
              UninstallArrives(d, e) \/ BillingArrives(d, e)
         \/ \E e \in Events : OrphanArrives(e) \/ OrphanSessions(e)
         \/ \E d \in Deliveries : Claim(d)
  PROVE  StoreInv'
<1> USE DEF StoreInv, LifecycleTypeOK, Chronology, Causality, StepsOfWork,
            Departure, Progress, Effective, Deactivated, leaseVars, eventVars,
            deliveryVars, historyVars, hookVars, authVars, subVars, bootVars,
            shopVars, storeVars, LeaseInv, LeaseTypeOK, Goto, End
<1>1. ASSUME NEW d \in Deliveries, NEW e \in Events,
             UninstallArrives(d, e) \/ BillingArrives(d, e)
      PROVE  StoreInv'
  BY <1>1 DEF UninstallArrives, BillingArrives, Arrive, Deliver, Duplicate,
              Receive, Fresh
<1>2. ASSUME NEW e \in Events, OrphanArrives(e) PROVE StoreInv'
  BY <1>2 DEF OrphanArrives, OrphanMoves
<1>3. ASSUME NEW e \in Events, OrphanSessions(e) PROVE StoreInv'
  BY <1>3 DEF OrphanSessions, OrphanMoves
<1>4. ASSUME NEW d \in Deliveries, FindEvent(d) \/ FindRaced(d),
             UNCHANGED storeVars
      PROVE  StoreInv'
  BY <1>4 DEF FindEvent, FindRaced, Ack
<1>5. ASSUME NEW d \in Deliveries, Acquire(d), UNCHANGED storeVars
      PROVE  StoreInv'
  BY <1>5 DEF Acquire, RetryLater
<1>6. ASSUME NEW d \in Deliveries, CreateEvent(d), Claim(d) PROVE StoreInv'
  BY <1>6 DEF CreateEvent, Claim, FindEvent, FindRaced, Acquire
<1>7. QED BY <1>1, <1>2, <1>3, <1>4, <1>5, <1>6 DEF Claim

\* The work of a webhook.
LEMMA WorkStep ==
  ASSUME LeaseInv, StoreInv, NEW d \in Deliveries, HandlerWork(d)
  PROVE  StoreInv'
<1> DEFINE Kept == <<leaseVars, shopVars, created, orphan, authVars, trialUsed,
                     trials, tries, boot, starts, throws>>
<1> USE DEF StoreInv, LifecycleTypeOK, Chronology, Causality, StepsOfWork,
            Departure, Progress, Effective, Deactivated, leaseVars, eventVars,
            deliveryVars, historyVars, authVars, shopVars, LeaseInv, LeaseTypeOK,
            Does, Steps, Uninstalling
<1>1. CASE CheckStale(d)
  <2>1. event[d] \in Events /\ event[d] \in stored BY <1>1 DEF CheckStale
  <2>2. trig[event[d]] <= ReferenceAt(event[d])
    BY <2>1 DEF ReferenceAt
  <2>3. Stale(event[d]) => authAt > trig[event[d]]
    BY <2>1, <2>2 DEF Stale, ReferenceAt
  <2>4. QED BY <1>1, <2>1, <2>3 DEF CheckStale
<1>2. CASE LoadStore(d) BY <1>2 DEF LoadStore
<1>3. CASE Deactivate(d) BY <1>3 DEF Deactivate
<1>4. CASE ReadSubscription(d) BY <1>4 DEF ReadSubscription
<1>5. CASE Terminate(d) BY <1>5 DEF Terminate
<1>6. CASE CancelJobs(d) BY <1>6 DEF CancelJobs
<1>7. CASE DeleteSessions(d) BY <1>7 DEF DeleteSessions
<1>8. CASE SyncPlan(d) BY <1>8 DEF SyncPlan, Billing
<1>9. QED BY <1>1, <1>2, <1>3, <1>4, <1>5, <1>6, <1>7, <1>8 DEF HandlerWork

\* The end of a delivery, and the leases' time.
LEMMA EndStep ==
  ASSUME LeaseInv, StoreInv,
         \/ \E d \in Deliveries : Answer(d) \/ Breaks(d)
         \/ LeaseTime
  PROVE  StoreInv'
<1> USE DEF StoreInv, LifecycleTypeOK, Chronology, Causality, StepsOfWork,
            Departure, Progress, Effective, Deactivated, leaseVars, eventVars,
            deliveryVars, historyVars, hookVars, authVars, subVars, bootVars,
            shopVars, storeVars, LeaseInv, LeaseTypeOK, Steps, Goto, End
<1>1. ASSUME NEW d \in Deliveries, step[d] = "done", Finish(d), Leave(d)
      PROVE  StoreInv'
  BY <1>1 DEF Finish, Leave
<1>2. ASSUME NEW d \in Deliveries, Finalize(d), UNCHANGED storeVars
      PROVE  StoreInv'
  BY <1>2 DEF Finalize, Ack, Unlock
<1>3. ASSUME NEW d \in Deliveries, Recheck(d) \/ Release(d),
             UNCHANGED storeVars
      PROVE  StoreInv'
  BY <1>3 DEF Recheck, Release, Ack, RetryLater
<1>4. ASSUME NEW d \in Deliveries, Breaks(d) PROVE StoreInv'
  BY <1>4 DEF Breaks, Fails, Crash, Leave
<1>5. CASE LeaseTime
  BY <1>5 DEF LeaseTime, Overrun, LapseOrphan, Cleanup
<1>6. QED BY <1>1, <1>2, <1>3, <1>4, <1>5 DEF Answer

LEMMA StepStoreInv ==
  ASSUME LeaseInv, StoreInv, [Next]_vars PROVE StoreInv'
<1>1. CASE Next
  BY <1>1, OutsideStep, ClaimStep, WorkStep, EndStep DEF Next, Request
<1>2. CASE UNCHANGED vars
  BY <1>2
  DEF vars, leaseVars, eventVars, deliveryVars, historyVars, storeVars, hookVars,
      authVars, subVars, bootVars, shopVars, StoreInv, LifecycleTypeOK,
      Chronology, Causality, StepsOfWork, Departure, Progress, Effective,
      Deactivated
<1>3. QED BY <1>1, <1>2

\* The strengthened invariant of the store, beside that of the lease.
THEOREM StoreInvariant == LifecycleSpec => []StoreInv
<1>1. LeaseInit /\ StoreInit => StoreInv BY InitStoreInv
<1>2. LeaseInv /\ StoreInv /\ [Next]_vars => StoreInv' BY StepStoreInv
<1>3. QED
  BY <1>1, <1>2, LifecycleImplementsLease, LeaseInvariant, PTL DEF LifecycleSpec, LifecycleInit

\* Type correctness.
THEOREM LifecycleTypeCorrect == LifecycleSpec => []LifecycleTypeOK
<1>1. StoreInv => LifecycleTypeOK BY DEF StoreInv
<1>2. QED BY <1>1, StoreInvariant, PTL

\* A store that the merchant left is inactive and has no session, once every
\* uninstall has been answered: the last one was triggered after the last
\* authentication, and answering it has taken effect.
THEOREM UninstallIsEffective == LifecycleSpec => []UninstallTakesEffect
<1>1. LeaseInv /\ StoreInv => UninstallTakesEffect
  <2> SUFFICES ASSUME LeaseInv, StoreInv, Gone PROVE ~active /\ sessionAt = 0
    BY DEF UninstallTakesEffect
  <2>1. PICK e \in Uninstalls : trig[e] > authAt /\ trig[e] > sessionAt
    BY DEF StoreInv, Departure, Gone
  <2>2. trig[e] \in Nat /\ authAt \in Nat /\ sessionAt \in Nat
    BY DEF StoreInv, LifecycleTypeOK
  <2>3. Settled(e)
    BY <2>1, <2>2 DEF Gone
  <2>4. Effective(e)
    BY <2>3 DEF Settled, LeaseInv, AckedWasDone, StoreInv, Progress
  <2>5. QED BY <2>1, <2>2, <2>4 DEF Effective
<1>2. QED
  BY <1>1, StoreInvariant, LifecycleImplementsLease, LeaseInvariant, PTL

\* What is proved of the lease holds of the store's webhooks; for one: a 200
\* means that the work of the event was completed.
THEOREM LifecycleAcknowledgedWork == LifecycleSpec => []AckedWasDone
BY LifecycleImplementsLease, AcknowledgedWork, PTL

-----------------------------------------------------------------------------
(* One trial                                                               *)

\* While no error has occurred, a granted trial is recorded or about to be, and
\* none is granted yet when the bootstrap is about to grant one.
Granting == {"createTrial", "restartTrial"}
TrialInv == throws = 0 =>
  /\ trials = 0 \/ (trials = 1 /\ (trialUsed \/ boot = "mark"))
  /\ boot \in Granting => trials = 0

\* Only the bootstrap touches what TrialInv speaks of.
NoTrialStep == UNCHANGED <<trials, trialUsed, boot>> /\ (throws' = 0 => throws = 0)

LEMMA TrialKept == ASSUME TrialInv, NoTrialStep PROVE TrialInv'
BY DEF TrialInv, NoTrialStep

LEMMA OthersGrantNothing ==
  ASSUME StoreInv,
         \/ Merchant \/ AuthBegin \/ Authenticate \/ AuthFail \/ LeaseTime \/ Purge
         \/ \E d \in Deliveries, e \in Events :
              UninstallArrives(d, e) \/ BillingArrives(d, e)
         \/ \E e \in Events : OrphanArrives(e) \/ OrphanSessions(e)
         \/ \E d \in Deliveries : Request(d) \/ Breaks(d)
         \/ UNCHANGED vars
  PROVE  NoTrialStep
<1> USE DEF NoTrialStep, vars, storeVars, subVars, bootVars
<1>1. throws \in Nat BY DEF StoreInv, LifecycleTypeOK
<1>2. CASE Merchant BY <1>2 DEF Merchant, Install, Uninstall, BillingChanges, Trigger
<1>3. CASE AuthBegin \/ Authenticate
  BY <1>3 DEF AuthBegin, Authenticate, AuthFetch, AuthUpsert, AuthSchedule
<1>4. CASE AuthFail BY <1>1, <1>4 DEF AuthFail, Throw
<1>5. CASE LeaseTime \/ Purge BY <1>5 DEF LeaseTime, Purge
<1>6. ASSUME NEW d \in Deliveries, NEW e \in Events,
             UninstallArrives(d, e) \/ BillingArrives(d, e)
      PROVE  NoTrialStep
  BY <1>6 DEF UninstallArrives, BillingArrives, Arrive
<1>7. ASSUME NEW e \in Events, OrphanArrives(e) \/ OrphanSessions(e) PROVE NoTrialStep
  BY <1>7 DEF OrphanArrives, OrphanSessions, OrphanMoves
<1>8. ASSUME NEW d \in Deliveries, Claim(d) PROVE NoTrialStep
  BY <1>8 DEF Claim
<1>9. ASSUME NEW d \in Deliveries, HandlerWork(d) PROVE NoTrialStep
  BY <1>9 DEF HandlerWork, Does, CheckStale, LoadStore, Deactivate, ReadSubscription,
              Terminate, CancelJobs, DeleteSessions, SyncPlan
<1>10. ASSUME NEW d \in Deliveries, Answer(d) \/ Breaks(d) PROVE NoTrialStep
  BY <1>10 DEF Answer, Breaks, Leave
<1>11. CASE UNCHANGED vars BY <1>11
<1>12. QED
  BY <1>2, <1>3, <1>4, <1>5, <1>6, <1>7, <1>8, <1>9, <1>10, <1>11 DEF Request

LEMMA StepTrialInv == ASSUME StoreInv, TrialInv, [Next]_vars PROVE TrialInv'
<1> USE DEF Worker, BootFails
<1>1. throws \in Nat BY DEF StoreInv, LifecycleTypeOK
<1>2. CASE BootStart BY <1>2 DEF BootStart, TrialInv, Granting, subVars
<1>3. CASE BootLoad BY <1>3 DEF BootLoad, TrialInv, Granting, subVars
<1>4. CASE EnsureRead BY <1>4 DEF EnsureRead, Entitlement, TrialInv, Granting, subVars
<1>5. CASE EnsureWrite BY <1>5 DEF EnsureWrite, TrialInv, Granting, subVars
<1>6. CASE BootMark BY <1>6 DEF BootMark, TrialInv, Granting
<1>7. CASE BootFinish BY <1>7 DEF BootFinish, TrialInv, Granting, subVars
<1>8. CASE BootThrow BY <1>1, <1>8 DEF BootThrow, Throw, TrialInv
<1>9. CASE NoTrialStep BY <1>9, TrialKept
<1>10. QED
  BY <1>2, <1>3, <1>4, <1>5, <1>6, <1>7, <1>8, <1>9, OthersGrantNothing DEF Next, Bootstrap

\* A store is granted one trial, across any number of reinstalls, billing events
\* and bootstrap jobs, while no error falls between the trial and its record.
THEOREM TrialsAreSingle == LifecycleSpec => []OneTrial
<1>1. LifecycleInit => TrialInv BY DEF LifecycleInit, StoreInit, TrialInv
<1>2. StoreInv /\ TrialInv /\ [Next]_vars => TrialInv' BY StepTrialInv
<1>3. TrialInv => OneTrial BY DEF TrialInv, OneTrial
<1>4. QED BY <1>1, <1>2, <1>3, StoreInvariant, PTL DEF LifecycleSpec

-----------------------------------------------------------------------------
(* The uninstall and the bootstrap job                                     *)

WorksUninstall ==
  \A d \in Deliveries : step[d] \notin {"start", "done"} => event[d] \in Uninstalls

\* An orphan is older than the store row; so is, unless the uninstall fell into
\* it, whatever an authentication in progress may find triggered.
RowIsNewer ==
  \A e \in Uninstalls :
    /\ orphan[e] # "no" => authAt = 0 \/ authAt > trig[e]
    /\ auth = "saved" /\ ~overlap /\ trig[e] > 0 => authAt > trig[e]

ActiveAtFirst == authAt > 0 /\ (\A e \in Uninstalls : trig[e] = 0) => active

\* The only uninstall so far left a store with an open job: its work has not
\* reached the cancellation, or the one delivery beyond the deactivation will.
Cancelling(e) ==
  /\ e \notin finished
  /\ \A d \in Deliveries : event[d] = e => step[d] \notin {"sessions", "done"}
  /\ \/ active
     \/ \E d \in Deliveries :
          event[d] = e /\ step[d] \in {"terminate", "terminating", "cancel"}

OpenAfter(e) == /\ faults = 0 /\ OneUninstall /\ ~overlap
                /\ 0 < authAt /\ authAt < trig[e] /\ job = "open"

CancelInv ==
  /\ faults = 0 => overrun = {}
  /\ WorksUninstall /\ RowIsNewer /\ ActiveAtFirst
  /\ \A e \in Uninstalls : OpenAfter(e) => Cancelling(e)

LEMMA OutsideCancelStep ==
  ASSUME LeaseInv, StoreInv, CancelInv,
         Merchant \/ AuthBegin \/ Authenticate \/ AuthFail
           \/ Bootstrap \/ BootThrow \/ Purge
  PROVE  CancelInv'
<1> USE DEF StoreInv, LifecycleTypeOK, Chronology, Causality, StepsOfWork,
            leaseVars, eventVars, deliveryVars, historyVars, hookVars, authVars,
            subVars, bootVars, shopVars, LeaseInv, LeaseTypeOK, CancelInv,
            WorksUninstall, RowIsNewer, ActiveAtFirst, OpenAfter, Cancelling,
            OneUninstall
<1>1. CASE Install BY <1>1 DEF Install
<1>2. ASSUME NEW e \in Events, Uninstall(e) PROVE CancelInv'
  <2>1. /\ trig[e] = 0 /\ clock' = clock + 1 /\ installed' = FALSE
        /\ trig' = [trig EXCEPT ![e] = clock + 1]
        /\ (~overlap' => ~overlap /\ auth = "idle")
        /\ UNCHANGED <<leaseVars, hookVars, authVars, active, sessionAt,
                       subVars, bootVars, throws>>
        /\ e \in Uninstalls
    BY <1>2 DEF Uninstall, Trigger
  <2>2. ASSUME OneUninstall' PROVE \A f \in Uninstalls : trig[f] = 0
    BY <2>1, <2>2
  <2>3. (\A f \in Uninstalls : OpenAfter(f) => Cancelling(f))'
    <3> SUFFICES ASSUME NEW f \in Uninstalls, OpenAfter(f)' PROVE Cancelling(f)'
      OBVIOUS
    <3>1. f = e BY <2>1, <2>2
    <3>2. active BY <2>1, <2>2
    <3>3. e \notin finished /\ \A d \in Deliveries : event[d] # e BY <2>1
    <3>4. QED BY <2>1, <3>1, <3>2, <3>3
  <2>4. RowIsNewer' BY <2>1
  <2>5. ActiveAtFirst' BY <2>1
  <2>6. QED BY <2>1, <2>3, <2>4, <2>5
<1>3. ASSUME NEW e \in Events, BillingChanges(e) PROVE CancelInv'
  BY <1>3 DEF BillingChanges, Trigger, Billing
<1>4. CASE AuthBegin BY <1>4 DEF AuthBegin
<1>5. CASE AuthFetch BY <1>5 DEF AuthFetch
<1>6. CASE AuthUpsert BY <1>6 DEF AuthUpsert
<1>7. CASE AuthSchedule BY <1>7 DEF AuthSchedule
<1>8. CASE AuthFail BY <1>8 DEF AuthFail, Throw
<1>9. CASE Bootstrap \/ BootThrow \/ Purge
  <2>1. job' = "open" => job = "open"
    BY <1>9 DEF Bootstrap, BootStart, BootLoad, EnsureRead, EnsureWrite,
      BootMark, BootFinish, BootThrow, Purge, BootFails
  <2>2. UNCHANGED <<leaseVars, shopVars, hookVars, authVars, active, sessionAt>>
    BY <1>9 DEF Bootstrap, BootStart, BootLoad, EnsureRead, EnsureWrite,
      BootMark, BootFinish, BootThrow, Purge, Worker
  <2>3. QED BY <2>1, <2>2
<1>10. QED
  BY <1>1, <1>2, <1>3, <1>4, <1>5, <1>6, <1>7, <1>8, <1>9
  DEF Merchant, Authenticate

LEMMA ClaimCancelStep ==
  ASSUME LeaseInv, StoreInv, CancelInv,
         \/ \E d \in Deliveries, e \in Events :
              UninstallArrives(d, e) \/ BillingArrives(d, e)
         \/ \E e \in Events : OrphanArrives(e) \/ OrphanSessions(e)
         \/ \E d \in Deliveries : Claim(d)
  PROVE  CancelInv'
<1> USE DEF StoreInv, LifecycleTypeOK, Chronology, Causality, StepsOfWork,
            leaseVars, eventVars, deliveryVars, historyVars, hookVars, authVars,
            subVars, bootVars, shopVars, storeVars, LeaseInv, LeaseTypeOK,
            CancelInv, WorksUninstall, RowIsNewer, ActiveAtFirst, OpenAfter,
            Cancelling, OneUninstall, Goto, End
<1>1. ASSUME NEW d \in Deliveries, NEW e \in Events,
             UninstallArrives(d, e) \/ BillingArrives(d, e)
      PROVE  CancelInv'
  BY <1>1 DEF UninstallArrives, BillingArrives, Arrive, Deliver, Duplicate,
              Receive, Fresh
<1>2. ASSUME NEW e \in Events, OrphanArrives(e) PROVE CancelInv'
  BY <1>2 DEF OrphanArrives, OrphanMoves
<1>3. ASSUME NEW e \in Events, OrphanSessions(e) PROVE CancelInv'
  BY <1>3 DEF OrphanSessions, OrphanMoves
<1>4. ASSUME NEW d \in Deliveries, FindEvent(d) \/ FindRaced(d),
             UNCHANGED storeVars
      PROVE  CancelInv'
  BY <1>4 DEF FindEvent, FindRaced, Ack
<1>5. ASSUME NEW d \in Deliveries, Acquire(d), UNCHANGED storeVars
      PROVE  CancelInv'
  BY <1>5 DEF Acquire, RetryLater
<1>6. ASSUME NEW d \in Deliveries, CreateEvent(d), Claim(d) PROVE CancelInv'
  BY <1>6 DEF CreateEvent, Claim, FindEvent, FindRaced, Acquire
<1>7. QED BY <1>1, <1>2, <1>3, <1>4, <1>5, <1>6 DEF Claim

\* Without a fault no two deliveries work on one event.
LEMMA Alone ==
  ASSUME LeaseInv, CancelInv, faults = 0, NEW c \in Deliveries, NEW d \in Deliveries,
         at[c] = "working", at[d] = "working", event[c] = event[d]
  PROVE  c = d
BY DEF LeaseInv, CancelInv, Holders, Owning, Handling

LEMMA WorkCancelStep ==
  ASSUME LeaseInv, StoreInv, CancelInv, NEW d \in Deliveries, HandlerWork(d)
  PROVE  CancelInv'
<1> USE DEF StoreInv, LifecycleTypeOK, Chronology, Causality, StepsOfWork,
            leaseVars, eventVars, deliveryVars, historyVars, authVars, shopVars,
            LeaseInv, LeaseTypeOK, CancelInv, WorksUninstall, RowIsNewer,
            ActiveAtFirst, OpenAfter, Cancelling, OneUninstall, Does, Steps,
            Uninstalling
<1>1. CASE CheckStale(d)
  <2>1. event[d] \in Uninstalls /\ event[d] \in stored BY <1>1 DEF CheckStale
  <2>2. Stale(event[d]) => authAt > trig[event[d]]
    BY <2>1 DEF Stale, ReferenceAt
  <2>3. QED BY <1>1, <2>1, <2>2 DEF CheckStale
<1>2. CASE LoadStore(d)
  <2>1. /\ at[d] = "working" /\ step[d] = "load"
        /\ step' = [step EXCEPT ![d] = IF active THEN "deactivate" ELSE "sessions"]
        /\ UNCHANGED <<leaseVars, shopVars, created, orphan, authVars, active,
                       sessionAt, sub, job>>
    BY <1>2 DEF LoadStore
  <2>2. event[d] \in Uninstalls BY <2>1
  <2>3. ASSUME OpenAfter(event[d]), ~active PROVE FALSE
    <3>1. PICK c \in Deliveries : /\ event[c] = event[d]
                                  /\ step[c] \in {"terminate", "terminating", "cancel"}
      BY <2>2, <2>3
    <3>2. at[c] = "working" BY <3>1
    <3>3. c = d BY <2>1, <2>3, <3>1, <3>2, Alone
    <3>4. QED BY <2>1, <3>1, <3>3
  <2>4. WorksUninstall' /\ RowIsNewer' /\ ActiveAtFirst' BY <2>1, <2>2
  <2>5. ASSUME NEW e \in Uninstalls, OpenAfter(e)' PROVE Cancelling(e)'
    <3>1. OpenAfter(e) /\ Cancelling(e) BY <2>1, <2>5
    <3>2. event[d] = e => active BY <2>3, <3>1
    <3>3. QED BY <2>1, <3>1, <3>2
  <2>6. QED BY <2>1, <2>4, <2>5
<1>3. CASE Deactivate(d)
  <2>1. event[d] \in Uninstalls /\ trig[event[d]] > 0 BY <1>3 DEF Deactivate
  <2>2. QED BY <1>3, <2>1 DEF Deactivate
<1>4. CASE ReadSubscription(d) BY <1>4 DEF ReadSubscription
<1>5. CASE Terminate(d) BY <1>5 DEF Terminate
<1>6. CASE CancelJobs(d) BY <1>6 DEF CancelJobs
<1>7. CASE DeleteSessions(d) BY <1>7 DEF DeleteSessions
<1>8. CASE SyncPlan(d) BY <1>8 DEF SyncPlan, Billing
<1>9. QED BY <1>1, <1>2, <1>3, <1>4, <1>5, <1>6, <1>7, <1>8 DEF HandlerWork

LEMMA EndCancelStep ==
  ASSUME LeaseInv, StoreInv, CancelInv,
         \/ \E d \in Deliveries : Answer(d) \/ Breaks(d)
         \/ LeaseTime
  PROVE  CancelInv'
<1> USE DEF StoreInv, LifecycleTypeOK, Chronology, Causality, StepsOfWork,
            leaseVars, eventVars, deliveryVars, historyVars, hookVars, authVars,
            subVars, bootVars, shopVars, storeVars, LeaseInv, LeaseTypeOK,
            CancelInv, WorksUninstall, RowIsNewer, ActiveAtFirst, OpenAfter,
            Cancelling, OneUninstall, Goto, End
<1>1. ASSUME NEW d \in Deliveries, step[d] = "done", Finish(d), Leave(d)
      PROVE  CancelInv'
  BY <1>1 DEF Finish, Leave
<1>2. ASSUME NEW d \in Deliveries, Finalize(d), UNCHANGED storeVars
      PROVE  CancelInv'
  BY <1>2 DEF Finalize, Ack, Unlock
<1>3. ASSUME NEW d \in Deliveries, Recheck(d) \/ Release(d),
             UNCHANGED storeVars
      PROVE  CancelInv'
  BY <1>3 DEF Recheck, Release, Ack, RetryLater
<1>4. ASSUME NEW d \in Deliveries, Breaks(d) PROVE CancelInv'
  BY <1>4 DEF Breaks, Fails, Crash, Leave, Fault
<1>5. CASE LeaseTime
  BY <1>5 DEF LeaseTime, Overrun, LapseOrphan, Cleanup, Fault
<1>6. QED BY <1>1, <1>2, <1>3, <1>4, <1>5 DEF Answer

LEMMA StepCancelInv ==
  ASSUME LeaseInv, StoreInv, CancelInv, [Next]_vars PROVE CancelInv'
<1>1. CASE Next
  BY <1>1, OutsideCancelStep, ClaimCancelStep, WorkCancelStep, EndCancelStep
  DEF Next, Request
<1>2. CASE UNCHANGED vars
  BY <1>2
  DEF vars, leaseVars, eventVars, deliveryVars, historyVars, storeVars, hookVars,
      authVars, subVars, bootVars, shopVars, CancelInv, WorksUninstall, RowIsNewer,
      ActiveAtFirst, OpenAfter, Cancelling, OneUninstall
<1>3. QED BY <1>1, <1>2

\* The bootstrap job of a store that was left does not wait to be run, for any
\* number of deliveries, authentications and errors of the bootstrap, as long as
\* no webhook failed and it is the only uninstall.
THEOREM UninstallEndsJobs == LifecycleSpec => []UninstallCancelsJobs
<1>1. LifecycleInit => CancelInv
  BY DEF LifecycleInit, LeaseInit, StoreInit, CancelInv, WorksUninstall, RowIsNewer,
         ActiveAtFirst, OpenAfter
<1>2. LeaseInv /\ StoreInv /\ CancelInv /\ [Next]_vars => CancelInv'
  BY StepCancelInv
<1>3. LeaseInv /\ StoreInv /\ CancelInv => UninstallCancelsJobs
  <2> SUFFICES ASSUME LeaseInv, StoreInv, CancelInv, Gone, faults = 0, OneUninstall,
                      job = "open"
               PROVE  FALSE
    BY DEF UninstallCancelsJobs
  <2>1. PICK e \in Uninstalls : trig[e] > authAt
    BY DEF StoreInv, Departure, Gone
  <2>2. trig[e] \in Nat /\ authAt \in Nat /\ authAt > 0
    BY DEF StoreInv, LifecycleTypeOK, Gone
  <2>3. Settled(e) BY <2>1, <2>2 DEF Gone
  <2>4. e \notin finished
    BY <2>1, <2>2 DEF CancelInv, OpenAfter, Cancelling, Gone
  <2>5. orphan[e] # "done" BY <2>1, <2>2 DEF CancelInv, RowIsNewer
  <2>6. QED BY <2>3, <2>4, <2>5 DEF Settled, LeaseInv, AckedWasDone
<1>4. QED
  BY <1>1, <1>2, <1>3, StoreInvariant, LifecycleImplementsLease, LeaseInvariant, PTL
  DEF LifecycleSpec
=============================================================================
