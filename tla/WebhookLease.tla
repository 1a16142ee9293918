---------------------------- MODULE WebhookLease ----------------------------
(***************************************************************************)
(* The processing lease of app/services/webhook.server.ts: Shopify         *)
(* delivers every webhook at least once, until it is answered with 200,    *)
(* and the web processes use the row of webhook_events to do its work      *)
(* once.  A delivery claims the row under a fresh owner id with a lease of *)
(* five minutes, does the work, and finalizes the row it still owns.       *)
(*                                                                         *)
(* Each database statement is one step.  A delivery stands for the owner   *)
(* id that its claim draws; time enters as the expiry of a lease.          *)
(***************************************************************************)
EXTENDS Naturals, FiniteSets

CONSTANTS
  Events,          \* X-Shopify-Webhook-Id
  Deliveries,      \* HTTP requests in progress, as slots
  MaxFaults,       \* bound: crashes, errors and overrun leases
  MaxDuplicates,   \* bound: deliveries of an event answered or in progress
  Nobody, NoEvent  \* null

ASSUME WebhookAssumption ==
  /\ Nobody \notin Deliveries
  /\ NoEvent \notin Events
  /\ MaxFaults \in Nat /\ MaxDuplicates \in Nat

VARIABLES
  \* the webhook_events rows
  stored, processed,  \* events with a row; processedSuccessfully
  owner,              \* processingOwner
  lease,              \* processingExpiresAt: null, in the future, or past
  \* the deliveries
  at, event,          \* control state, event being delivered
  overrun,            \* deliveries whose lease expired under their work
  \* what happened
  finished,           \* events whose work a delivery has completed
  acked,              \* events answered with 200
  faults, duplicates

eventVars == <<stored, processed, owner, lease>>
deliveryVars == <<at, event, overrun>>
historyVars == <<finished, acked>>
leaseVars == <<eventVars, deliveryVars, historyVars, faults, duplicates>>

Control == {"free", "dead", "received", "creating", "raced", "acquiring",
            "working", "finalizing", "rechecking", "releasing"}
Handling == {"working", "finalizing"}

Held(e) == /\ at[owner[e]] \in Handling \cup {"releasing"}
           /\ event[owner[e]] = e

InFlight(e) == \E d \in Deliveries :
                 at[d] \notin {"free", "dead"} /\ event[d] = e

Goto(d, pc) == at' = [at EXCEPT ![d] = pc]

End(d, pc) ==
  /\ Goto(d, pc)
  /\ event' = [event EXCEPT ![d] = NoEvent]
  /\ overrun' = overrun \ {d}

Ack(d) == End(d, "free") /\ acked' = acked \cup {event[d]}
RetryLater(d) == End(d, "free") /\ UNCHANGED acked   \* 500 or 503

Fault == faults < MaxFaults /\ faults' = faults + 1

-----------------------------------------------------------------------------
(* Shopify                                                                 *)

\* A new owner id belongs to no row.
Fresh(d) == at[d] \in {"free", "dead"} /\ \A e \in Events : owner[e] # d

Receive(d, e) ==
  /\ Fresh(d)
  /\ Goto(d, "received")
  /\ event' = [event EXCEPT ![d] = e]
  /\ UNCHANGED <<eventVars, overrun, historyVars, faults>>

\* The delivery of an event, and every redelivery after a failed answer.
Deliver(d, e) ==
  /\ e \notin acked /\ ~InFlight(e)
  /\ Receive(d, e)
  /\ UNCHANGED duplicates

\* At-least-once: the same event again, beside or after another delivery.
Duplicate(d, e) ==
  /\ e \in acked \/ InFlight(e)
  /\ duplicates < MaxDuplicates
  /\ duplicates' = duplicates + 1
  /\ Receive(d, e)

-----------------------------------------------------------------------------
(* claimWebhookEvent                                                       *)

\* The first findUnique.
FindEvent(d) ==
  /\ at[d] = "received"
  /\ \/ processed[event[d]] /\ Ack(d)
     \/ /\ ~processed[event[d]]
        /\ Goto(d, IF event[d] \in stored THEN "acquiring" ELSE "creating")
        /\ UNCHANGED <<event, overrun, acked>>
  /\ UNCHANGED <<eventVars, finished, faults, duplicates>>

\* The unique key decides between two first deliveries.
CreateEvent(d) ==
  /\ at[d] = "creating"
  /\ stored' = stored \cup {event[d]}
  /\ Goto(d, IF event[d] \in stored THEN "raced" ELSE "acquiring")
  /\ UNCHANGED <<processed, owner, lease, event, overrun, historyVars, faults,
                 duplicates>>

\* The findUnique after P2002.
FindRaced(d) ==
  /\ at[d] = "raced"
  /\ \/ processed[event[d]] /\ Ack(d)
     \/ /\ ~processed[event[d]]
        /\ Goto(d, "acquiring")
        /\ UNCHANGED <<event, overrun, acked>>
  /\ UNCHANGED <<eventVars, finished, faults, duplicates>>

OwnerId(d) == d               \* crypto.randomUUID()

ReclaimProcessed(e) == owner[e] = Nobody \/ lease[e] # "live"     \* mutant
ReclaimHeld(e) == ~processed[e]                                   \* mutant
Acquirable(e) == ~processed[e] /\ (owner[e] = Nobody \/ lease[e] # "live")

\* acquireWebhookProcessingLease; the read that follows a lost race only words
\* the answer, lease_active or lease_expired, both retryable.
Acquire(d) ==
  /\ at[d] = "acquiring"
  /\ \/ /\ Acquirable(event[d])
        /\ owner' = [owner EXCEPT ![event[d]] = OwnerId(d)]
        /\ lease' = [lease EXCEPT ![event[d]] = "live"]
        /\ Goto(d, "working")
        /\ UNCHANGED <<event, overrun, acked>>
     \/ /\ ~Acquirable(event[d])
        /\ RetryLater(d)
        /\ UNCHANGED <<owner, lease>>
  /\ UNCHANGED <<stored, processed, finished, faults, duplicates>>

-----------------------------------------------------------------------------
(* The handler, markWebhookEventProcessed and releaseWebhookProcessingLease *)

Finish(d) ==
  /\ at[d] = "working"
  /\ Goto(d, "finalizing")
  /\ finished' = finished \cup {event[d]}
  /\ UNCHANGED <<eventVars, event, overrun, acked, faults, duplicates>>

Unlock(e) ==
  /\ owner' = [owner EXCEPT ![e] = Nobody]
  /\ lease' = [lease EXCEPT ![e] = "none"]

Finalizable(d) == ~processed[event[d]] /\ owner[event[d]] = d

Finalize(d) ==
  /\ at[d] = "finalizing"
  /\ \/ /\ Finalizable(d)
        /\ processed' = [processed EXCEPT ![event[d]] = TRUE]
        /\ Unlock(event[d])
        /\ Ack(d)
     \/ /\ ~Finalizable(d)
        /\ Goto(d, "rechecking")
        /\ UNCHANGED <<processed, owner, lease, event, overrun, acked>>
  /\ UNCHANGED <<stored, finished, faults, duplicates>>

RecheckAcks(d) == TRUE   \* mutant
RecheckFindsProcessed(d) == processed[event[d]]

\* Nothing was updated: somebody else finalized the row, or it was taken away.
Recheck(d) ==
  /\ at[d] = "rechecking"
  /\ \/ RecheckFindsProcessed(d) /\ Ack(d)
     \/ /\ ~RecheckFindsProcessed(d)
        /\ Goto(d, "releasing")
        /\ UNCHANGED <<event, overrun, acked>>
  /\ UNCHANGED <<eventVars, finished, faults, duplicates>>

\* The catch block releases what the delivery still owns.
NothingToRelease(d) == FALSE   \* mutant
Releasable(d) == Finalizable(d)

Release(d) ==
  /\ at[d] = "releasing"
  /\ IF Releasable(d) THEN Unlock(event[d]) ELSE UNCHANGED <<owner, lease>>
  /\ RetryLater(d)
  /\ UNCHANGED <<stored, processed, finished, faults, duplicates>>

-----------------------------------------------------------------------------
(* Faults and the passage of time                                          *)

\* The work, or the statement that finalizes it, throws.
Fails(d) ==
  /\ Fault
  /\ at[d] \in Handling
  /\ Goto(d, "releasing")
  /\ UNCHANGED <<eventVars, event, overrun, historyVars, duplicates>>

\* The process dies, or a statement outside of the try block throws: no 200,
\* and nobody releases the lease.
Crash(d) ==
  /\ Fault
  /\ at[d] \notin {"free", "dead"}
  /\ End(d, "dead")
  /\ UNCHANGED <<eventVars, historyVars, duplicates>>

\* Five minutes pass under a handler that still runs ...
Overrun(e) ==
  /\ Fault
  /\ lease[e] = "live" /\ Held(e)
  /\ lease' = [lease EXCEPT ![e] = "expired"]
  /\ overrun' = overrun \cup {owner[e]}
  /\ UNCHANGED <<stored, processed, owner, at, event, historyVars, duplicates>>

\* ... or after its process died.
LapseOrphan(e) ==
  /\ lease[e] = "live" /\ ~Held(e)
  /\ lease' = [lease EXCEPT ![e] = "expired"]
  /\ UNCHANGED <<stored, processed, owner, deliveryVars, historyVars, faults,
                 duplicates>>

\* runCleanupJobsCron clears every expired lease in one statement.
Cleanup ==
  LET E == {e \in Events : lease[e] = "expired"} IN
  /\ E # {}
  /\ owner' = [e \in Events |-> IF e \in E THEN Nobody ELSE owner[e]]
  /\ lease' = [e \in Events |-> IF e \in E THEN "none" ELSE lease[e]]
  /\ UNCHANGED <<stored, processed, deliveryVars, historyVars, faults,
                 duplicates>>

-----------------------------------------------------------------------------
LeaseInit ==
  /\ stored = {}
  /\ processed = [e \in Events |-> FALSE]
  /\ owner = [e \in Events |-> Nobody]
  /\ lease = [e \in Events |-> "none"]
  /\ at = [d \in Deliveries |-> "free"]
  /\ event = [d \in Deliveries |-> NoEvent]
  /\ overrun = {}
  /\ finished = {} /\ acked = {}
  /\ faults = 0 /\ duplicates = 0

HandlerStep(d) ==
  \/ FindEvent(d) \/ CreateEvent(d) \/ FindRaced(d) \/ Acquire(d)
  \/ Finish(d) \/ Finalize(d) \/ Recheck(d) \/ Release(d)

LeaseNext ==
  \/ \E d \in Deliveries, e \in Events : Deliver(d, e) \/ Duplicate(d, e)
  \/ \E d \in Deliveries : HandlerStep(d) \/ Fails(d) \/ Crash(d)
  \/ \E e \in Events : Overrun(e) \/ LapseOrphan(e)
  \/ Cleanup

Spec == LeaseInit /\ [][LeaseNext]_leaseVars

-----------------------------------------------------------------------------
(* Properties                                                              *)

\* The type of the state.
LeaseTypeOK ==
  /\ stored \subseteq Events
  /\ processed \in [Events -> BOOLEAN]
  /\ owner \in [Events -> Deliveries \cup {Nobody}]
  /\ lease \in [Events -> {"none", "live", "expired"}]
  /\ at \in [Deliveries -> Control]
  /\ event \in [Deliveries -> Events \cup {NoEvent}]
  /\ overrun \subseteq Deliveries
  /\ finished \subseteq Events /\ acked \subseteq Events
  /\ faults \in Nat /\ duplicates \in Nat

\* A 200 is final for Shopify: whichever way a delivery comes to answer it --
\* it finalized, it found a duplicate, or it lost its lease and finds the row
\* finalized by another -- the work of that event has been completed.
AckedWasDone == \A e \in acked : processed[e] /\ e \in finished

\* Two deliveries do the work of one event at the same time only if the lease
\* of one of them expired under its work.
SingleFlight ==
  \A c, d \in Deliveries :
    c # d /\ at[c] \in Handling /\ at[d] \in Handling /\ event[c] = event[d]
      => c \in overrun \/ d \in overrun

\* A delivery that was answered leaves no lease behind: whatever went wrong in
\* it, the next delivery need not wait for an expiry, unless a process died.
NoLeakedLease ==
  \A e \in Events : owner[e] # Nobody => Held(e) \/ at[owner[e]] = "dead"

\* The work of a processed event is never started again, by no delivery that
\* found the row unprocessed just before.
ProcessedIsFinal ==
  [][\A d \in Deliveries :
       at[d] # "working" /\ at'[d] = "working" => ~processed[event[d]]]_leaseVars
=============================================================================
