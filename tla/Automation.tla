----------------------------- MODULE Automation -----------------------------
(***************************************************************************)
(* The automations of one store: their lifecycle                           *)
(* (app/services/automation.server.ts, automation-lifecycle.server.ts,     *)
(* app/automation) and their execution against the Shopify Admin API       *)
(* (app/shopify-automation).                                               *)
(*                                                                         *)
(* Automations and idempotency records live in maps of the process; a save *)
(* replaces the whole snapshot of the store by the one its caller loaded.  *)
(* Loading, deciding and saving await nothing but resolved promises, so an *)
(* operation is one turn of the event loop, an atomic action.  Execution   *)
(* is the exception: between loading the snapshot and saving it, it awaits *)
(* the session and three calls to Shopify, and other turns run.            *)
(*                                                                         *)
(* The mutation is that of update_product_tags with action "add" on one    *)
(* product, each automation adding its own tag: a read of the tags, and a  *)
(* write of the whole list.                                                *)
(***************************************************************************)
EXTENDS Naturals, Sequences, FiniteSets

CONSTANTS
  Automations,     \* the ids drawn by randomUUID
  KeyOf,           \* automationKey: source type, source id and template
  Unsupported,     \* automations the dry run refuses
  Requests,        \* "execute" requests the process serves at once
  MaxAttempts,     \* of executeWithRateLimit
  Edits,           \* bound: the lists of tags the merchant sets
  MaxFaults,       \* bound: errors of Shopify or of the session, and crashes
  NoAutomation

ASSUME AutomationAssumption ==
  /\ Unsupported \subseteq Automations
  /\ Edits \subseteq SUBSET Automations
  /\ MaxAttempts \in Nat \ {0}
  /\ MaxFaults \in Nat
  /\ NoAutomation \notin Automations

VARIABLES
  snapshot,      \* memoryStore: the record of each automation
  used,          \* the ids drawn so far
  idempotency,   \* idempotencyStore
  request,       \* the locals of each executing request
  storeQueue,    \* storeQueues: the calls to Shopify, in order
  tags,          \* the tags of the product at Shopify
  faults,
  approvals,     \* history: automations a merchant has approved
  sends,         \* history: executions whose mutation was sent
  applied        \* history: automations whose mutation took effect

memory == <<snapshot, idempotency, request, storeQueue>>
history == <<approvals, sends, applied>>
vars == <<memory, used, tags, faults, history>>

\* The transition table of automation-state.ts; an absent automation has no move.
Allowed ==
  [absent           |-> {},
   draft            |-> {"prepared", "cancelled"},
   prepared         |-> {"waiting_approval", "cancelled"},
   waiting_approval |-> {"approved", "prepared", "cancelled"},
   approved         |-> {"executing", "cancelled"},
   executing        |-> {"executed", "cancelled"},
   executed         |-> {"verifying", "cancelled"},
   verifying        |-> {"verified", "executed"},
   verified         |-> {"archived"},
   archived         |-> {},
   cancelled        |-> {}]

Statuses == DOMAIN Allowed
Records == [status : Statuses, merchantApproved : BOOLEAN]
Snapshots == [Automations -> Records]

Absent == [status |-> "absent", merchantApproved |-> FALSE]
Draft == [status |-> "draft", merchantApproved |-> FALSE]

NoSnapshot == [a \in Automations |-> Absent]

Locals == [step : {"idle", "connect", "read", "mutate", "verify"},
           automation : Automations \cup {NoAutomation},
           loaded : Snapshots,             \* the snapshot that will be saved
           before : SUBSET Automations,    \* oldValues.tags
           attempt : 0 .. MaxAttempts - 1] \* failed attempts of the call

Idle == [step |-> "idle", automation |-> NoAutomation, loaded |-> NoSnapshot,
         before |-> {}, attempt |-> 0]

Init ==
  /\ snapshot = NoSnapshot
  /\ used = {}
  /\ idempotency = [a \in Automations |-> "none"]
  /\ request = [r \in Requests |-> Idle]
  /\ storeQueue = <<>>
  /\ tags = {}
  /\ faults = 0
  /\ approvals = {}
  /\ sends = [a \in Automations |-> 0]
  /\ applied = {}

-----------------------------------------------------------------------------
(* The operations that take one turn                                       *)

\* mutant: an automation that is finished does not count as a duplicate
DuplicateActive(s, a) ==
  \E b \in Automations :
    KeyOf[b] = KeyOf[a] /\ s[b].status \notin {"absent", "archived", "verified", "cancelled"}

\* validateDuplicateAutomation
Duplicate(s, a) ==
  \E b \in Automations :
    KeyOf[b] = KeyOf[a] /\ s[b].status \notin {"absent", "archived"}

Moved(record, to) ==
  [status |-> to,
   merchantApproved |-> CASE to = "approved" -> TRUE
                          [] to \in {"prepared", "cancelled"} -> FALSE
                          [] OTHER -> record.merchantApproved]

CanMove(a, to) == to \in Allowed[snapshot[a].status]

Move(a, to) ==
  /\ snapshot' = [snapshot EXCEPT ![a] = Moved(@, to)]
  /\ UNCHANGED <<used, idempotency, request, storeQueue, tags, faults>>

\* createAutomationRecordForStore under an id never used, left as a draft by
\* syncAutomationsFromOperations and prepared at once by createAutomation.
Create(a, status) ==
  /\ a \notin used
  /\ status \in {"draft", "prepared"}
  /\ ~Duplicate(snapshot, a)
  /\ used' = used \cup {a}
  /\ snapshot' = [snapshot EXCEPT ![a] = [Draft EXCEPT !.status = status]]
  /\ UNCHANGED <<idempotency, request, storeQueue, tags, faults, history>>

Submit(a) ==
  /\ CanMove(a, "waiting_approval")
  /\ Move(a, "waiting_approval")
  /\ UNCHANGED history

\* approveAutomation submits a prepared automation on the way.
Approve(a) ==
  /\ snapshot[a].status \in {"prepared", "waiting_approval"}
  /\ Move(a, "approved")
  /\ approvals' = approvals \cup {a}
  /\ UNCHANGED <<sends, applied>>

RequestChanges(a) ==
  /\ CanMove(a, "prepared")
  /\ Move(a, "prepared")
  /\ UNCHANGED history

\* cancelAutomation and rejectAutomation
Cancel(a) ==
  /\ CanMove(a, "cancelled")
  /\ Move(a, "cancelled")
  /\ UNCHANGED history

\* verifyAutomation saves "verifying" first, and stays there when the metrics
\* it is given do not satisfy the rules.
Verify(a, satisfied) ==
  /\ CanMove(a, "verifying")
  /\ Move(a, IF satisfied THEN "verified" ELSE "verifying")
  /\ UNCHANGED history

Archive(a) ==
  /\ CanMove(a, "archived")
  /\ Move(a, "archived")
  /\ UNCHANGED history

-----------------------------------------------------------------------------
(* Execution: "executing" is saved, then executeShopifyAutomation runs     *)

Executable(a) ==
  /\ snapshot[a].status = "approved"
  /\ snapshot[a].merchantApproved

\* The dry run, or an execution of this automation in progress, throws.
Refuse(a) ==
  /\ Executable(a)
  /\ a \in Unsupported \/ idempotency[a] = "in_progress"
  /\ Move(a, "executing")
  /\ UNCHANGED history

\* An execution that has completed is answered from its record.
Replay(a) ==
  /\ Executable(a)
  /\ a \notin Unsupported
  /\ idempotency[a] = "completed"
  /\ Move(a, "executed")
  /\ UNCHANGED history

Started(r, a) ==
  /\ request[r].step = "idle"
  /\ Executable(a)
  /\ a \notin Unsupported
  /\ idempotency' = [idempotency EXCEPT ![a] = "in_progress"]
  /\ snapshot' = [snapshot EXCEPT ![a] = Moved(@, "executing")]
  /\ request' = [request EXCEPT ![r] =
       [Idle EXCEPT !.step = "connect", !.automation = a, !.loaded = snapshot']]
  /\ UNCHANGED <<used, storeQueue, tags, faults, history>>

\* mutant: only a completed execution is remembered
BeginAgain(r, a) == idempotency[a] # "completed" /\ Started(r, a)

Begin(r, a) == idempotency[a] = "none" /\ Started(r, a)


\* resolveShopifyAdminContext: the store and its session, then the first call.
Connect(r) ==
  /\ request[r].step = "connect"
  /\ request' = [request EXCEPT ![r].step = "read"]
  /\ storeQueue' = Append(storeQueue, r)
  /\ UNCHANGED <<snapshot, used, idempotency, tags, faults, history>>

ConnectFails(r) ==
  /\ request[r].step = "connect"
  /\ faults < MaxFaults
  /\ faults' = faults + 1
  /\ request' = [request EXCEPT ![r] = Idle]
  /\ UNCHANGED <<snapshot, used, idempotency, storeQueue, tags, history>>

\* executeWithRateLimit: only the call at the head of the queue is made.
Served(r, step) ==
  /\ request[r].step = step
  /\ storeQueue # <<>>
  /\ r = Head(storeQueue)

\* The next call of an execution joins the queue turns after the last one has
\* left it: the body of the answer is awaited, and the product is looked up.
Queue(r) ==
  /\ request[r].step \in {"mutate", "verify"}
  /\ \A i \in DOMAIN storeQueue : storeQueue[i] # r
  /\ storeQueue' = Append(storeQueue, r)
  /\ UNCHANGED <<snapshot, used, idempotency, request, tags, faults, history>>

\* readProductSnapshot
Read(r) ==
  /\ Served(r, "read")
  /\ request' = [request EXCEPT ![r].step = "mutate", ![r].before = tags, ![r].attempt = 0]
  /\ storeQueue' = Tail(storeQueue)
  /\ UNCHANGED <<snapshot, used, idempotency, tags, faults, history>>

\* oldValues.tags with the automation's own
NextTags(r) == request[r].before \cup {request[r].automation}

\* An execution counts as sent with the first attempt of its mutation.
Sent(r) ==
  /\ sends' = [sends EXCEPT ![request[r].automation] =
                 IF request[r].attempt = 0 THEN @ + 1 ELSE @]
  /\ UNCHANGED approvals

TakesEffect(r) ==
  /\ tags' = NextTags(r)
  /\ applied' = applied \cup {request[r].automation}

HasNoEffect == UNCHANGED <<tags, applied>>

\* productUpdate, answered
Mutate(r) ==
  /\ Served(r, "mutate")
  /\ Sent(r)
  /\ TakesEffect(r)
  /\ request' = [request EXCEPT ![r].step = "verify", ![r].attempt = 0]
  /\ storeQueue' = Tail(storeQueue)
  /\ UNCHANGED <<snapshot, used, idempotency, faults>>

\* What an attempt that failed may have done.
Attempted(r) ==
  IF request[r].step = "mutate"
  THEN Sent(r) /\ (TakesEffect(r) \/ HasNoEffect)
  ELSE UNCHANGED history /\ HasNoEffect

\* A retryable error: the call is made again, at the head of the queue.
Retry(r) ==
  /\ \E step \in {"read", "mutate", "verify"} : Served(r, step)
  /\ request[r].attempt + 1 < MaxAttempts
  /\ faults < MaxFaults
  /\ faults' = faults + 1
  /\ Attempted(r)
  /\ request' = [request EXCEPT ![r].attempt = @ + 1]
  /\ UNCHANGED <<snapshot, used, idempotency, storeQueue>>

\* mutant: a call that fails keeps its place in the queue
FailInPlace(r) ==
  /\ \E step \in {"read", "mutate", "verify"} : Served(r, step)
  /\ faults < MaxFaults
  /\ faults' = faults + 1
  /\ Attempted(r)
  /\ request' = [request EXCEPT ![r] = Idle]
  /\ UNCHANGED <<snapshot, used, idempotency, storeQueue>>

\* An error that is not retried, or the last attempt: the request throws.
Fail(r) ==
  /\ \E step \in {"read", "mutate", "verify"} : Served(r, step)
  /\ faults < MaxFaults
  /\ faults' = faults + 1
  /\ Attempted(r)
  /\ request' = [request EXCEPT ![r] = Idle]
  /\ storeQueue' = Tail(storeQueue)
  /\ UNCHANGED <<snapshot, used, idempotency>>

\* assertMutationVerified
Mismatch(r) ==
  /\ Served(r, "verify")
  /\ tags # NextTags(r)
  /\ request' = [request EXCEPT ![r] = Idle]
  /\ storeQueue' = Tail(storeQueue)
  /\ UNCHANGED <<snapshot, used, idempotency, tags, faults, history>>

Recorded(r) ==
  LET a == request[r].automation IN
  /\ idempotency' = [idempotency EXCEPT ![a] = "completed"]
  /\ snapshot' = [request[r].loaded EXCEPT ![a] = Moved(@, "executed")]
  /\ request' = [request EXCEPT ![r] = Idle]
  /\ storeQueue' = Tail(storeQueue)
  /\ UNCHANGED <<used, tags, faults, history>>

\* mutant: the execution is recorded before its mutation is answered
CompleteEarly(r) ==
  /\ \E step \in {"mutate", "verify"} : Served(r, step)
  /\ Recorded(r)

\* completeIdempotency, then the snapshot loaded before the calls is saved.
Complete(r) ==
  /\ Served(r, "verify")
  /\ tags = NextTags(r)
  /\ Recorded(r)

-----------------------------------------------------------------------------
(* The surroundings                                                        *)

\* The process ends, and its maps with it.
Crash ==
  /\ faults < MaxFaults
  /\ faults' = faults + 1
  /\ snapshot' = NoSnapshot
  /\ idempotency' = [a \in Automations |-> "none"]
  /\ request' = [r \in Requests |-> Idle]
  /\ storeQueue' = <<>>
  /\ UNCHANGED <<used, tags, history>>

\* The merchant edits the product in the admin.
EditProduct(edited) ==
  /\ edited # tags
  /\ tags' = edited
  /\ UNCHANGED <<memory, used, faults, history>>

Executes(r) ==
  \/ Connect(r) \/ ConnectFails(r) \/ Queue(r)
  \/ Read(r) \/ Mutate(r) \/ Retry(r) \/ Fail(r) \/ Mismatch(r) \/ Complete(r)

Decides(a) ==
  \/ \E status \in {"draft", "prepared"} : Create(a, status)
  \/ Submit(a) \/ Approve(a) \/ RequestChanges(a) \/ Cancel(a)
  \/ \E satisfied \in BOOLEAN : Verify(a, satisfied)
  \/ Archive(a) \/ Refuse(a) \/ Replay(a)

Next ==
  \/ \E a \in Automations : Decides(a)
  \/ \E r \in Requests, a \in Automations : Begin(r, a)
  \/ \E r \in Requests : Executes(r)
  \/ Crash
  \/ \E edited \in Edits : EditProduct(edited)

Spec == Init /\ [][Next]_vars

\* The event loop runs what it has: a pending await is answered.
FairSpec == Spec /\ \A r \in Requests : WF_vars(Executes(r))

-----------------------------------------------------------------------------
(* Properties                                                              *)

TypeOK ==
  /\ snapshot \in Snapshots
  /\ used \subseteq Automations
  /\ idempotency \in [Automations -> {"none", "in_progress", "completed"}]
  /\ request \in [Requests -> Locals]
  /\ storeQueue \in Seq(Requests)
  /\ tags \subseteq Automations
  /\ faults \in 0 .. MaxFaults
  /\ approvals \subseteq Automations
  /\ sends \in [Automations -> Nat]
  /\ applied \subseteq Automations

Executed == {"executed", "verifying", "verified", "archived"}

(* The mutation of an automation is sent by one execution at most, although *)
(* a request that saves the snapshot it loaded long ago puts automations    *)
(* executed meanwhile back to "approved", where they can be executed again: *)
(* the idempotency record must catch what the status has forgotten.         *)
OneExecution == \A a \in Automations : sends[a] <= 1

(* Nothing is sent for an automation that no merchant has approved,         *)
(* whatever snapshots are saved over each other.                            *)
ExecutionsAreApproved == \A a \in Automations : sends[a] > 0 => a \in approvals

(* An automation recorded as executed has taken effect at Shopify, in the   *)
(* current snapshot and in those that executing requests will save.         *)
ExecutedMeansDone ==
  \A a \in Automations :
    \/ a \in applied
    \/ /\ snapshot[a].status \notin Executed
       /\ \A r \in Requests : request[r].loaded[a].status \notin Executed

(* One operation has one automation that is not archived, even after an     *)
(* older snapshot brings back one that was archived and replaced.           *)
OnePerSource ==
  \A a, b \in Automations :
    /\ a # b
    /\ KeyOf[a] = KeyOf[b]
    => \/ snapshot[a].status \in {"absent", "archived"}
       \/ snapshot[b].status \in {"absent", "archived"}

(* Every request that executes ends: the queue of the store moves on past   *)
(* errors, retries and requests that throw.                                 *)
RequestsEnd == \A r \in Requests : request[r].step # "idle" ~> request[r].step = "idle"

(* A cancelled automation stays cancelled (automation-state.ts: no move     *)
(* leaves "cancelled").  The save of a stale snapshot breaks it.            *)
CancelledIsFinal ==
  [][\A a \in Automations :
       snapshot[a].status = "cancelled" => snapshot'[a].status \in {"cancelled", "absent"}]_vars

Finished == {a \in Automations : snapshot[a].status \in Executed}

E == INSTANCE Effects WITH
       Commands <- Automations,
       approved <- approvals,
       sent <- sends,
       effective <- applied,
       recorded <- Finished

(* Approvals, calls of Shopify and what the snapshot says of them implement *)
(* commands that are sent once: whatever snapshots are saved over each      *)
(* other, no mutation is sent before its approval, none is sent by a second *)
(* execution, none is repeated once its automation is recorded as executed, *)
(* and what is recorded has taken effect.                                   *)
EffectsSpec == E!Spec
=============================================================================
