-------------------------- MODULE AutomationProofs --------------------------
(***************************************************************************)
(* Proofs about Automation, for any automations, keys, requests, errors,   *)
(* crashes and edits.  A stale snapshot can be saved at any time, so every *)
(* fact about the current snapshot has to hold of those the requests hold  *)
(* as well; the facts are ones that histories only make truer.             *)
(***************************************************************************)
EXTENDS Automation, TLAPS

Free(record) == record.status \in {"absent", "archived"}

RecordOK(a, record, drawn, consented, done) ==
  /\ record.status # "absent" => a \in drawn
  /\ record.merchantApproved => a \in consented
  /\ record.status \in Executed => a \in done

\* What is true of every snapshot, current or stale.
SnapshotOK(s, drawn, consented, done) ==
  /\ \A a \in Automations : RecordOK(a, s[a], drawn, consented, done)
  /\ \A a, b \in Automations : a # b /\ KeyOf[a] = KeyOf[b] => Free(s[a]) \/ Free(s[b])

SnapshotsOK ==
  /\ SnapshotOK(snapshot, used, approvals, applied)
  /\ \A r \in Requests : SnapshotOK(request[r].loaded, used, approvals, applied)

\* A request that executes holds the idempotency record of its automation.
HoldsRecord == \A r \in Requests : request[r].step # "idle" =>
  /\ request[r].automation \in Automations
  /\ idempotency[request[r].automation] = "in_progress"
  /\ request[r].automation \in approvals
  /\ request[r].loaded[request[r].automation].status = "executing"

OneRequest == \A r, t \in Requests :
  request[r].step # "idle" /\ request[t].step # "idle" /\ r # t
    => request[r].automation # request[t].automation

EffectOK ==
  /\ \A r \in Requests : request[r].step = "verify" => request[r].automation \in applied
  /\ \A a \in Automations : idempotency[a] = "completed" => a \in applied

Unsent(l) ==
  \/ l.step \in {"connect", "read"}
  \/ l.step = "mutate" /\ l.attempt = 0

SendsOK ==
  /\ \A a \in Automations : sends[a] <= 1 /\ (sends[a] > 0 => a \in approvals /\ a \in used)
  /\ \A r \in Requests : Unsent(request[r]) => sends[request[r].automation] = 0

\* What has been sent is remembered, or was lost with the process for good.
Remembered == \A a \in Automations : sends[a] > 0 =>
  \/ idempotency[a] # "none"
  \/ /\ snapshot[a].status = "absent"
     /\ \A r \in Requests : request[r].loaded[a].status = "absent"

IInv == TypeOK /\ SnapshotsOK /\ HoldsRecord /\ OneRequest /\ EffectOK /\ SendsOK /\ Remembered

-----------------------------------------------------------------------------
(* Lemmas about snapshots                                                  *)

LEMMA StatusValues ==
  Statuses = {"absent", "draft", "prepared", "waiting_approval", "approved", "executing",
              "executed", "verifying", "verified", "archived", "cancelled"}
  BY DEF Statuses, Allowed

LEMMA NoSnapshotType == NoSnapshot \in Snapshots
  BY StatusValues DEF NoSnapshot, Absent, Snapshots, Records

LEMMA IdleType == Idle \in Locals
<1>1. 0 \in 0 .. MaxAttempts - 1
  BY AutomationAssumption
<1> QED BY <1>1, NoSnapshotType DEF Idle, Locals

\* An empty snapshot says nothing.
LEMMA NoSnapshotOK ==
  ASSUME NEW drawn, NEW consented, NEW done
  PROVE  SnapshotOK(NoSnapshot, drawn, consented, done)
  BY DEF SnapshotOK, RecordOK, NoSnapshot, Absent, Free, Executed

\* Ids, approvals and effects are only added: a snapshot stays right.
LEMMA SnapshotMonotone ==
  ASSUME NEW s, NEW u, NEW u2, NEW p, NEW p2, NEW d, NEW d2,
         SnapshotOK(s, u, p, d), u \subseteq u2, p \subseteq p2, d \subseteq d2
  PROVE  SnapshotOK(s, u2, p2, d2)
  BY DEF SnapshotOK, RecordOK

\* A record may change as long as it does not come alive beside another.
LEMMA SnapshotUpdate ==
  ASSUME NEW s \in Snapshots, NEW u, NEW p, NEW d, NEW a \in Automations,
         NEW record \in Records,
         SnapshotOK(s, u, p, d), RecordOK(a, record, u, p, d),
         Free(record) \/ ~Free(s[a])
  PROVE  /\ [s EXCEPT ![a] = record] \in Snapshots
         /\ SnapshotOK([s EXCEPT ![a] = record], u, p, d)
<1> DEFINE s2 == [s EXCEPT ![a] = record]
<1>1. s2 \in Snapshots /\ s2[a] = record /\ \A b \in Automations \ {a} : s2[b] = s[b]
  BY DEF Snapshots
<1>2. \A b \in Automations : RecordOK(b, s2[b], u, p, d)
  BY <1>1 DEF SnapshotOK
<1>3. \A b, c \in Automations : b # c /\ KeyOf[b] = KeyOf[c] => Free(s2[b]) \/ Free(s2[c])
  BY <1>1 DEF SnapshotOK
<1> QED BY <1>1, <1>2, <1>3 DEF SnapshotOK

LEMMA MovedType ==
  ASSUME NEW record \in Records, NEW to \in Statuses
  PROVE  Moved(record, to) \in Records /\ Moved(record, to).status = to
<1>1. CASE to = "approved"
  BY <1>1 DEF Moved, Records
<1>2. CASE to \in {"prepared", "cancelled"}
  BY <1>2 DEF Moved, Records
<1>3. CASE to \notin {"approved", "prepared", "cancelled"}
  BY <1>3 DEF Moved, Records
<1> QED BY <1>1, <1>2, <1>3

\* A move keeps the approval it finds, drops it, or is the approval.
LEMMA MovedOK ==
  ASSUME NEW record \in Records, NEW to \in Statuses, NEW a \in Automations,
         NEW u, NEW p, NEW d, RecordOK(a, record, u, p, d), record.status # "absent",
         to = "approved" => a \in p, to \in Executed => a \in d
  PROVE  RecordOK(a, Moved(record, to), u, p, d)
<1>1. a \in u
  BY DEF RecordOK
<1>2. Moved(record, to).merchantApproved => a \in p
  <2>1. CASE to = "approved"
    BY <2>1
  <2>2. CASE to \in {"prepared", "cancelled"}
    BY <2>2 DEF Moved
  <2>3. CASE to \notin {"approved", "prepared", "cancelled"}
    BY <2>3 DEF Moved, RecordOK
  <2> QED BY <2>1, <2>2, <2>3
<1> QED BY <1>1, <1>2, MovedType DEF RecordOK

-----------------------------------------------------------------------------
(* What the steps have in common                                           *)

\* A decision moves one live automation of the current snapshot.
LEMMA MoveStep ==
  ASSUME IInv, NEW a \in Automations, NEW to \in Statuses, Move(a, to),
         ~Free(snapshot[a]), to # "absent",
         to = "approved" => a \in approvals', to \in Executed => a \in applied,
         approvals \subseteq approvals', approvals' \subseteq Automations,
         UNCHANGED <<sends, applied>>
  PROVE  IInv'
<1> USE DEF IInv
<1>1. snapshot \in Snapshots /\ snapshot[a] \in Records
  BY DEF TypeOK, Snapshots
<1>2. SnapshotOK(snapshot, used, approvals', applied)
  BY SnapshotMonotone DEF SnapshotsOK
<1>3. snapshot[a].status # "absent"
  BY DEF Free
<1>4. RecordOK(a, Moved(snapshot[a], to), used, approvals', applied)
  BY <1>1, <1>2, <1>3, MovedOK DEF SnapshotOK
<1>5. snapshot' \in Snapshots /\ SnapshotOK(snapshot', used, approvals', applied)
  BY <1>1, <1>2, <1>4, SnapshotUpdate, MovedType DEF Move
<1>6. TypeOK'
  BY <1>5 DEF TypeOK, Move
<1>7. SnapshotsOK'
  BY <1>5, SnapshotMonotone DEF SnapshotsOK, Move
<1>8. HoldsRecord' /\ OneRequest' /\ EffectOK'
  BY DEF HoldsRecord, OneRequest, EffectOK, Move
<1>9. SendsOK'
  BY DEF SendsOK, Unsent, Move
<1>10. Remembered'
  <2>1. \A b \in Automations \ {a} : snapshot'[b] = snapshot[b]
    BY <1>1 DEF Move, Snapshots
  <2>2. sends[a] > 0 => idempotency[a] # "none"
    BY <1>3 DEF Remembered
  <2> QED BY <2>1, <2>2 DEF Remembered, Move
<1> QED BY <1>6, <1>7, <1>8, <1>9, <1>10

\* A request makes a call or ends; the snapshot and the records stay.
LEMMA RequestStep ==
  ASSUME IInv, NEW r \in Requests, NEW l \in Locals,
         request[r].step # "idle",
         request' = [request EXCEPT ![r] = l],
         l = Idle \/ /\ l.step # "idle"
                     /\ l.automation = request[r].automation
                     /\ l.loaded = request[r].loaded,
         l.step = "verify" => request[r].automation \in applied',
         \/ sends' = sends /\ (Unsent(l) => Unsent(request[r]))
         \/ /\ request[r].step = "mutate" /\ ~Unsent(l)
            /\ sends' = [sends EXCEPT ![request[r].automation] =
                           IF request[r].attempt = 0 THEN @ + 1 ELSE @],
         storeQueue' \in Seq(Requests), tags' \subseteq Automations, faults' \in 0 .. MaxFaults,
         applied \subseteq applied', applied' \subseteq Automations,
         UNCHANGED <<snapshot, used, idempotency, approvals>>
  PROVE  IInv'
<1> USE DEF IInv
<1> DEFINE a == request[r].automation
<1>1. a \in Automations /\ idempotency[a] = "in_progress" /\ a \in approvals /\ a \in used
  BY DEF HoldsRecord, SnapshotsOK, SnapshotOK, RecordOK
<1>2. request'[r] = l /\ \A t \in Requests \ {r} : request'[t] = request[t]
  BY DEF TypeOK
<1>3. \A t \in Requests \ {r} : request[t].step # "idle" => request[t].automation # a
  BY DEF OneRequest
<1>4. sends \in [Automations -> Nat] /\ request[r].attempt \in Nat
  BY AutomationAssumption DEF TypeOK, Locals
<1>5. /\ sends' \in [Automations -> Nat]
      /\ \A b \in Automations \ {a} : sends'[b] = sends[b]
      /\ sends'[a] <= 1
  <2>1. CASE sends' = sends
    BY <2>1, <1>1, <1>4 DEF SendsOK
  <2>2. CASE /\ request[r].step = "mutate"
             /\ sends' = [sends EXCEPT ![a] = IF request[r].attempt = 0 THEN @ + 1 ELSE @]
    <3>1. CASE request[r].attempt = 0
      <4>1. sends[a] = 0
        BY <2>2, <3>1 DEF SendsOK, Unsent
      <4> QED BY <2>2, <3>1, <4>1, <1>1, <1>4
    <3>2. CASE request[r].attempt # 0
      BY <2>2, <3>2, <1>1, <1>4 DEF SendsOK
    <3> QED BY <3>1, <3>2
  <2> QED BY <2>1, <2>2
<1>6. TypeOK'
  BY <1>5 DEF TypeOK
<1>7. SnapshotsOK'
  <2>1. SnapshotOK(snapshot, used, approvals, applied')
    BY SnapshotMonotone DEF SnapshotsOK
  <2>2. \A t \in Requests : SnapshotOK(request[t].loaded, used, approvals, applied')
    BY SnapshotMonotone DEF SnapshotsOK
  <2>3. SnapshotOK(l.loaded, used, approvals, applied')
    BY <2>2, NoSnapshotOK DEF Idle
  <2> QED BY <2>1, <2>2, <2>3, <1>2 DEF SnapshotsOK
<1>8. l.step # "idle" => l.automation = a /\ l.loaded = request[r].loaded
  BY DEF Idle
<1>9. HoldsRecord'
  BY <1>2, <1>8 DEF HoldsRecord
<1>10. OneRequest'
  BY <1>2, <1>3, <1>8 DEF OneRequest
<1>11. EffectOK'
  BY <1>2, <1>8 DEF EffectOK
<1>12. SendsOK'
  <2>1. \A b \in Automations : sends'[b] <= 1 /\ (sends'[b] > 0 => b \in approvals /\ b \in used)
    BY <1>1, <1>5 DEF SendsOK
  <2>2. \A t \in Requests \ {r} : Unsent(request[t]) => sends'[request[t].automation] = 0
    <3> SUFFICES ASSUME NEW t \in Requests \ {r}, Unsent(request[t])
                 PROVE  sends'[request[t].automation] = 0
      OBVIOUS
    <3>1. request[t].step # "idle"
      BY DEF Unsent
    <3>2. request[t].automation \in Automations \ {a}
      BY <3>1, <1>3 DEF HoldsRecord
    <3> QED BY <3>2, <1>5 DEF SendsOK
  <2>3. Unsent(l) => sends'[l.automation] = 0
    <3> SUFFICES ASSUME Unsent(l) PROVE sends'[l.automation] = 0
      OBVIOUS
    <3>1. l.step # "idle" /\ sends' = sends /\ Unsent(request[r])
      BY DEF Unsent
    <3> QED BY <3>1, <1>8 DEF SendsOK
  <2>4. \A t \in Requests : Unsent(request'[t]) => sends'[request'[t].automation] = 0
    BY <2>2, <2>3, <1>2
  <2> QED BY <2>1, <2>4 DEF SendsOK, Unsent
<1>13. Remembered'
  <2>1. \A b \in Automations : l.loaded[b].status = "absent" \/ l.loaded = request[r].loaded
    BY DEF Idle, NoSnapshot, Absent
  <2> QED BY <2>1, <1>1, <1>2, <1>5 DEF Remembered
<1> QED BY <1>6, <1>7, <1>9, <1>10, <1>11, <1>12, <1>13

-----------------------------------------------------------------------------
(* The steps                                                               *)

\* A new id brings a draft for a source that has no live automation.
LEMMA CreatePreserves ==
  ASSUME IInv, NEW a \in Automations, NEW status \in {"draft", "prepared"}, Create(a, status)
  PROVE  IInv'
<1> USE DEF IInv
<1> DEFINE record == [Draft EXCEPT !.status = status]
<1>1. record \in Records /\ record.status = status /\ record.merchantApproved = FALSE
  BY StatusValues DEF Draft, Records
<1>2. snapshot \in Snapshots /\ used' = used \cup {a} /\ used' \subseteq Automations
  BY DEF Create, TypeOK
<1>3. SnapshotOK(snapshot, used', approvals, applied)
  BY <1>2, SnapshotMonotone DEF SnapshotsOK
<1>4. snapshot' \in Snapshots /\ snapshot'[a] = record
      /\ \A b \in Automations \ {a} : snapshot'[b] = snapshot[b]
  BY <1>1, <1>2 DEF Create, Snapshots
<1>5. SnapshotOK(snapshot', used', approvals, applied)
  <2>1. \A b \in Automations : RecordOK(b, snapshot'[b], used', approvals, applied)
    BY <1>1, <1>2, <1>3, <1>4 DEF SnapshotOK, RecordOK, Executed
  <2>2. \A b \in Automations : KeyOf[b] = KeyOf[a] => Free(snapshot[b])
    BY DEF Create, Duplicate, Free
  <2>3. \A b, c \in Automations :
          b # c /\ KeyOf[b] = KeyOf[c] => Free(snapshot'[b]) \/ Free(snapshot'[c])
    BY <2>2, <1>3, <1>4 DEF SnapshotOK
  <2> QED BY <2>1, <2>3 DEF SnapshotOK
<1>6. TypeOK'
  BY <1>2, <1>4 DEF TypeOK, Create, history
<1>7. SnapshotsOK'
  <2>1. \A r \in Requests : SnapshotOK(request[r].loaded, used', approvals, applied)
    BY <1>2, SnapshotMonotone DEF SnapshotsOK
  <2> QED BY <2>1, <1>5 DEF SnapshotsOK, Create, history
<1>8. HoldsRecord' /\ OneRequest' /\ EffectOK'
  BY DEF HoldsRecord, OneRequest, EffectOK, Create, history
<1>9. SendsOK'
  BY <1>2 DEF SendsOK, Unsent, Create, history
<1>10. Remembered'
  <2>1. sends[a] = 0
    BY DEF Create, SendsOK, TypeOK
  <2> QED BY <2>1, <1>4 DEF Remembered, Create, history
<1> QED BY <1>6, <1>7, <1>8, <1>9, <1>10

LEMMA DecidePreserves ==
  ASSUME IInv, NEW a \in Automations, Decides(a)
  PROVE  IInv'
<1> USE StatusValues DEF IInv
<1>0. snapshot[a] \in Records /\ RecordOK(a, snapshot[a], used, approvals, applied)
      /\ approvals \subseteq Automations
  BY DEF TypeOK, Snapshots, SnapshotsOK, SnapshotOK
<1>1. ASSUME NEW to \in Statuses, CanMove(a, to)
      PROVE  ~Free(snapshot[a]) /\ to # "absent"
  BY <1>0, <1>1 DEF CanMove, Allowed, Free, Records
<1>2. CASE \E status \in {"draft", "prepared"} : Create(a, status)
  BY <1>2, CreatePreserves
<1>3. CASE Submit(a)
  BY <1>0, <1>1, <1>3, MoveStep DEF Submit, history, Executed
<1>4. CASE Approve(a)
  BY <1>0, <1>4, MoveStep DEF Approve, Free, Executed
<1>5. CASE RequestChanges(a)
  BY <1>0, <1>1, <1>5, MoveStep DEF RequestChanges, history, Executed
<1>6. CASE Cancel(a)
  BY <1>0, <1>1, <1>6, MoveStep DEF Cancel, history, Executed
<1>7. ASSUME NEW satisfied \in BOOLEAN, Verify(a, satisfied) PROVE IInv'
  <2> DEFINE to == IF satisfied THEN "verified" ELSE "verifying"
  <2>1. snapshot[a].status = "executed"
    BY <1>0, <1>7 DEF Verify, CanMove, Allowed, Records
  <2>2. a \in applied /\ ~Free(snapshot[a])
    BY <1>0, <2>1 DEF RecordOK, Executed, Free
  <2>3. to \in Statuses /\ to # "absent" /\ to # "approved"
    OBVIOUS
  <2> HIDE DEF to
  <2>4. Move(a, to) /\ UNCHANGED <<approvals, sends, applied>>
    BY <1>7 DEF Verify, history, to
  <2> QED BY <1>0, <2>2, <2>3, <2>4, MoveStep
<1>8. CASE Archive(a)
  <2>1. snapshot[a].status = "verified"
    BY <1>0, <1>8 DEF Archive, CanMove, Allowed, Records
  <2>2. a \in applied /\ ~Free(snapshot[a])
    BY <1>0, <2>1 DEF RecordOK, Executed, Free
  <2> QED BY <1>0, <1>8, <2>2, MoveStep DEF Archive, history
<1>9. CASE Refuse(a)
  BY <1>0, <1>9, MoveStep DEF Refuse, Executable, Free, history, Executed
<1>10. CASE Replay(a)
  <2>1. a \in applied
    BY <1>10 DEF Replay, EffectOK
  <2> QED BY <1>0, <1>10, <2>1, MoveStep DEF Replay, Executable, Free, history
<1> QED BY <1>2, <1>3, <1>4, <1>5, <1>6, <1>7, <1>8, <1>9, <1>10 DEF Decides

\* Only an automation without a record is begun: it has not been sent.
LEMMA BeginPreserves ==
  ASSUME IInv, NEW r \in Requests, NEW a \in Automations, Begin(r, a)
  PROVE  IInv'
<1> USE DEF IInv
<1> DEFINE l == [Idle EXCEPT !.step = "connect", !.automation = a, !.loaded = snapshot']
<1>1. /\ request[r].step = "idle" /\ idempotency[a] = "none"
      /\ snapshot[a].status = "approved" /\ snapshot[a].merchantApproved
  BY DEF Begin, Started, Executable
<1>2. a \in approvals /\ snapshot \in Snapshots /\ snapshot[a] \in Records
      /\ RecordOK(a, snapshot[a], used, approvals, applied)
  BY <1>1 DEF SnapshotsOK, SnapshotOK, RecordOK, TypeOK, Snapshots
<1>3. "executing" \in Statuses /\ "executing" \notin Executed
  BY StatusValues DEF Executed
<1>4. /\ snapshot' \in Snapshots
      /\ SnapshotOK(snapshot', used, approvals, applied)
  <2>1. RecordOK(a, Moved(snapshot[a], "executing"), used, approvals, applied)
    BY <1>1, <1>2, <1>3, MovedOK
  <2>2. ~Free(snapshot[a])
    BY <1>1 DEF Free
  <2>3. Moved(snapshot[a], "executing") \in Records
    BY <1>2, <1>3, MovedType
  <2> QED BY <1>2, <2>1, <2>2, <2>3, SnapshotUpdate DEF Begin, Started, SnapshotsOK
<1>5. /\ snapshot'[a].status = "executing"
      /\ \A b \in Automations \ {a} : snapshot'[b] = snapshot[b]
  BY <1>2, <1>3, MovedType DEF Begin, Started, Snapshots
<1>6. l \in Locals /\ l.step = "connect" /\ l.automation = a /\ l.loaded = snapshot'
  BY <1>4, IdleType DEF Locals, Idle
<1> HIDE DEF l
<1>7. request'[r] = l /\ \A t \in Requests \ {r} : request'[t] = request[t]
  BY DEF Begin, Started, TypeOK, l
<1>8. idempotency'[a] = "in_progress"
      /\ \A b \in Automations \ {a} : idempotency'[b] = idempotency[b]
  BY DEF Begin, Started, TypeOK
<1>9. \A t \in Requests : request[t].step # "idle" => request[t].automation \in Automations \ {a}
  BY <1>1 DEF HoldsRecord
<1>10. sends[a] = 0
  BY <1>1 DEF Remembered, SendsOK, TypeOK
<1>11. UNCHANGED <<used, storeQueue, tags, faults, approvals, sends, applied>>
  BY DEF Begin, Started, history
<1>12. TypeOK'
  <2>1. request' \in [Requests -> Locals]
    BY <1>6 DEF Begin, Started, TypeOK, l
  <2>2. idempotency' \in [Automations -> {"none", "in_progress", "completed"}]
    BY DEF Begin, Started, TypeOK
  <2> QED BY <2>1, <2>2, <1>4, <1>11 DEF TypeOK
<1>13. SnapshotsOK'
  BY <1>4, <1>6, <1>7, <1>11 DEF SnapshotsOK
<1>14. HoldsRecord'
  <2>1. \A t \in Requests \ {r} : request[t].step # "idle" =>
          idempotency'[request[t].automation] = "in_progress"
    BY <1>8, <1>9 DEF HoldsRecord
  <2> QED BY <2>1, <1>2, <1>5, <1>6, <1>7, <1>8, <1>11 DEF HoldsRecord
<1>15. OneRequest'
  BY <1>6, <1>7, <1>9 DEF OneRequest
<1>16. EffectOK'
  BY <1>6, <1>7, <1>8, <1>11 DEF EffectOK
<1>17. SendsOK'
  BY <1>6, <1>7, <1>10, <1>11 DEF SendsOK, Unsent
<1>18. Remembered'
  BY <1>5, <1>6, <1>7, <1>8, <1>10, <1>11 DEF Remembered
<1> QED BY <1>12, <1>13, <1>14, <1>15, <1>16, <1>17, <1>18

\* An attempt that counts as sent fits the third case of RequestStep.
LEMMA AttemptEffect ==
  ASSUME IInv, NEW r \in Requests, Attempted(r), request[r].step \in {"read", "mutate", "verify"}
  PROVE  /\ tags' \subseteq Automations /\ applied \subseteq applied' /\ applied' \subseteq Automations
         /\ approvals' = approvals
         /\ \/ request[r].step # "mutate" /\ sends' = sends
            \/ /\ request[r].step = "mutate"
               /\ sends' = [sends EXCEPT ![request[r].automation] =
                              IF request[r].attempt = 0 THEN @ + 1 ELSE @]
<1>1. request[r].automation \in Automations /\ request[r].before \subseteq Automations
  BY DEF IInv, HoldsRecord, TypeOK, Locals
<1>2. tags \subseteq Automations /\ applied \subseteq Automations
  BY DEF IInv, TypeOK
<1>3. CASE request[r].step = "mutate"
  BY <1>1, <1>2, <1>3 DEF Attempted, Sent, TakesEffect, HasNoEffect, NextTags
<1>4. CASE request[r].step # "mutate"
  BY <1>2, <1>4 DEF Attempted, HasNoEffect, history
<1> QED BY <1>3, <1>4

\* The answer to a verified execution saves the snapshot loaded before it.
LEMMA CompletePreserves ==
  ASSUME IInv, NEW r \in Requests, Complete(r)
  PROVE  IInv'
<1> USE DEF IInv
<1> DEFINE a == request[r].automation
           loaded == request[r].loaded
<1>1. request[r].step = "verify"
  BY DEF Complete, Served
<1>2. /\ a \in Automations /\ idempotency[a] = "in_progress" /\ a \in applied
      /\ loaded[a].status = "executing" /\ loaded \in Snapshots
      /\ SnapshotOK(loaded, used, approvals, applied)
  BY <1>1 DEF HoldsRecord, EffectOK, SnapshotsOK, TypeOK, Locals
<1>3. loaded[a] \in Records /\ RecordOK(a, loaded[a], used, approvals, applied)
      /\ "executed" \in Statuses /\ ~Free(loaded[a])
  BY <1>2, StatusValues DEF Snapshots, SnapshotOK, Free
<1>4. Moved(loaded[a], "executed") \in Records
      /\ RecordOK(a, Moved(loaded[a], "executed"), used, approvals, applied)
  BY <1>2, <1>3, MovedType, MovedOK
<1>5. snapshot' = [loaded EXCEPT ![a] = Moved(loaded[a], "executed")]
  BY <1>2 DEF Complete, Recorded, Snapshots
<1>6. snapshot' \in Snapshots /\ SnapshotOK(snapshot', used, approvals, applied)
  BY <1>2, <1>3, <1>4, <1>5, SnapshotUpdate
<1>7. \A b \in Automations \ {a} : snapshot'[b] = loaded[b]
  BY <1>2, <1>5 DEF Snapshots
<1>8. idempotency'[a] = "completed" /\ \A b \in Automations \ {a} : idempotency'[b] = idempotency[b]
  BY <1>2 DEF Complete, Recorded, TypeOK
<1>9. /\ request'[r] = Idle /\ \A t \in Requests \ {r} : request'[t] = request[t]
      /\ request' \in [Requests -> Locals]
  BY IdleType DEF Complete, Recorded, TypeOK
<1>10. \A t \in Requests \ {r} : request[t].step # "idle" => request[t].automation \in Automations \ {a}
  BY <1>1 DEF HoldsRecord, OneRequest
<1>11. UNCHANGED <<used, tags, faults, approvals, sends, applied>>
  BY DEF Complete, Recorded, history
<1>12. TypeOK'
  <2>1. storeQueue' \in Seq(Requests)
    BY DEF Complete, Served, Recorded, TypeOK
  <2>2. /\ used' \subseteq Automations /\ tags' \subseteq Automations /\ faults' \in 0 .. MaxFaults
        /\ approvals' \subseteq Automations /\ sends' \in [Automations -> Nat]
        /\ applied' \subseteq Automations
    BY <1>11 DEF TypeOK
  <2>3. snapshot' \in Snapshots
    BY <1>6
  <2>4. idempotency' \in [Automations -> {"none", "in_progress", "completed"}]
    BY <1>2 DEF Complete, Recorded, TypeOK
  <2>5. request' \in [Requests -> Locals]
    BY <1>9
  <2> QED BY <2>1, <2>2, <2>3, <2>4, <2>5, Zenon DEF TypeOK
<1>13. SnapshotsOK'
  BY <1>6, <1>9, <1>11, NoSnapshotOK DEF SnapshotsOK, Idle
<1>14. HoldsRecord'
  BY <1>8, <1>9, <1>10, <1>11 DEF HoldsRecord, Idle
<1>15. OneRequest'
  BY <1>9 DEF OneRequest, Idle
<1>16. EffectOK'
  BY <1>2, <1>8, <1>9, <1>11 DEF EffectOK, Idle
<1>17. SendsOK'
  BY <1>9, <1>11 DEF SendsOK, Unsent, Idle
<1>18. Remembered'
  <2>1. \A b \in Automations : NoSnapshot[b].status = "absent"
    BY DEF NoSnapshot, Absent
  <2> QED BY <2>1, <1>7, <1>8, <1>9, <1>11 DEF Remembered, Idle
<1> QED BY <1>12, <1>13, <1>14, <1>15, <1>16, <1>17, <1>18

\* The order of the calls is no part of the invariant.
LEMMA UnqueuedPreserves ==
  ASSUME IInv, storeQueue' \in Seq(Requests),
         UNCHANGED <<snapshot, used, idempotency, request, tags, faults, history>>
  PROVE  IInv'
<1>1. TypeOK'
  BY DEF IInv, TypeOK, history
<1>2. SnapshotsOK' /\ HoldsRecord' /\ OneRequest'
  BY DEF IInv, SnapshotsOK, HoldsRecord, OneRequest, history
<1>3. EffectOK' /\ SendsOK' /\ Remembered'
  BY DEF IInv, EffectOK, SendsOK, Remembered, Unsent, history
<1> QED BY <1>1, <1>2, <1>3 DEF IInv

LEMMA ExecutePreserves ==
  ASSUME IInv, NEW r \in Requests, Executes(r)
  PROVE  IInv'
<1>0. /\ request \in [Requests -> Locals] /\ request[r] \in Locals
      /\ applied \subseteq Automations /\ tags \subseteq Automations
      /\ storeQueue \in Seq(Requests) /\ faults \in 0 .. MaxFaults
      /\ Append(storeQueue, r) \in Seq(Requests) /\ 0 \in 0 .. MaxAttempts - 1
  BY AutomationAssumption DEF IInv, TypeOK
<1>1. CASE Connect(r)
  <2> DEFINE l == [request[r] EXCEPT !.step = "read"]
  <2>1. l \in Locals /\ l.step = "read" /\ l.automation = request[r].automation
        /\ l.loaded = request[r].loaded
    BY <1>0 DEF Locals
  <2>2. request' = [request EXCEPT ![r] = l] /\ Unsent(request[r]) /\ request[r].step # "idle"
    BY <1>0, <1>1 DEF Connect, Unsent
  <2> HIDE DEF l
  <2> QED BY <1>0, <1>1, <2>1, <2>2, RequestStep DEF Connect, history
<1>2. CASE ConnectFails(r)
  <2>1. request[r].step = "connect" /\ request' = [request EXCEPT ![r] = Idle]
        /\ faults' \in 0 .. MaxFaults
    BY <1>0, <1>2, AutomationAssumption DEF ConnectFails
  <2>2. ~Unsent(Idle) /\ Idle.step # "verify"
    BY DEF Unsent, Idle
  <2> QED BY <1>0, <1>2, <2>1, <2>2, IdleType, RequestStep DEF ConnectFails, history
<1>3. ASSUME NEW step, Served(r, step) PROVE Tail(storeQueue) \in Seq(Requests)
  BY <1>0, <1>3 DEF Served
<1>4. CASE Read(r)
  <2> DEFINE l == [request[r] EXCEPT !.step = "mutate", !.before = tags, !.attempt = 0]
  <2>1. l \in Locals /\ l.step = "mutate" /\ l.automation = request[r].automation
        /\ l.loaded = request[r].loaded
    BY <1>0 DEF Locals
  <2>2. request' = [request EXCEPT ![r] = l] /\ Unsent(request[r]) /\ request[r].step # "idle"
    BY <1>0, <1>4 DEF Read, Served, Unsent
  <2> HIDE DEF l
  <2>3. storeQueue' \in Seq(Requests)
    BY <1>3, <1>4 DEF Read
  <2> QED BY <1>0, <1>4, <2>1, <2>2, <2>3, RequestStep DEF Read, history
<1>5. CASE Mutate(r)
  <2> DEFINE l == [request[r] EXCEPT !.step = "verify", !.attempt = 0]
  <2>1. l \in Locals /\ l.step = "verify" /\ l.automation = request[r].automation
        /\ l.loaded = request[r].loaded
    BY <1>0 DEF Locals
  <2>2. request' = [request EXCEPT ![r] = l] /\ request[r].step = "mutate" /\ ~Unsent(l)
    BY <1>0, <1>5, <2>1 DEF Mutate, Served, Unsent
  <2> HIDE DEF l
  <2>3. storeQueue' \in Seq(Requests)
    BY <1>3, <1>5 DEF Mutate
  <2>4. tags' \subseteq Automations /\ applied \subseteq applied' /\ applied' \subseteq Automations
        /\ request[r].automation \in applied' /\ approvals' = approvals
        /\ sends' = [sends EXCEPT ![request[r].automation] =
                       IF request[r].attempt = 0 THEN @ + 1 ELSE @]
    <3>1. request[r].automation \in Automations /\ request[r].before \subseteq Automations
      BY <1>0, <2>2 DEF IInv, HoldsRecord, Locals
    <3> QED BY <3>1, <1>0, <1>5 DEF Mutate, Sent, TakesEffect, NextTags
  <2>5. UNCHANGED <<snapshot, used, idempotency, faults>>
    BY <1>5 DEF Mutate
  <2> QED BY <1>0, <2>1, <2>2, <2>3, <2>4, <2>5, RequestStep
<1>6. CASE Retry(r)
  <2> DEFINE l == [request[r] EXCEPT !.attempt = @ + 1]
  <2>1. l \in Locals /\ l.step = request[r].step /\ l.automation = request[r].automation
        /\ l.loaded = request[r].loaded /\ l.attempt # 0
    <3>1. request[r].attempt \in 0 .. MaxAttempts - 1 /\ request[r].attempt + 1 < MaxAttempts
      BY <1>0, <1>6 DEF Locals, Retry
    <3>2. request[r].attempt + 1 \in 0 .. MaxAttempts - 1 /\ request[r].attempt + 1 # 0
      BY <3>1, AutomationAssumption
    <3> QED BY <1>0, <3>2 DEF Locals
  <2>2. request' = [request EXCEPT ![r] = l] /\ request[r].step \in {"read", "mutate", "verify"}
    BY <1>0, <1>6 DEF Retry, Served
  <2> HIDE DEF l
  <2>3. Attempted(r) /\ UNCHANGED <<snapshot, used, idempotency, storeQueue>> /\ faults' \in 0 .. MaxFaults
    BY <1>0, <1>6, AutomationAssumption DEF Retry
  <2>4. \/ sends' = sends /\ (Unsent(l) => Unsent(request[r]))
        \/ /\ request[r].step = "mutate" /\ ~Unsent(l)
           /\ sends' = [sends EXCEPT ![request[r].automation] =
                          IF request[r].attempt = 0 THEN @ + 1 ELSE @]
    BY <2>1, <2>2, <2>3, AttemptEffect DEF Unsent
  <2>5. l.step = "verify" => request[r].automation \in applied'
    BY <2>1, <2>2, <2>3, AttemptEffect DEF IInv, EffectOK
  <2> QED BY <1>0, <2>1, <2>2, <2>3, <2>4, <2>5, AttemptEffect, RequestStep
<1>7. CASE Fail(r)
  <2>1. request[r].step \in {"read", "mutate", "verify"} /\ storeQueue' \in Seq(Requests)
    BY <1>3, <1>7 DEF Fail, Served
  <2>2. Attempted(r) /\ UNCHANGED <<snapshot, used, idempotency>> /\ faults' \in 0 .. MaxFaults
    BY <1>0, <1>7, AutomationAssumption DEF Fail
  <2>3. request' = [request EXCEPT ![r] = Idle] /\ ~Unsent(Idle) /\ Idle.step # "verify"
    BY <1>7 DEF Fail, Unsent, Idle
  <2> QED BY <2>1, <2>2, <2>3, IdleType, AttemptEffect, RequestStep
<1>8. CASE Mismatch(r)
  <2>1. request[r].step = "verify" /\ storeQueue' \in Seq(Requests)
    BY <1>3, <1>8 DEF Mismatch, Served
  <2> QED BY <1>0, <1>8, <2>1, IdleType, RequestStep DEF Mismatch, history, Idle, Unsent
<1>9. CASE Complete(r)
  BY <1>9, CompletePreserves
<1>10. CASE Queue(r)
  <2>1. storeQueue' \in Seq(Requests)
        /\ UNCHANGED <<snapshot, used, idempotency, request, tags, faults, history>>
    BY <1>0, <1>10 DEF Queue
  <2> QED BY <2>1, UnqueuedPreserves
<1> QED BY <1>1, <1>2, <1>4, <1>5, <1>6, <1>7, <1>8, <1>9, <1>10 DEF Executes

\* With the maps of the process every record is gone, and every id drawn
\* from them is never drawn again.
LEMMA CrashPreserves ==
  ASSUME IInv, Crash
  PROVE  IInv'
<1> USE DEF IInv
<1>1. \A r \in Requests : request'[r] = Idle
  BY DEF Crash
<1>2. \A a \in Automations : snapshot'[a].status = "absent" /\ NoSnapshot[a].status = "absent"
  BY DEF Crash, NoSnapshot, Absent
<1>3. TypeOK'
  <2>1. snapshot' \in Snapshots /\ request' \in [Requests -> Locals]
    BY NoSnapshotType, IdleType DEF Crash
  <2>2. storeQueue' \in Seq(Requests) /\ faults' \in 0 .. MaxFaults
    BY AutomationAssumption DEF Crash, TypeOK
  <2> QED BY <2>1, <2>2 DEF Crash, TypeOK, history
<1>4. SnapshotsOK'
  BY <1>1, NoSnapshotOK DEF SnapshotsOK, Crash, Idle
<1>5. HoldsRecord' /\ OneRequest' /\ EffectOK'
  BY <1>1 DEF HoldsRecord, OneRequest, EffectOK, Crash, Idle
<1>6. SendsOK'
  BY <1>1 DEF SendsOK, Unsent, Idle, Crash, history
<1>7. Remembered'
  BY <1>1, <1>2 DEF Remembered, Idle
<1> QED BY <1>3, <1>4, <1>5, <1>6, <1>7

LEMMA UntouchedPreserves ==
  ASSUME IInv, UNCHANGED <<memory, used, faults, history>>, tags' \subseteq Automations
  PROVE  IInv'
  BY DEF IInv, TypeOK, SnapshotsOK, HoldsRecord, OneRequest, EffectOK, SendsOK, Unsent,
         Remembered, memory, history

LEMMA StepPreserves ==
  ASSUME IInv, [Next]_vars
  PROVE  IInv'
<1>1. ASSUME NEW edited \in Edits, EditProduct(edited) PROVE IInv'
  BY <1>1, AutomationAssumption, UntouchedPreserves DEF EditProduct
<1>2. CASE UNCHANGED vars
  BY <1>2, UntouchedPreserves DEF vars, IInv, TypeOK
<1> QED BY <1>1, <1>2, DecidePreserves, BeginPreserves, ExecutePreserves, CrashPreserves DEF Next

LEMMA InitEstablishes == Init => IInv
<1> SUFFICES ASSUME Init PROVE IInv
  OBVIOUS
<1>1. TypeOK
  BY NoSnapshotType, IdleType, AutomationAssumption DEF Init, TypeOK
<1>2. SnapshotsOK
  BY NoSnapshotOK DEF Init, SnapshotsOK, Idle
<1>3. HoldsRecord /\ OneRequest /\ EffectOK /\ SendsOK /\ Remembered
  BY DEF Init, HoldsRecord, OneRequest, EffectOK, SendsOK, Unsent, Remembered, Idle
<1> QED BY <1>1, <1>2, <1>3 DEF IInv

-----------------------------------------------------------------------------
(* The theorems                                                            *)

(* The inductive invariant: every snapshot, current or stale, names known   *)
(* ids, consented approvals and real effects; a request that executes holds *)
(* the record of its automation; what was sent is remembered.               *)
THEOREM AutomationInvariant == Spec => []IInv
<1> QED BY InitEstablishes, StepPreserves, PTL DEF Spec

(* Every reachable state of the automations is well typed.                  *)
THEOREM AutomationTypeCorrect == Spec => []TypeOK
<1>1. IInv => TypeOK
  BY DEF IInv
<1> QED BY <1>1, AutomationInvariant, PTL

(* beginIdempotency admits one execution of an automation, whatever stale   *)
(* snapshots make of its status, and however the process crashes.           *)
THEOREM SentOnce == Spec => []OneExecution
<1>1. IInv => OneExecution
  BY DEF IInv, SendsOK, OneExecution
<1> QED BY <1>1, AutomationInvariant, PTL

(* No mutation is sent without the approval of a merchant.                  *)
THEOREM ApprovedBeforeSent == Spec => []ExecutionsAreApproved
<1>1. IInv => ExecutionsAreApproved
  BY DEF IInv, SendsOK, ExecutionsAreApproved
<1> QED BY <1>1, AutomationInvariant, PTL

(* No snapshot, current or stale, calls an automation executed that has not *)
(* taken effect at Shopify.                                                 *)
THEOREM RecordedIsDone == Spec => []ExecutedMeansDone
<1>1. IInv => ExecutedMeansDone
  BY DEF IInv, SnapshotsOK, SnapshotOK, RecordOK, ExecutedMeansDone
<1> QED BY <1>1, AutomationInvariant, PTL

(* No source ever has two automations that are not archived.                *)
THEOREM SourcesAreSingle == Spec => []OnePerSource
<1>1. IInv => OnePerSource
  BY DEF IInv, SnapshotsOK, SnapshotOK, Free, OnePerSource
<1> QED BY <1>1, AutomationInvariant, PTL

-----------------------------------------------------------------------------
(* The refinement of Effects                                               *)

\* What a snapshot, current or stale, calls executed has a completed record;
\* a mutation that is tried again has been sent.
EffectsInv ==
  /\ \A a \in Automations : snapshot[a].status \in Executed => idempotency[a] = "completed"
  /\ \A a \in Automations, r \in Requests :
       request[r].loaded[a].status \in Executed => idempotency[a] = "completed"
  /\ \A r \in Requests : request[r].step = "mutate" /\ request[r].attempt # 0
                           => sends[request[r].automation] = 1

\* A decision calls an automation executed if it was, or if its record says so.
LEMMA MoveEffects ==
  ASSUME IInv, EffectsInv, NEW a \in Automations, NEW to \in Statuses, Move(a, to),
         to \in Executed => idempotency[a] = "completed",
         UNCHANGED sends
  PROVE  EffectsInv'
<1>1. snapshot \in Snapshots /\ snapshot[a] \in Records
  BY DEF IInv, TypeOK, Snapshots
<1>2. snapshot'[a].status = to /\ \A b \in Automations \ {a} : snapshot'[b] = snapshot[b]
  BY <1>1, MovedType DEF Move, Snapshots
<1> QED BY <1>2 DEF EffectsInv, Move

LEMMA DecideEffects ==
  ASSUME IInv, EffectsInv, NEW a \in Automations, Decides(a)
  PROVE  EffectsInv'
<1> USE StatusValues
<1>0. snapshot \in Snapshots /\ snapshot[a] \in Records
  BY DEF IInv, TypeOK, Snapshots
<1>1. ASSUME NEW status \in {"draft", "prepared"}, Create(a, status) PROVE EffectsInv'
  <2>1. \A b \in Automations : snapshot'[b].status \in Executed => snapshot'[b] = snapshot[b]
    BY <1>0, <1>1 DEF Create, Snapshots, Draft, Executed
  <2> QED BY <1>1, <2>1 DEF EffectsInv, Create, history
<1>2. CASE Submit(a)
  BY <1>2, MoveEffects DEF Submit, history, Executed
<1>3. CASE Approve(a)
  BY <1>3, MoveEffects DEF Approve, Executed
<1>4. CASE RequestChanges(a)
  BY <1>4, MoveEffects DEF RequestChanges, history, Executed
<1>5. CASE Cancel(a)
  BY <1>5, MoveEffects DEF Cancel, history, Executed
<1>6. ASSUME NEW satisfied \in BOOLEAN, Verify(a, satisfied) PROVE EffectsInv'
  <2> DEFINE to == IF satisfied THEN "verified" ELSE "verifying"
  <2>1. snapshot[a].status = "executed"
    BY <1>0, <1>6 DEF Verify, CanMove, Allowed, Records
  <2>2. idempotency[a] = "completed"
    BY <2>1 DEF EffectsInv, Executed
  <2>3. to \in Statuses
    OBVIOUS
  <2>4. Move(a, to) /\ UNCHANGED sends
    BY <1>6 DEF Verify, history
  <2> HIDE DEF to
  <2> QED BY <2>2, <2>3, <2>4, MoveEffects
<1>7. CASE Archive(a)
  <2>1. snapshot[a].status = "verified"
    BY <1>0, <1>7 DEF Archive, CanMove, Allowed, Records
  <2>2. idempotency[a] = "completed"
    BY <2>1 DEF EffectsInv, Executed
  <2> QED BY <1>7, <2>2, MoveEffects DEF Archive, history
<1>8. CASE Refuse(a)
  BY <1>8, MoveEffects DEF Refuse, history, Executed
<1>9. CASE Replay(a)
  BY <1>9, MoveEffects DEF Replay, history
<1> QED BY <1>1, <1>2, <1>3, <1>4, <1>5, <1>6, <1>7, <1>8, <1>9 DEF Decides

LEMMA BeginEffects ==
  ASSUME IInv, EffectsInv, NEW r \in Requests, NEW a \in Automations, Begin(r, a)
  PROVE  EffectsInv'
<1>1. /\ snapshot \in Snapshots /\ snapshot[a] \in Records
      /\ idempotency[a] = "none" /\ "executing" \in Statuses
  BY StatusValues DEF IInv, TypeOK, Snapshots, Begin
<1>2. /\ snapshot'[a].status = "executing"
      /\ \A b \in Automations \ {a} : snapshot'[b] = snapshot[b]
  BY <1>1, MovedType DEF Begin, Started, Snapshots
<1>3. \A b \in Automations \ {a} : idempotency'[b] = idempotency[b]
  BY DEF Begin, Started, IInv, TypeOK
<1>4. /\ request'[r].step = "connect" /\ request'[r].loaded = snapshot'
      /\ \A t \in Requests \ {r} : request'[t] = request[t]
  BY DEF Begin, Started, IInv, TypeOK, Idle
<1>5. \A b \in Automations : snapshot'[b].status \in Executed => idempotency'[b] = "completed"
  BY <1>2, <1>3 DEF EffectsInv, Executed
<1>6. \A b \in Automations, t \in Requests \ {r} :
        request[t].loaded[b].status \in Executed => b # a
  BY <1>1 DEF EffectsInv
<1>7. UNCHANGED sends
  BY DEF Begin, Started, history
<1> QED BY <1>3, <1>4, <1>5, <1>6, <1>7 DEF EffectsInv

\* A request that is served keeps its snapshot until it ends.
LEMMA RequestEffects ==
  ASSUME IInv, EffectsInv, NEW r \in Requests, NEW l,
         request' = [request EXCEPT ![r] = l],
         l = Idle \/ l.loaded = request[r].loaded,
         l.step = "mutate" /\ l.attempt # 0 => sends'[l.automation] = 1,
         \A t \in Requests \ {r} : request[t].step = "mutate"
           => sends'[request[t].automation] = sends[request[t].automation],
         UNCHANGED <<snapshot, idempotency>>
  PROVE  EffectsInv'
<1>1. request'[r] = l /\ \A t \in Requests \ {r} : request'[t] = request[t]
  BY DEF IInv, TypeOK
<1>2. \A a \in Automations : Idle.loaded[a].status \notin Executed
  BY DEF Idle, NoSnapshot, Absent, Executed
<1> QED BY <1>1, <1>2 DEF EffectsInv

\* A call of the mutation, by the number of its attempt.
LEMMA SendEffects ==
  ASSUME IInv, EffectsInv, NEW r \in Requests, request[r].step = "mutate", Sent(r)
  PROVE  /\ sends'[request[r].automation] = 1
         /\ \A t \in Requests \ {r} : request[t].step = "mutate"
              => sends'[request[t].automation] = sends[request[t].automation]
<1> DEFINE a == request[r].automation
<1>1. /\ a \in Automations /\ sends \in [Automations -> Nat]
      /\ \A t \in Requests \ {r} : request[t].step = "mutate" => request[t].automation # a
  BY DEF IInv, HoldsRecord, OneRequest, TypeOK
<1>2. request[r].attempt = 0 => sends[a] = 0
  BY DEF IInv, SendsOK, Unsent
<1>3. request[r].attempt # 0 => sends[a] = 1
  BY DEF EffectsInv
<1>4. \A t \in Requests \ {r} : request[t].step = "mutate" => request[t].automation \in Automations
  BY DEF IInv, HoldsRecord
<1> QED BY <1>1, <1>2, <1>3, <1>4 DEF Sent

LEMMA ExecuteEffects ==
  ASSUME IInv, EffectsInv, NEW r \in Requests, Executes(r)
  PROVE  EffectsInv'
<1>0. request \in [Requests -> Locals] /\ request[r] \in Locals
  BY DEF IInv, TypeOK
<1>1. Idle.step # "mutate"
  BY DEF Idle
<1>2. CASE Connect(r)
  <2> DEFINE l == [request[r] EXCEPT !.step = "read"]
  <2>1. request' = [request EXCEPT ![r] = l] /\ l.loaded = request[r].loaded /\ l.step = "read"
    BY <1>0, <1>2 DEF Connect, Locals
  <2> HIDE DEF l
  <2> QED BY <1>2, <2>1, RequestEffects DEF Connect, history
<1>3. CASE ConnectFails(r)
  BY <1>1, <1>3, RequestEffects DEF ConnectFails, history
<1>4. CASE Read(r)
  <2> DEFINE l == [request[r] EXCEPT !.step = "mutate", !.before = tags, !.attempt = 0]
  <2>1. request' = [request EXCEPT ![r] = l] /\ l.loaded = request[r].loaded /\ l.attempt = 0
    BY <1>0, <1>4 DEF Read, Locals
  <2> HIDE DEF l
  <2> QED BY <1>4, <2>1, RequestEffects DEF Read, history
<1>5. CASE Mutate(r)
  <2> DEFINE l == [request[r] EXCEPT !.step = "verify", !.attempt = 0]
  <2>1. request' = [request EXCEPT ![r] = l] /\ l.loaded = request[r].loaded /\ l.step = "verify"
    BY <1>0, <1>5 DEF Mutate, Locals
  <2> HIDE DEF l
  <2>2. request[r].step = "mutate" /\ Sent(r) /\ UNCHANGED <<snapshot, idempotency>>
    BY <1>5 DEF Mutate, Served
  <2> QED BY <2>1, <2>2, SendEffects, RequestEffects
<1>6. CASE Retry(r)
  <2> DEFINE l == [request[r] EXCEPT !.attempt = @ + 1]
  <2>1. /\ request' = [request EXCEPT ![r] = l] /\ l.loaded = request[r].loaded
        /\ l.step = request[r].step /\ l.automation = request[r].automation
    BY <1>0, <1>6 DEF Retry, Locals
  <2> HIDE DEF l
  <2>2. UNCHANGED <<snapshot, idempotency>> /\ Attempted(r)
    BY <1>6 DEF Retry
  <2>3. CASE request[r].step = "mutate"
    BY <2>1, <2>2, <2>3, SendEffects, RequestEffects DEF Attempted
  <2>4. CASE request[r].step # "mutate"
    BY <2>1, <2>2, <2>4, RequestEffects DEF Attempted, history
  <2> QED BY <2>3, <2>4
<1>7. CASE Fail(r)
  <2>1. UNCHANGED <<snapshot, idempotency>> /\ Attempted(r) /\ request' = [request EXCEPT ![r] = Idle]
    BY <1>7 DEF Fail
  <2>2. CASE request[r].step = "mutate"
    BY <1>1, <2>1, <2>2, SendEffects, RequestEffects DEF Attempted
  <2>3. CASE request[r].step # "mutate"
    BY <1>1, <2>1, <2>3, RequestEffects DEF Attempted, history
  <2> QED BY <2>2, <2>3
<1>8. CASE Mismatch(r)
  BY <1>1, <1>8, RequestEffects DEF Mismatch, history
<1>9. CASE Complete(r)
  <2> DEFINE a == request[r].automation
             loaded == request[r].loaded
  <2>1. a \in Automations /\ loaded \in Snapshots
    BY <1>0, <1>9 DEF IInv, HoldsRecord, Complete, Served, Locals
  <2>2. \A b \in Automations \ {a} : snapshot'[b] = loaded[b]
    BY <1>9, <2>1 DEF Complete, Recorded, Snapshots
  <2>3. idempotency' = [idempotency EXCEPT ![a] = "completed"]
        /\ request' = [request EXCEPT ![r] = Idle] /\ UNCHANGED sends
    BY <1>9 DEF Complete, Recorded, history
  <2>4. \A b \in Automations : idempotency[b] = "completed" => idempotency'[b] = "completed"
    BY <2>1, <2>3 DEF IInv, TypeOK
  <2>5. idempotency'[a] = "completed"
    BY <2>1, <2>3 DEF IInv, TypeOK
  <2>6. request'[r] = Idle /\ \A t \in Requests \ {r} : request'[t] = request[t]
    BY <1>0, <2>3
  <2>7. \A b \in Automations : Idle.loaded[b].status \notin Executed
    BY DEF Idle, NoSnapshot, Absent, Executed
  <2> QED BY <1>1, <2>2, <2>3, <2>4, <2>5, <2>6, <2>7 DEF EffectsInv
<1>10. CASE Queue(r)
  BY <1>10 DEF Queue, EffectsInv, history
<1> QED BY <1>2, <1>3, <1>4, <1>5, <1>6, <1>7, <1>8, <1>9, <1>10 DEF Executes

LEMMA CrashEffects == ASSUME IInv, EffectsInv, Crash PROVE EffectsInv'
  BY DEF EffectsInv, Crash, Idle, NoSnapshot, Absent, Executed

LEMMA EffectsStep ==
  ASSUME IInv, EffectsInv, [Next]_vars
  PROVE  EffectsInv'
<1>1. ASSUME UNCHANGED <<memory, history>> PROVE EffectsInv'
  BY <1>1 DEF EffectsInv, memory, history
<1>2. ASSUME NEW edited \in Edits, EditProduct(edited) PROVE EffectsInv'
  BY <1>1, <1>2 DEF EditProduct
<1>3. CASE UNCHANGED vars
  BY <1>1, <1>3 DEF vars
<1> QED BY <1>2, <1>3, DecideEffects, BeginEffects, ExecuteEffects, CrashEffects DEF Next

\* A step that sends nothing changes at most what the snapshot says.
LEMMA RecordMaps ==
  ASSUME IInv', UNCHANGED history
  PROVE  E!Next
<1>1. Finished' \subseteq applied
  BY DEF IInv, SnapshotsOK, SnapshotOK, RecordOK, Finished, history
<1> QED BY <1>1 DEF E!Next, E!Record, history

\* A call of the mutation is the first of its automation, or a repetition of
\* one that no snapshot calls executed.
LEMMA CallMaps ==
  ASSUME IInv, EffectsInv, NEW r \in Requests, request[r].step = "mutate", Sent(r),
         TakesEffect(r) \/ HasNoEffect, UNCHANGED snapshot
  PROVE  E!Next
<1> DEFINE a == request[r].automation
<1>1. /\ a \in Automations /\ a \in approvals /\ sends \in [Automations -> Nat]
      /\ idempotency[a] = "in_progress"
  BY DEF IInv, HoldsRecord, TypeOK
<1>2. E!Called(a) /\ UNCHANGED <<approvals, Finished>>
  BY DEF E!Called, Sent, TakesEffect, HasNoEffect, Finished
<1>3. CASE request[r].attempt = 0
  <2>1. sends[a] = 0
    BY <1>3 DEF IInv, SendsOK, Unsent
  <2>2. sends' = [sends EXCEPT ![a] = 1]
    BY <1>1, <1>3, <2>1 DEF Sent
  <2> QED BY <1>1, <1>2, <2>1, <2>2 DEF E!Next, E!Send
<1>4. CASE request[r].attempt # 0
  <2>1. sends[a] = 1 /\ a \notin Finished
    BY <1>1, <1>4 DEF EffectsInv, Finished
  <2>2. sends' = sends
    BY <1>1, <1>4 DEF Sent
  <2> QED BY <1>1, <1>2, <2>1, <2>2 DEF E!Next, E!SendAgain
<1> QED BY <1>3, <1>4

\* An approval is none of an automation that is called executed, before or after.
LEMMA ApproveMaps ==
  ASSUME IInv, NEW a \in Automations, Approve(a)
  PROVE  E!Next
<1>1. snapshot \in Snapshots /\ snapshot[a] \in Records /\ "approved" \in Statuses
  BY StatusValues DEF IInv, TypeOK, Snapshots
<1>2. snapshot[a].status \notin Executed /\ snapshot'[a].status \notin Executed
      /\ \A b \in Automations \ {a} : snapshot'[b] = snapshot[b]
  BY <1>1, MovedType DEF Approve, Move, Snapshots, Executed
<1>3. Finished' = Finished
  BY <1>2 DEF Finished
<1> QED BY <1>3 DEF E!Next, E!Approve, Approve

LEMMA StepMaps ==
  ASSUME IInv, IInv', EffectsInv, [Next]_vars
  PROVE  [E!Next]_<<approvals, sends, applied, Finished>>
<1>1. ASSUME NEW a \in Automations, Decides(a)
      PROVE  E!Next
  BY <1>1, ApproveMaps, RecordMaps
     DEF Decides, Create, Submit, RequestChanges, Cancel, Verify, Archive, Refuse, Replay
<1>2. ASSUME NEW r \in Requests, NEW a \in Automations, Begin(r, a)
      PROVE  E!Next
  BY <1>2, RecordMaps DEF Begin, Started
<1>3. ASSUME NEW r \in Requests, Executes(r)
      PROVE  E!Next
  <2>1. CASE Connect(r) \/ ConnectFails(r) \/ Queue(r) \/ Read(r) \/ Mismatch(r) \/ Complete(r)
    BY <2>1, RecordMaps DEF Connect, ConnectFails, Queue, Read, Mismatch, Complete, Recorded
  <2>2. CASE Mutate(r)
    BY <2>2, CallMaps DEF Mutate, Served
  <2>3. CASE Retry(r) \/ Fail(r)
    <3>1. Attempted(r) /\ UNCHANGED snapshot
      BY <2>3 DEF Retry, Fail
    <3>2. CASE request[r].step = "mutate"
      BY <3>1, <3>2, CallMaps DEF Attempted
    <3>3. CASE request[r].step # "mutate"
      BY <3>1, <3>3, RecordMaps DEF Attempted
    <3> QED BY <3>2, <3>3
  <2> QED BY <1>3, <2>1, <2>2, <2>3 DEF Executes
<1>4. ASSUME Crash \/ \E edited \in Edits : EditProduct(edited)
      PROVE  E!Next
  BY <1>4, RecordMaps DEF Crash, EditProduct
<1>5. CASE UNCHANGED vars
  BY <1>5 DEF vars, memory, history, Finished
<1> QED BY <1>1, <1>2, <1>3, <1>4, <1>5 DEF Next

(* What requests, stale snapshots, errors and crashes make of the           *)
(* automations is an execution of Effects: approved, sent once, repeated    *)
(* only until it is recorded, and recorded only when it has taken effect.   *)
THEOREM AutomationImplementsEffects == Spec => EffectsSpec
<1>1. Init => EffectsInv
  BY DEF Init, EffectsInv, NoSnapshot, Absent, Executed, Idle
<1>2. IInv /\ EffectsInv /\ [Next]_vars => EffectsInv'
  BY EffectsStep
<1>3. Init => E!Init
  BY DEF Init, E!Init, Finished, NoSnapshot, Absent, Executed
<1>4. IInv /\ IInv' /\ EffectsInv /\ [Next]_vars
        => [E!Next]_<<approvals, sends, applied, Finished>>
  BY StepMaps
<1> QED BY <1>1, <1>2, <1>3, <1>4, AutomationInvariant, PTL DEF Spec, EffectsSpec, E!Spec
=============================================================================
