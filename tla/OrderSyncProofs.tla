--------------------------- MODULE OrderSyncProofs ---------------------------
(***************************************************************************)
(* Proofs about OrderSync, for any orders, pages, runs, webhooks, plans and *)
(* faults.  The inductive invariant says of every cursor, saved or held by *)
(* a run, that it leaves no order of the installation behind, and of the   *)
(* holder of the billing lock that there is room for its order.            *)
(***************************************************************************)
EXTENDS OrderSync, FiniteSetTheorems, TLAPS

Placed == {o \in Orders : shop[o] >= 1}

\* What a run knows: its orders exist, and none was left behind its cursor.
RunOK(l, stored, placed) ==
  /\ l.q \subseteq placed /\ l.left \subseteq placed
  /\ l.at = "retry" => l.left \subseteq l.q
  /\ l.at \in {"fetch", "page"} => ~l.paged
  /\ l.at = "page" => \A o \in l.left : l.snap[o] >= 1
  /\ l.at \in {"retry", "fetch"} => Present \subseteq stored \cup l.q \cup Ahead(l.page, l.paged)
  /\ l.at = "page" => Present \subseteq stored \cup l.q \cup l.left \cup Ahead(l.page + 1, FALSE)
  /\ l.at = "stopped" => l.blocked
  /\ l.since # 0 => Present \subseteq stored

\* What an upsert knows of the run it belongs to and of the table.
TakenOK == \A r \in Runs : tx[r] # NoTx =>
  run[r].at \in {"retry", "page"} /\ tx[r].order \in run[r].left
FoundOK == \A p \in Actors : tx[p] # NoTx /\ tx[p].stage = "update" => tx[p].order \in Stored

RunsOK == \A r \in Runs : RunOK(run[r], Stored, Placed)

SavedOK ==
  /\ saved.q \subseteq Placed
  /\ CursorCovers
  /\ lastSync # 0 \/ importDone => Present \subseteq Stored

Inserts(p) == tx[p] # NoTx /\ tx[p].stage = "insert"

PlanOK ==
  /\ \A p, s \in Actors : Inserts(p) /\ Inserts(s) => p = s
  /\ \A p \in Actors : Inserts(p) => Cardinality(Stored) + 1 <= limit

PresentPlaced == Present \subseteq Placed

IInv == TypeOK /\ PresentPlaced /\ TakenOK /\ FoundOK /\ RunsOK /\ SavedOK /\ PlanOK

Outcomes == {"upserted", "skipped", "limit", "thrown"}

-----------------------------------------------------------------------------
(* Lemmas about the locals of a run                                        *)

LEMMA IdleType == Idle \in Locals
  BY OrderSyncAssumption DEF Idle, Locals, NoSnap, Pages

\* The outcome of an order leaves the locals of its run well typed.
LEMMA SettledType ==
  ASSUME NEW l \in Locals, NEW o \in Orders, NEW c \in Outcomes
  PROVE  Settled(l, o, c) \in Locals
<1>0. [l.snap EXCEPT ![o] = 0] \in [Orders -> 0 .. MaxNow]
  <2>1. l.snap \in [Orders -> 0 .. MaxNow]
    BY DEF Locals
  <2> QED BY <2>1, OrderSyncAssumption
<1>1. [l EXCEPT !.left = @ \ {o}, !.snap[o] = 0] \in Locals
  BY <1>0 DEF Locals
<1>2. CASE c = "upserted"
  BY <1>1, <1>2 DEF Settled, Locals
<1>3. CASE c = "skipped"
  BY <1>1, <1>3 DEF Settled, Locals
<1>4. CASE c = "limit"
  <2>1. NoSnap \in [Orders -> 0 .. MaxNow]
    BY OrderSyncAssumption DEF NoSnap
  <2> QED BY <2>1, <1>4 DEF Settled, Locals
<1>5. CASE c = "thrown"
  BY <1>1, <1>5, IdleType DEF Settled
<1> QED BY <1>2, <1>3, <1>4, <1>5 DEF Outcomes

\* An idle run has nothing to lose.
LEMMA IdleOK == ASSUME NEW st, NEW pl PROVE RunOK(Idle, st, pl)
  BY DEF Idle, RunOK

\* Rows and orders are only added: what a run knows stays true.
LEMMA RunMonotone ==
  ASSUME NEW l, NEW st, NEW st2, NEW pl, NEW pl2,
         RunOK(l, st, pl), st \subseteq st2, pl \subseteq pl2
  PROVE  RunOK(l, st2, pl2)
  BY DEF RunOK

\* An order is dropped from what a run has left only when it is stored, in
\* the quarantine, or the run keeps its cursor.
LEMMA SettledOK ==
  ASSUME NEW l \in Locals, NEW st, NEW pl, NEW o \in l.left, NEW c \in Outcomes,
         RunOK(l, st, pl), l.at \in {"retry", "page"},
         c = "upserted" => o \in st
  PROVE  RunOK(Settled(l, o, c), st, pl)
<1>1. l.snap \in [Orders -> 0 .. MaxNow] /\ l.left \subseteq Orders /\ l.q \subseteq Orders /\ o \in pl
  BY DEF Locals, RunOK
<1>2. CASE c = "upserted"
  BY <1>1, <1>2 DEF Settled, RunOK, Locals
<1>3. CASE c = "skipped"
  BY <1>1, <1>3 DEF Settled, RunOK, Locals
<1>4. CASE c = "limit"
  BY <1>1, <1>4 DEF Settled, RunOK, Locals
<1>5. CASE c = "thrown" /\ l.at = "retry"
  BY <1>1, <1>5 DEF Settled, RunOK, Locals
<1>6. CASE c = "thrown" /\ l.at = "page"
  BY <1>6, IdleOK DEF Settled
<1> QED BY <1>2, <1>3, <1>4, <1>5, <1>6 DEF Outcomes

-----------------------------------------------------------------------------
(* What the steps have in common                                           *)

\* Rows and orders are only added, and the other runs stay as they are.
LEMMA OneRunChanges ==
  ASSUME RunsOK, NEW r \in Runs, RunOK(run'[r], Stored', Placed'),
         \A s \in Runs \ {r} : run'[s] = run[s],
         Stored \subseteq Stored', Placed \subseteq Placed'
  PROVE  RunsOK'
  BY RunMonotone DEF RunsOK

LEMMA NoRunChanges ==
  ASSUME RunsOK, UNCHANGED run, Stored \subseteq Stored', Placed \subseteq Placed'
  PROVE  RunsOK'
  BY RunMonotone DEF RunsOK

\* A step that starts no insertion keeps the promise to those under way.
LEMMA NoneInserts ==
  ASSUME PlanOK, UNCHANGED limit, Stored' = Stored,
         \A p \in Actors : Inserts(p)' => Inserts(p)
  PROVE  PlanOK'
  BY DEF PlanOK

\* The cursor and the marks of the store survive what only adds.
LEMMA StoreKept ==
  ASSUME SavedOK, UNCHANGED store, Stored \subseteq Stored', Placed \subseteq Placed'
  PROVE  SavedOK'
  BY DEF SavedOK, CursorCovers, store

LEMMA SameRows == ASSUME UNCHANGED rows PROVE Stored' = Stored
  BY DEF Stored

LEMMA SameShop == ASSUME UNCHANGED shop PROVE Placed' = Placed
  BY DEF Placed

-----------------------------------------------------------------------------
(* The steps of a run                                                      *)

LEMMA StartSafe ==
  ASSUME IInv, NEW r \in Runs, NEW k \in Kinds, Start(r, k)
  PROVE  IInv'
<1>0. UNCHANGED <<shop, rows, limit, tx, store>> /\ run[r].at = "idle"
  BY DEF Start, shopify
<1>1. Stored' = Stored /\ Placed' = Placed
  BY <1>0, SameRows, SameShop
<1>2. TypeOK'
  <2>1. run'[r] \in Locals
    BY OrderSyncAssumption DEF IInv, TypeOK, Start, Locals, Cursors, NoSnap
  <2> QED BY <2>1 DEF IInv, TypeOK, Start, shopify, store
<1>3. PresentPlaced' /\ FoundOK' /\ SavedOK' /\ PlanOK'
  <2>1. SavedOK' BY <1>0, <1>1, StoreKept DEF IInv
  <2>2. PlanOK' BY <1>0, <1>1, NoneInserts DEF IInv, Inserts
  <2> QED BY <1>0, <1>1, <2>1, <2>2 DEF IInv, PresentPlaced, FoundOK
<1>4. TakenOK'
  BY <1>0 DEF IInv, TakenOK, TypeOK, Start
<1>5. RunOK(run'[r], Stored', Placed')
  BY <1>1 DEF IInv, SavedOK, CursorCovers, RunOK, Ahead, TypeOK, Start
<1>6. RunsOK'
  BY <1>1, <1>5, OneRunChanges DEF IInv, TypeOK, Start
<1> QED BY <1>2, <1>3, <1>4, <1>6 DEF IInv

LEMMA FetchPageSafe ==
  ASSUME IInv, NEW r \in Runs, FetchPage(r)
  PROVE  IInv'
<1>0. UNCHANGED <<shop, rows, limit, tx, store>> /\ tx[r] = NoTx /\ run[r] \in Locals
  BY DEF FetchPage, shopify, Ready, IInv, TypeOK
<1>1. Stored' = Stored /\ Placed' = Placed
  BY <1>0, SameRows, SameShop
<1> DEFINE found == {o \in Orders : /\ PageOf[o] = run[r].page
                                   /\ shop[o] > 0 /\ shop[o] >= run[r].since}
           snap == [o \in Orders |-> IF o \in found THEN shop[o] ELSE 0]
<1>2. run' = [run EXCEPT ![r].at = "page", ![r].left = found, ![r].snap = snap]
  BY DEF FetchPage
<1>3. snap \in [Orders -> 0 .. MaxNow]
  BY OrderSyncAssumption DEF IInv, TypeOK
<1>4. run'[r] = [run[r] EXCEPT !.at = "page", !.left = found, !.snap = snap]
  BY <1>2 DEF IInv, TypeOK
<1>5. run'[r] \in Locals
  BY <1>0, <1>3, <1>4 DEF Locals
<1>6. TypeOK'
  BY <1>2, <1>5 DEF IInv, TypeOK, FetchPage, shopify, store
<1>7. PresentPlaced' /\ FoundOK' /\ SavedOK' /\ PlanOK'
  <2>1. SavedOK' BY <1>0, <1>1, StoreKept DEF IInv
  <2>2. PlanOK' BY <1>0, <1>1, NoneInserts DEF IInv, Inserts
  <2> QED BY <1>0, <1>1, <2>1, <2>2 DEF IInv, PresentPlaced, FoundOK
<1>8. TakenOK'
  BY <1>0, <1>2 DEF IInv, TakenOK, TypeOK
<1>9. RunOK(run'[r], Stored, Placed)
  <2>1. RunOK(run[r], Stored, Placed) /\ ~run[r].paged /\ run[r].at \in {"retry", "fetch"}
    BY DEF IInv, RunsOK, FetchPage, RunOK
  <2>2. Ahead(run[r].page, FALSE) \subseteq
          {o \in Orders : PageOf[o] = run[r].page} \cup Ahead(run[r].page + 1, FALSE)
    BY <1>0, OrderSyncAssumption DEF Ahead, Locals, Pages
  <2>3. Present \subseteq Stored \cup run[r].q \cup Ahead(run[r].page, FALSE)
    BY <2>1 DEF RunOK, Ahead
  <2>4. run[r].since = 0 =>
          Present \cap {o \in Orders : PageOf[o] = run[r].page} \subseteq found
    BY OrderSyncAssumption DEF IInv, PresentPlaced, Placed, TypeOK
  <2>5. found \subseteq Placed /\ \A o \in found : snap[o] >= 1
    BY DEF Placed, IInv, TypeOK
  <2>6. Present \subseteq Stored \cup run[r].q \cup found \cup Ahead(run[r].page + 1, FALSE)
    BY <2>1, <2>2, <2>3, <2>4 DEF RunOK
  <2> QED BY <1>0, <1>4, <2>1, <2>5, <2>6 DEF RunOK, Locals
<1>10. RunsOK'
  BY <1>1, <1>2, <1>9, OneRunChanges DEF IInv, TypeOK
<1> QED BY <1>6, <1>7, <1>8, <1>10 DEF IInv

LEMMA TakeOrderSafe ==
  ASSUME IInv, NEW r \in Runs, NEW o \in Orders, TakeOrder(r, o)
  PROVE  IInv'
<1>0. UNCHANGED <<shop, rows, limit, run, store>> /\ run[r] \in Locals /\ r \in Actors
  BY DEF TakeOrder, shopify, IInv, TypeOK, Actors
<1>1. Stored' = Stored /\ Placed' = Placed
  BY <1>0, SameRows, SameShop
<1> DEFINE at == IF run[r].at = "page" THEN run[r].snap[o] ELSE shop[o]
<1>2. tx' = [tx EXCEPT ![r] = [order |-> o, stage |-> "fetched", at |-> at]]
  BY DEF TakeOrder
<1>3. at \in Versions
  <2>1. run[r].snap[o] \in 0 .. MaxNow /\ shop[o] \in 0 .. MaxNow
    BY <1>0 DEF Locals, IInv, TypeOK
  <2>2. shop[o] >= 1 /\ (run[r].at = "page" => run[r].snap[o] >= 1)
    BY DEF TakeOrder, IInv, RunsOK, RunOK, Placed
  <2> QED BY <2>1, <2>2, OrderSyncAssumption DEF Versions
<1>4. [order |-> o, stage |-> "fetched", at |-> at] \in Transactions
  BY <1>3 DEF Transactions
<1>5. TypeOK'
  BY <1>2, <1>4 DEF IInv, TypeOK, TakeOrder, shopify, store
<1>6. TakenOK'
  BY <1>0, <1>2 DEF IInv, TakenOK, TypeOK, TakeOrder
<1>7. FoundOK' /\ \A p \in Actors : Inserts(p)' => Inserts(p)
  BY <1>0, <1>1, <1>2 DEF IInv, FoundOK, TypeOK, Inserts
<1>8. SavedOK' /\ PlanOK' /\ RunsOK' /\ PresentPlaced'
  BY <1>0, <1>1, <1>7, StoreKept, NoneInserts, NoRunChanges DEF IInv, PresentPlaced
<1> QED BY <1>5, <1>6, <1>7, <1>8 DEF IInv

LEMMA UnreadableSafe ==
  ASSUME IInv, NEW r \in Runs, NEW o \in Orders, Unreadable(r, o)
  PROVE  IInv'
<1>0. UNCHANGED <<shop, rows, limit, tx, store>> /\ run[r] \in Locals /\ tx[r] = NoTx
  BY DEF Unreadable, shopify, IInv, TypeOK
<1>1. Stored' = Stored /\ Placed' = Placed
  BY <1>0, SameRows, SameShop
<1>2. run' = [run EXCEPT ![r] = Settled(run[r], o, "skipped")]
  BY DEF Unreadable
<1>3. TypeOK'
  <2>1. Settled(run[r], o, "skipped") \in Locals
    BY <1>0, SettledType DEF Outcomes
  <2> QED BY <1>2, <2>1, OrderSyncAssumption DEF IInv, TypeOK, Unreadable, shopify, store
<1>4. PresentPlaced' /\ FoundOK' /\ SavedOK' /\ PlanOK'
  <2>1. SavedOK' BY <1>0, <1>1, StoreKept DEF IInv
  <2>2. PlanOK' BY <1>0, <1>1, NoneInserts DEF IInv, Inserts
  <2> QED BY <1>0, <1>1, <2>1, <2>2 DEF IInv, PresentPlaced, FoundOK
<1>5. TakenOK'
  BY <1>0, <1>2 DEF IInv, TakenOK, TypeOK
<1>6. RunOK(Settled(run[r], o, "skipped"), Stored, Placed)
  <2>1. RunOK(run[r], Stored, Placed) /\ run[r].at \in {"retry", "page"} /\ o \in run[r].left
    BY DEF IInv, RunsOK, Unreadable
  <2> QED BY <1>0, <2>1, SettledOK DEF Outcomes
<1>7. RunsOK'
  BY <1>1, <1>2, <1>6, OneRunChanges DEF IInv, TypeOK
<1> QED BY <1>3, <1>4, <1>5, <1>7 DEF IInv

LEMMA PersistPageSafe ==
  ASSUME IInv, NEW r \in Runs, PersistPage(r)
  PROVE  IInv'
<1>0. /\ UNCHANGED <<shop, rows, limit, tx, importDone, lastSync>>
      /\ tx[r] = NoTx /\ run[r] \in Locals /\ run[r].left = {}
  BY DEF PersistPage, shopify, Ready, IInv, TypeOK
<1>1. Stored' = Stored /\ Placed' = Placed
  BY <1>0, SameRows, SameShop
<1>2. run[r].page + 1 \in Pages
  BY <1>0, OrderSyncAssumption DEF PersistPage, Locals, Pages
<1>3. run'[r] = [run[r] EXCEPT !.at = "fetch", !.page = @ + 1] /\ run'[r] \in Locals
  BY <1>0, <1>2 DEF PersistPage, IInv, TypeOK, Locals
<1>4. saved' = [page |-> run[r].page + 1, q |-> run[r].q, paged |-> FALSE]
  BY DEF PersistPage
<1>5. TypeOK'
  <2>1. saved' \in Cursors
    BY <1>0, <1>2, <1>4 DEF Cursors, Locals
  <2>2. run' \in [Runs -> Locals]
    BY <1>3 DEF IInv, TypeOK, PersistPage
  <2> QED BY <2>1, <2>2 DEF IInv, TypeOK, PersistPage, shopify
<1>6. RunOK(run[r], Stored, Placed) /\ run[r].at = "page"
  BY DEF IInv, RunsOK, PersistPage
<1>7. Present \subseteq Stored \cup run[r].q \cup Ahead(run[r].page + 1, FALSE)
  BY <1>0, <1>6 DEF RunOK
<1>8. RunOK(run'[r], Stored, Placed)
  BY <1>0, <1>3, <1>6, <1>7 DEF RunOK, Locals
<1>9. RunsOK'
  BY <1>1, <1>8, OneRunChanges DEF IInv, TypeOK, PersistPage
<1>10. SavedOK'
  BY <1>0, <1>1, <1>4, <1>6, <1>7 DEF IInv, SavedOK, CursorCovers, RunOK
<1>11. PresentPlaced' /\ FoundOK' /\ PlanOK'
  <2>1. PlanOK' BY <1>0, <1>1, NoneInserts DEF IInv, Inserts
  <2> QED BY <1>0, <1>1, <2>1 DEF IInv, PresentPlaced, FoundOK
<1>12. TakenOK'
  BY <1>0 DEF IInv, TakenOK, TypeOK, PersistPage
<1> QED BY <1>5, <1>9, <1>10, <1>11, <1>12 DEF IInv

LEMMA FinishSafe ==
  ASSUME IInv, NEW r \in Runs, Finish(r)
  PROVE  IInv'
<1> DEFINE l == run[r]
           paged == l.paged \/ l.page = LastPage
           done == (~l.blocked /\ l.q = {}) /\ (l.kind = "incremental" \/ paged)
<1>0. /\ UNCHANGED <<shop, now, rows, limit, tx, faults>>
      /\ tx[r] = NoTx /\ l \in Locals /\ l.left = {}
      /\ run' = [run EXCEPT ![r] = Idle]
  BY DEF Finish, shopify, Ready, IInv, TypeOK
<1>1. Stored' = Stored /\ Placed' = Placed
  BY <1>0, SameRows, SameShop
<1>2. RunOK(l, Stored, Placed)
  BY DEF IInv, RunsOK
<1>3. ~l.blocked => Present \subseteq Stored \cup l.q
  <2>1. CASE l.at = "retry" /\ l.paged
    BY <1>2, <2>1 DEF RunOK, Ahead
  <2>2. CASE l.at = "page" /\ l.page = LastPage
    <3>1. Ahead(l.page + 1, FALSE) = {}
      BY <2>2, OrderSyncAssumption DEF Ahead, Pages
    <3> QED BY <1>0, <1>2, <2>2, <3>1 DEF RunOK
  <2>3. CASE l.at = "stopped"
    BY <1>2, <2>3 DEF RunOK
  <2> QED BY <2>1, <2>2, <2>3 DEF Finish
<1>4. ASSUME done PROVE TypeOK' /\ SavedOK'
  <2>1. saved' = NoCursor /\ lastSync' = now /\ importDone' \in BOOLEAN
    BY <1>4 DEF Finish, IInv, TypeOK
  <2>2. NoCursor \in Cursors /\ now \in 0 .. MaxNow
    BY OrderSyncAssumption DEF NoCursor, Cursors, Pages, IInv, TypeOK, Versions
  <2>3. TypeOK'
    BY <1>0, <2>1, <2>2, IdleType DEF IInv, TypeOK
  <2>4. Present \subseteq Stored
    BY <1>3, <1>4
  <2>5. SavedOK'
    <3>1. saved'.q = {} BY <2>1 DEF NoCursor
    <3>2. saved'.q \subseteq Placed' BY <3>1
    <3>3. Present \subseteq Stored' BY <1>1, <2>4
    <3>4. CursorCovers' BY <3>3 DEF CursorCovers
    <3> QED BY <3>2, <3>3, <3>4 DEF SavedOK
  <2> QED BY <2>3, <2>5
<1>5. ASSUME ~done PROVE TypeOK' /\ SavedOK'
  <2>1. UNCHANGED <<importDone, lastSync>>
    BY <1>5 DEF Finish
  <2>2. saved' = IF l.blocked THEN saved
                 ELSE [page |-> IF l.kind = "historical" /\ ~paged THEN l.page ELSE 1,
                       q |-> l.q,
                       paged |-> l.kind = "incremental" \/ paged]
    BY <1>5 DEF Finish
  <2>3. 1 \in Pages
    BY OrderSyncAssumption DEF Pages
  <2>4. saved' \in Cursors
    <3>1. CASE l.blocked BY <2>2, <3>1 DEF IInv, TypeOK
    <3>2. CASE ~l.blocked BY <1>0, <2>2, <2>3, <3>2 DEF Cursors, Locals
    <3> QED BY <3>1, <3>2
  <2>5. TypeOK'
    BY <1>0, <2>1, <2>4, IdleType DEF IInv, TypeOK
  <2>6. SavedOK'
    <3>1. CASE l.blocked
      BY <1>1, <2>1, <2>2, <3>1 DEF IInv, SavedOK, CursorCovers
    <3>2. CASE ~l.blocked
      <4>1. saved'.q = l.q BY <2>2, <3>2
      <4>2. saved'.q \subseteq Placed' BY <1>1, <1>2, <4>1 DEF RunOK
      <4>3. CursorCovers' BY <1>1, <1>3, <3>2, <4>1 DEF CursorCovers
      <4> QED BY <1>1, <2>1, <4>2, <4>3 DEF IInv, SavedOK
    <3> QED BY <3>1, <3>2
  <2> QED BY <2>5, <2>6
<1>6. RunsOK'
  <2>1. RunOK(run'[r], Stored', Placed')
    BY <1>0, IdleOK DEF IInv, TypeOK
  <2> QED BY <1>0, <1>1, <2>1, OneRunChanges DEF IInv, TypeOK
<1>7. PresentPlaced' /\ FoundOK' /\ PlanOK'
  <2>1. PlanOK' BY <1>0, <1>1, NoneInserts DEF IInv, Inserts
  <2> QED BY <1>0, <1>1, <2>1 DEF IInv, PresentPlaced, FoundOK
<1>8. TakenOK'
  BY <1>0 DEF IInv, TakenOK, TypeOK
<1> QED BY <1>4, <1>5, <1>6, <1>7, <1>8 DEF IInv

-----------------------------------------------------------------------------
(* The steps of an upsert                                                  *)

LEMMA WebhookFetchSafe ==
  ASSUME IInv, NEW h \in Hooks, NEW o \in Orders, WebhookFetch(h, o)
  PROVE  IInv'
<1>0. UNCHANGED <<shop, rows, limit, run, store>> /\ h \in Actors /\ h \notin Runs
  BY OrderSyncAssumption DEF WebhookFetch, shopify, Actors
<1>1. Stored' = Stored /\ Placed' = Placed
  BY <1>0, SameRows, SameShop
<1>2. tx' = [tx EXCEPT ![h] = [order |-> o, at |-> shop[o], stage |-> "fetched"]]
  BY DEF WebhookFetch
<1>3. [order |-> o, at |-> shop[o], stage |-> "fetched"] \in Transactions
  BY OrderSyncAssumption DEF Transactions, Versions, IInv, TypeOK, WebhookFetch
<1>4. TypeOK'
  BY <1>2, <1>3 DEF IInv, TypeOK, WebhookFetch, shopify, store
<1>5. TakenOK'
  BY <1>0, <1>2 DEF IInv, TakenOK, TypeOK
<1>6. FoundOK' /\ \A p \in Actors : Inserts(p)' => Inserts(p)
  BY <1>0, <1>1, <1>2 DEF IInv, FoundOK, TypeOK, Inserts
<1>7. SavedOK' /\ PlanOK' /\ RunsOK' /\ PresentPlaced'
  BY <1>0, <1>1, <1>6, StoreKept, NoneInserts, NoRunChanges DEF IInv, PresentPlaced
<1> QED BY <1>4, <1>5, <1>6, <1>7 DEF IInv

\* The end of a transaction passes its outcome to the run it belongs to.
LEMMA EndsSafe ==
  ASSUME IInv, NEW p \in Actors, NEW c \in Outcomes, tx[p] # NoTx, Ends(p, c),
         Stored \subseteq Stored', Placed \subseteq Placed',
         c = "upserted" => tx[p].order \in Stored'
  PROVE  /\ run' \in [Runs -> Locals] /\ tx' \in [Actors -> Transactions \cup {NoTx}]
         /\ RunsOK' /\ TakenOK' /\ FoundOK'
         /\ \A s \in Actors : Inserts(s)' <=> s # p /\ Inserts(s)
<1>1. tx' = [tx EXCEPT ![p] = NoTx] /\ tx \in [Actors -> Transactions \cup {NoTx}]
  BY DEF Ends, IInv, TypeOK
<1>2. CASE p \notin Runs
  <2>1. UNCHANGED run
    BY <1>2 DEF Ends
  <2>2. TakenOK'
    BY <1>1, <1>2, <2>1 DEF IInv, TakenOK, Actors
  <2> QED BY <1>1, <2>1, <2>2, NoRunChanges DEF IInv, TypeOK, FoundOK, Inserts
<1>3. CASE p \in Runs
  <2> DEFINE l == run[p]
             o == tx[p].order
  <2>1. run' = [run EXCEPT ![p] = Settled(l, o, c)] /\ run \in [Runs -> Locals]
    BY <1>3 DEF Ends, IInv, TypeOK
  <2>2. l \in Locals /\ o \in Orders /\ o \in l.left /\ l.at \in {"retry", "page"}
    BY <1>3, <2>1 DEF IInv, TypeOK, TakenOK, Locals
  <2>3. Settled(l, o, c) \in Locals
    BY <2>2, SettledType
  <2>4. RunOK(l, Stored', Placed')
    <3>1. RunOK(l, Stored, Placed) BY <1>3 DEF IInv, RunsOK
    <3> QED BY <3>1, RunMonotone
  <2>5. RunOK(Settled(l, o, c), Stored', Placed')
    BY <2>2, <2>4, SettledOK
  <2>6. RunsOK'
    BY <1>3, <2>1, <2>5, OneRunChanges DEF IInv
  <2>7. TakenOK'
    BY <1>1, <1>3, <2>1 DEF IInv, TakenOK, Actors
  <2> QED BY <1>1, <2>1, <2>3, <2>6, <2>7 DEF IInv, FoundOK, Inserts
<1> QED BY <1>2, <1>3

\* A transaction that goes on, with what its next stage has to know.
LEMMA ContinuesSafe ==
  ASSUME IInv, NEW p \in Actors, NEW c \in {"update", "create", "insert"}, tx[p] # NoTx,
         Continues(p, c), Stored' = Stored, Placed' = Placed,
         c = "update" => tx[p].order \in Stored
  PROVE  /\ run' \in [Runs -> Locals] /\ tx' \in [Actors -> Transactions \cup {NoTx}]
         /\ RunsOK' /\ TakenOK' /\ FoundOK'
         /\ \A s \in Actors : Inserts(s)' <=> IF s = p THEN c = "insert" ELSE Inserts(s)
<1>1. tx \in [Actors -> Transactions \cup {NoTx}] /\ tx[p] \in Transactions
  BY DEF IInv, TypeOK
<1>2. tx' = [tx EXCEPT ![p] = [tx[p] EXCEPT !.stage = c]] /\ UNCHANGED run
  BY <1>1 DEF Continues
<1>3. [tx[p] EXCEPT !.stage = c] \in Transactions
  BY <1>1 DEF Transactions
<1>4. [tx[p] EXCEPT !.stage = c] # NoTx /\ [tx[p] EXCEPT !.stage = c].stage = c
      /\ [tx[p] EXCEPT !.stage = c].order = tx[p].order
  BY <1>1, <1>3, OrderSyncAssumption DEF Transactions
<1>5. RunsOK'
  BY <1>2, NoRunChanges DEF IInv
<1>6. TakenOK'
  BY <1>1, <1>2, <1>4 DEF IInv, TakenOK, Actors
<1>7. FoundOK'
  BY <1>1, <1>2, <1>4 DEF IInv, FoundOK
<1>8. \A s \in Actors : Inserts(s)' <=> IF s = p THEN c = "insert" ELSE Inserts(s)
  BY <1>1, <1>2, <1>4 DEF Inserts
<1> QED BY <1>1, <1>2, <1>3, <1>5, <1>6, <1>7, <1>8 DEF IInv, TypeOK

LEMMA FindOrderSafe ==
  ASSUME IInv, NEW p \in Actors, FindOrder(p)
  PROVE  IInv'
<1>0. UNCHANGED <<shop, now, rows, limit, saved, importDone, lastSync, store, faults>>
      /\ tx[p] # NoTx /\ tx[p].order \in Orders
  BY DEF FindOrder, shopify, store, IInv, TypeOK, Transactions
<1>1. Stored' = Stored /\ Placed' = Placed
  BY <1>0, SameRows, SameShop
<1>2. \/ Continues(p, "create")
      \/ Ends(p, "skipped")
      \/ tx[p].order \in Stored /\ Continues(p, "update")
  BY <1>0 DEF FindOrder, Stored
<1>3. /\ run' \in [Runs -> Locals] /\ tx' \in [Actors -> Transactions \cup {NoTx}]
      /\ RunsOK' /\ TakenOK' /\ FoundOK'
      /\ \A s \in Actors : Inserts(s)' => Inserts(s)
  <2>1. CASE Continues(p, "create")
    BY <1>0, <1>1, <2>1, ContinuesSafe
  <2>2. CASE Ends(p, "skipped")
    BY <1>0, <1>1, <2>2, EndsSafe DEF Outcomes
  <2>3. CASE tx[p].order \in Stored /\ Continues(p, "update")
    BY <1>0, <1>1, <2>3, ContinuesSafe
  <2> QED BY <1>2, <2>1, <2>2, <2>3
<1>4. TypeOK'
  BY <1>0, <1>3 DEF IInv, TypeOK
<1>5. SavedOK' /\ PlanOK' /\ PresentPlaced'
  BY <1>0, <1>1, <1>3, StoreKept, NoneInserts DEF IInv, PresentPlaced
<1> QED BY <1>3, <1>4, <1>5 DEF IInv

LEMMA UpdateOrderSafe ==
  ASSUME IInv, NEW p \in Actors, UpdateOrder(p)
  PROVE  IInv' /\ Stored' = Stored
<1> DEFINE o == tx[p].order
<1>0. /\ UNCHANGED <<shop, now, limit, saved, importDone, lastSync, store, faults>>
      /\ tx[p] # NoTx /\ tx[p] \in Transactions /\ o \in Stored /\ o \in Orders
  BY DEF UpdateOrder, shopify, store, IInv, TypeOK, Transactions, FoundOK
<1>1. Placed' = Placed
  BY <1>0, SameShop
<1>2. rows[o] \in Rows
  BY <1>0 DEF IInv, TypeOK, Stored
<1>3. Stored' = Stored /\ rows' \in [Orders -> Rows \cup {NoRow}]
  <2>1. CASE UNCHANGED rows
    BY <2>1 DEF Stored, IInv, TypeOK
  <2>2. CASE rows' = [rows EXCEPT ![o].at = tx[p].at]
    <3>1. [rows[o] EXCEPT !.at = tx[p].at] \in Rows
      BY <1>0, <1>2 DEF Rows, Transactions
    <3>2. rows' = [rows EXCEPT ![o] = [rows[o] EXCEPT !.at = tx[p].at]]
      BY <2>2
    <3>3. rows \in [Orders -> Rows \cup {NoRow}] /\ [rows[o] EXCEPT !.at = tx[p].at] # NoRow
      BY <3>1, OrderSyncAssumption DEF IInv, TypeOK
    <3> QED BY <1>0, <3>1, <3>2, <3>3 DEF Stored
  <2> QED BY <2>1, <2>2 DEF UpdateOrder
<1>4. /\ run' \in [Runs -> Locals] /\ tx' \in [Actors -> Transactions \cup {NoTx}]
      /\ RunsOK' /\ TakenOK' /\ FoundOK'
      /\ \A s \in Actors : Inserts(s)' => Inserts(s)
  <2>1. CASE Ends(p, "upserted")
    BY <1>0, <1>1, <1>3, <2>1, EndsSafe DEF Outcomes
  <2>2. CASE Ends(p, "skipped")
    BY <1>0, <1>1, <1>3, <2>2, EndsSafe DEF Outcomes
  <2> QED BY <2>1, <2>2 DEF UpdateOrder
<1>5. TypeOK'
  BY <1>0, <1>3, <1>4 DEF IInv, TypeOK
<1>6. SavedOK' /\ PlanOK' /\ PresentPlaced'
  BY <1>0, <1>1, <1>3, <1>4, StoreKept, NoneInserts DEF IInv, PresentPlaced
<1> QED BY <1>3, <1>4, <1>5, <1>6 DEF IInv

LEMMA CheckLimitSafe ==
  ASSUME IInv, NEW p \in Actors, CheckLimit(p)
  PROVE  IInv'
<1>0. UNCHANGED <<shop, now, rows, limit, saved, importDone, lastSync, store, faults>>
      /\ tx[p] # NoTx /\ ~Locked
  BY DEF CheckLimit, shopify, store
<1>1. Stored' = Stored /\ Placed' = Placed
  BY <1>0, SameRows, SameShop
<1>2. \A s \in Actors : ~Inserts(s)
  BY <1>0 DEF Locked, Inserts
<1>3. CASE Cardinality(Stored) + 1 <= limit /\ Continues(p, "insert")
  <2>1. /\ run' \in [Runs -> Locals] /\ tx' \in [Actors -> Transactions \cup {NoTx}]
        /\ RunsOK' /\ TakenOK' /\ FoundOK'
        /\ \A s \in Actors : Inserts(s)' <=> IF s = p THEN TRUE ELSE Inserts(s)
    BY <1>0, <1>1, <1>3, ContinuesSafe
  <2>2. PlanOK'
    BY <1>0, <1>1, <1>2, <1>3, <2>1 DEF PlanOK
  <2>3. TypeOK'
    BY <1>0, <2>1 DEF IInv, TypeOK
  <2> QED BY <1>0, <1>1, <2>1, <2>2, <2>3, StoreKept DEF IInv, PresentPlaced
<1>4. CASE Ends(p, "limit")
  <2>1. /\ run' \in [Runs -> Locals] /\ tx' \in [Actors -> Transactions \cup {NoTx}]
        /\ RunsOK' /\ TakenOK' /\ FoundOK'
        /\ \A s \in Actors : Inserts(s)' => Inserts(s)
    BY <1>0, <1>1, <1>4, EndsSafe DEF Outcomes
  <2>2. TypeOK'
    BY <1>0, <2>1 DEF IInv, TypeOK
  <2> QED BY <1>0, <1>1, <2>1, <2>2, StoreKept, NoneInserts DEF IInv, PresentPlaced
<1> QED BY <1>3, <1>4 DEF CheckLimit

\* The row of a create is new, and it is the only one since the limit was checked.
LEMMA CreateOrderSafe ==
  ASSUME IInv, NEW p \in Actors, CreateOrder(p)
  PROVE  IInv' /\ Stored \subseteq Stored' /\ (Stored' # Stored => Cardinality(Stored') <= limit)
<1> DEFINE o == tx[p].order
           new == [at |-> tx[p].at, redacted |-> FALSE]
<1>0. /\ UNCHANGED <<shop, now, limit, saved, importDone, lastSync, store, faults>>
      /\ tx[p] # NoTx /\ tx[p] \in Transactions /\ o \in Orders /\ Inserts(p)
  BY DEF CreateOrder, shopify, store, IInv, TypeOK, Transactions, Inserts
<1>1. Placed' = Placed
  BY <1>0, SameShop
<1>2. CASE rows[o] = NoRow /\ rows' = [rows EXCEPT ![o] = new] /\ Ends(p, "upserted")
  <2>1. new \in Rows /\ new # NoRow /\ rows \in [Orders -> Rows \cup {NoRow}]
    <3>1. tx[p].at \in Versions BY <1>0 DEF Transactions
    <3>2. new \in Rows BY <3>1 DEF Rows
    <3> QED BY <3>2, OrderSyncAssumption DEF IInv, TypeOK
  <2>2. Stored' = Stored \cup {o} /\ o \notin Stored
    BY <1>0, <1>2, <2>1 DEF Stored
  <2>3. Cardinality(Stored') <= limit
    <3>1. IsFiniteSet(Stored)
      BY OrderSyncAssumption, FS_Subset DEF Stored
    <3>2. Cardinality(Stored') = Cardinality(Stored) + 1
      BY <2>2, <3>1, FS_AddElement
    <3> QED BY <1>0, <3>2 DEF IInv, PlanOK
  <2>4. /\ run' \in [Runs -> Locals] /\ tx' \in [Actors -> Transactions \cup {NoTx}]
        /\ RunsOK' /\ TakenOK' /\ FoundOK'
        /\ \A s \in Actors : Inserts(s)' <=> s # p /\ Inserts(s)
    BY <1>0, <1>1, <1>2, <2>2, EndsSafe DEF Outcomes
  <2>5. TypeOK'
    <3>1. rows' \in [Orders -> Rows \cup {NoRow}]
      BY <1>0, <1>2, <2>1
    <3> QED BY <1>0, <2>4, <3>1 DEF IInv, TypeOK
  <2>6. PlanOK'
    <3>1. \A s \in Actors : ~Inserts(s)'
      BY <1>0, <2>4 DEF IInv, PlanOK
    <3> QED BY <3>1 DEF PlanOK
  <2>7. SavedOK'
    BY <1>0, <1>1, <2>2, StoreKept DEF IInv
  <2> QED BY <1>0, <1>1, <2>2, <2>3, <2>4, <2>5, <2>6, <2>7 DEF IInv, PresentPlaced
<1>3. CASE UNCHANGED rows /\ Ends(p, "thrown")
  <2>1. Stored' = Stored
    BY <1>3, SameRows
  <2>2. /\ run' \in [Runs -> Locals] /\ tx' \in [Actors -> Transactions \cup {NoTx}]
        /\ RunsOK' /\ TakenOK' /\ FoundOK'
        /\ \A s \in Actors : Inserts(s)' => Inserts(s)
    BY <1>0, <1>1, <1>3, <2>1, EndsSafe DEF Outcomes
  <2>3. TypeOK'
    BY <1>0, <1>3, <2>2 DEF IInv, TypeOK
  <2> QED BY <1>0, <1>1, <2>1, <2>2, <2>3, StoreKept, NoneInserts DEF IInv, PresentPlaced
<1> QED BY <1>2, <1>3 DEF CreateOrder

-----------------------------------------------------------------------------
(* The environment                                                         *)

LEMMA AbortSafe ==
  ASSUME IInv, NEW p \in Actors, Abort(p)
  PROVE  IInv'
<1>0. UNCHANGED <<shop, now, rows, limit, saved, importDone, lastSync, store>>
      /\ tx' = [tx EXCEPT ![p] = NoTx]
  BY DEF Abort, shopify, store
<1>1. Stored' = Stored /\ Placed' = Placed
  BY <1>0, SameRows, SameShop
<1>2. TypeOK'
  <2>1. run' \in [Runs -> Locals]
    BY IdleType DEF IInv, TypeOK, Abort
  <2> QED BY <1>0, <2>1, OrderSyncAssumption DEF IInv, TypeOK, Abort
<1>3. RunsOK'
  <2>1. CASE p \in Runs
    <3>1. run' = [run EXCEPT ![p] = Idle]
      BY <2>1 DEF Abort
    <3>2. RunOK(run'[p], Stored', Placed')
      BY <2>1, <3>1, IdleOK DEF IInv, TypeOK
    <3> QED BY <1>1, <2>1, <3>1, <3>2, OneRunChanges DEF IInv, TypeOK
  <2>2. CASE p \notin Runs
    BY <1>1, <2>2, NoRunChanges DEF Abort, IInv
  <2> QED BY <2>1, <2>2
<1>4. TakenOK' /\ FoundOK' /\ \A s \in Actors : Inserts(s)' => Inserts(s)
  BY <1>0, <1>1 DEF IInv, TypeOK, TakenOK, FoundOK, Inserts, Abort, Actors
<1>5. SavedOK' /\ PlanOK' /\ PresentPlaced'
  BY <1>0, <1>1, <1>4, StoreKept, NoneInserts DEF IInv, PresentPlaced
<1> QED BY <1>2, <1>3, <1>4, <1>5 DEF IInv

LEMMA ChangeOrderSafe ==
  ASSUME IInv, NEW o \in Orders, ChangeOrder(o)
  PROVE  IInv'
<1>0. UNCHANGED <<rows, limit, run, tx, store>>
  BY DEF ChangeOrder
<1>1. now + 1 \in Versions /\ shop \in [Orders -> 0 .. MaxNow]
  BY OrderSyncAssumption DEF ChangeOrder, Versions, IInv, TypeOK
<1>2. Stored' = Stored /\ Placed \subseteq Placed'
  <2>1. Stored' = Stored BY <1>0, SameRows
  <2>2. Placed \subseteq Placed'
    BY <1>1 DEF Placed, ChangeOrder, Versions
  <2> QED BY <2>1, <2>2
<1>3. TypeOK'
  BY <1>1, OrderSyncAssumption DEF IInv, TypeOK, ChangeOrder, Versions, store
<1>4. PresentPlaced' /\ TakenOK' /\ FoundOK' /\ \A s \in Actors : Inserts(s)' => Inserts(s)
  BY <1>0, <1>2 DEF IInv, PresentPlaced, TakenOK, FoundOK, Inserts
<1> QED BY <1>0, <1>2, <1>3, <1>4, StoreKept, NoneInserts, NoRunChanges DEF IInv

LEMMA RedactSafe ==
  ASSUME IInv, NEW o \in Orders, Redact(o)
  PROVE  IInv' /\ Stored' = Stored
<1>0. UNCHANGED <<shop, limit, run, tx, store>>
  BY DEF Redact, shopify
<1>1. [rows[o] EXCEPT !.redacted = TRUE] \in Rows
  BY DEF Redact, IInv, TypeOK, Rows
<1>2. rows' = [rows EXCEPT ![o] = [rows[o] EXCEPT !.redacted = TRUE]]
      /\ rows \in [Orders -> Rows \cup {NoRow}] /\ rows[o] # NoRow
      /\ [rows[o] EXCEPT !.redacted = TRUE] # NoRow
  BY <1>1, OrderSyncAssumption DEF Redact, IInv, TypeOK
<1>3. Stored' = Stored /\ Placed' = Placed
  <2>1. Stored' = Stored BY <1>2 DEF Stored
  <2> QED BY <1>0, <2>1, SameShop
<1>4. TypeOK'
  BY <1>1, <1>2 DEF IInv, TypeOK, Redact, shopify, store
<1>5. PresentPlaced' /\ TakenOK' /\ FoundOK' /\ \A s \in Actors : Inserts(s)' => Inserts(s)
  BY <1>0, <1>3 DEF IInv, PresentPlaced, TakenOK, FoundOK, Inserts
<1> QED BY <1>0, <1>3, <1>4, <1>5, StoreKept, NoneInserts, NoRunChanges DEF IInv

LEMMA ChangePlanSafe ==
  ASSUME IInv, NEW n \in Limits, ChangePlan(n)
  PROVE  IInv'
<1>0. UNCHANGED <<shop, rows, run, tx, store>> /\ ~Locked
  BY DEF ChangePlan, shopify
<1>1. Stored' = Stored /\ Placed' = Placed
  BY <1>0, SameRows, SameShop
<1>2. TypeOK'
  BY DEF IInv, TypeOK, ChangePlan, shopify, store
<1>3. PlanOK'
  BY <1>0 DEF Locked, PlanOK, Inserts
<1>4. PresentPlaced' /\ TakenOK' /\ FoundOK'
  BY <1>0, <1>1 DEF IInv, PresentPlaced, TakenOK, FoundOK
<1> QED BY <1>0, <1>1, <1>2, <1>3, <1>4, StoreKept, NoRunChanges DEF IInv

-----------------------------------------------------------------------------
(* Theorems                                                                *)

LEMMA InitSafe == Init => IInv
<1> SUFFICES ASSUME Init PROVE IInv
  OBVIOUS
<1>1. 1 \in Versions /\ 1 \in Pages /\ 0 \in 0 .. MaxNow /\ 1 \in 0 .. MaxNow /\ 0 \in 0 .. MaxFaults
  BY OrderSyncAssumption DEF Versions, Pages
<1>2. TypeOK
  BY <1>1, IdleType DEF Init, TypeOK, NoCursor, Cursors
<1>3. PresentPlaced /\ TakenOK /\ FoundOK /\ PlanOK
  BY OrderSyncAssumption DEF Init, PresentPlaced, Placed, TakenOK, FoundOK, PlanOK, Inserts, Actors
<1>4. RunsOK
  BY IdleOK DEF Init, RunsOK
<1>5. SavedOK
  BY OrderSyncAssumption DEF Init, SavedOK, CursorCovers, NoCursor, Ahead, Pages
<1> QED BY <1>2, <1>3, <1>4, <1>5 DEF IInv

LEMMA StutterSafe == ASSUME IInv, UNCHANGED vars PROVE IInv'
<1>0. UNCHANGED <<shop, now, rows, saved, importDone, lastSync, limit, run, tx, faults, store>>
  BY DEF vars, shopify, store
<1>1. Stored' = Stored /\ Placed' = Placed
  BY <1>0, SameRows, SameShop
<1>2. TypeOK' /\ PresentPlaced' /\ TakenOK' /\ FoundOK'
  BY <1>0, <1>1 DEF IInv, TypeOK, PresentPlaced, TakenOK, FoundOK
<1>3. \A s \in Actors : Inserts(s)' => Inserts(s)
  BY <1>0 DEF Inserts
<1> QED BY <1>0, <1>1, <1>2, <1>3, StoreKept, NoneInserts, NoRunChanges DEF IInv

\* What every step does: it keeps the invariant, loses no row, and adds one
\* only within the plan.
LEMMA StepSafe ==
  ASSUME IInv, [Next]_vars
  PROVE  IInv' /\ (Stored' # Stored => Cardinality(Stored') <= limit)
<1>1. ASSUME NEW r \in Runs, Sync(r) PROVE IInv' /\ Stored' = Stored
  <2>1. UNCHANGED rows
    BY <1>1 DEF Sync, FetchPage, PersistPage, Finish, Start, TakeOrder
  <2> QED BY <1>1, <2>1, SameRows, FetchPageSafe, PersistPageSafe, FinishSafe, StartSafe, TakeOrderSafe
       DEF Sync
<1>2. ASSUME NEW r \in Runs, NEW o \in Orders, Unreadable(r, o) PROVE IInv' /\ Stored' = Stored
  BY <1>2, UnreadableSafe, SameRows DEF Unreadable
<1>3. ASSUME NEW h \in Hooks, NEW o \in Orders, WebhookFetch(h, o) PROVE IInv' /\ Stored' = Stored
  BY <1>3, WebhookFetchSafe, SameRows DEF WebhookFetch
<1>4. ASSUME NEW p \in Actors, Upsert(p)
      PROVE IInv' /\ (Stored' # Stored => Cardinality(Stored') <= limit)
  <2>1. CASE FindOrder(p)
    BY <2>1, FindOrderSafe, SameRows DEF FindOrder
  <2>2. CASE UpdateOrder(p)
    BY <2>2, UpdateOrderSafe
  <2>3. CASE CheckLimit(p)
    BY <2>3, CheckLimitSafe, SameRows DEF CheckLimit
  <2>4. CASE CreateOrder(p)
    BY <2>4, CreateOrderSafe
  <2> QED BY <1>4, <2>1, <2>2, <2>3, <2>4 DEF Upsert
<1>5. ASSUME NEW p \in Actors, Abort(p) PROVE IInv' /\ Stored' = Stored
  BY <1>5, AbortSafe, SameRows DEF Abort
<1>6. ASSUME NEW o \in Orders, ChangeOrder(o) PROVE IInv' /\ Stored' = Stored
  BY <1>6, ChangeOrderSafe, SameRows DEF ChangeOrder
<1>7. ASSUME NEW o \in Orders, Redact(o) PROVE IInv' /\ Stored' = Stored
  BY <1>7, RedactSafe
<1>8. ASSUME NEW n \in Limits, ChangePlan(n) PROVE IInv' /\ Stored' = Stored
  BY <1>8, ChangePlanSafe, SameRows DEF ChangePlan
<1>9. CASE UNCHANGED vars
  BY <1>9, StutterSafe, SameRows DEF vars
<1> QED BY <1>1, <1>2, <1>3, <1>4, <1>5, <1>6, <1>7, <1>8, <1>9 DEF Next

\* The inductive invariant: types, and what cursors and transactions know.
THEOREM OrderSyncInvariant == Spec => []IInv
<1>1. IInv /\ [Next]_vars => IInv'
  BY StepSafe
<1> QED BY InitSafe, <1>1, PTL DEF Spec

\* Every reachable state is well typed.
THEOREM OrderSyncTypeCorrect == Spec => []TypeOK
<1>1. IInv => TypeOK
  BY DEF IInv
<1> QED BY <1>1, OrderSyncInvariant, PTL

\* Whichever runs overwrite the cursor, it leaves no order behind
\* (persistOrdersSyncCursorState).
THEOREM CursorsCover == Spec => []CursorCovers
<1>1. IInv => CursorCovers
  BY DEF IInv, SavedOK
<1> QED BY <1>1, OrderSyncInvariant, PTL

\* A finished historical import has stored every order of the installation
\* (syncOrdersFromShopify).
THEOREM ImportsAreComplete == Spec => []ImportComplete
<1>1. IInv => ImportComplete
  BY DEF IInv, SavedOK, ImportComplete
<1> QED BY <1>1, OrderSyncInvariant, PTL

\* An order is only created within the plan limit (assertOrderCreateAllowedAtomic).
THEOREM PlanIsKept == Spec => WithinPlan
<1>1. IInv /\ [Next]_vars => [Stored' # Stored => Cardinality(Stored') <= limit]_vars
  BY StepSafe
<1> QED BY <1>1, OrderSyncInvariant, PTL DEF Spec, WithinPlan

\* A stored order never goes back to an older version (upsertOrderRow).
THEOREM VersionsGrow == Spec => NeverOlder
<1> DEFINE Newer == \A o \in Stored : rows'[o] # NoRow /\ rows'[o].at >= rows[o].at
<1>1. ASSUME IInv, [Next]_vars PROVE Newer
  <2>0. rows \in [Orders -> Rows \cup {NoRow}] /\ \A o \in Stored : rows[o].at \in Nat
    <3>1. rows \in [Orders -> Rows \cup {NoRow}] /\ \A o \in Stored : rows[o] \in Rows
      BY <1>1 DEF IInv, TypeOK, Stored
    <3> QED BY <3>1, OrderSyncAssumption DEF Rows, Versions
  <2>1. CASE UNCHANGED rows
    BY <2>0, <2>1 DEF Stored
  <2>2. ASSUME NEW p \in Actors, UpdateOrder(p) PROVE Newer
    <3>1. tx[p] \in Transactions
      BY <1>1, <2>2 DEF IInv, TypeOK, UpdateOrder
    <3>2. tx[p].at \in Nat /\ Stored' = Stored
      BY <1>1, <2>2, <3>1, UpdateOrderSafe, OrderSyncAssumption DEF Transactions, Versions
    <3>3. \A o \in Stored : rows'[o] # NoRow
      BY <3>2 DEF Stored
    <3> QED BY <2>0, <2>2, <3>2, <3>3 DEF UpdateOrder, Stored, Rows
  <2>3. ASSUME NEW p \in Actors, CreateOrder(p) PROVE Newer
    BY <2>0, <2>3 DEF CreateOrder, Stored
  <2>4. ASSUME NEW o \in Orders, Redact(o) PROVE Newer
    <3>1. Stored' = Stored
      BY <1>1, <2>4, RedactSafe
    <3> QED BY <2>0, <2>4, <3>1 DEF Redact, Stored, Rows
  <2>5. \/ UNCHANGED rows
        \/ \E p \in Actors : UpdateOrder(p) \/ CreateOrder(p)
        \/ \E o \in Orders : Redact(o)
    BY <1>1 DEF Next, vars, Sync, FetchPage, PersistPage, Finish, Start, TakeOrder, Unreadable,
            WebhookFetch, Upsert, FindOrder, CheckLimit, Abort, ChangeOrder, ChangePlan
  <2> QED BY <2>1, <2>2, <2>3, <2>4, <2>5
<1>2. IInv /\ [Next]_vars => [Newer]_vars
  BY <1>1
<1> QED BY <1>2, OrderSyncInvariant, PTL DEF Spec, NeverOlder

\* A redaction that no upsert under way can undo is never undone (upsertOrderRow).
THEOREM RedactionsLast == Spec => RedactionLasts
<1> DEFINE Lasts == \A o \in Orders : Untouchable(o) => rows'[o] = rows[o] /\ Untouchable(o)'
           Updates(p, o) == tx[p] # NoTx /\ tx[p].order = o /\ tx[p].stage = "update"
<1>1. ASSUME IInv, [Next]_vars, NEW o \in Orders, Untouchable(o)
      PROVE  rows'[o] = rows[o] /\ Untouchable(o)'
  <2>0. /\ tx \in [Actors -> Transactions \cup {NoTx}] /\ rows \in [Orders -> Rows \cup {NoRow}]
        /\ rows[o] # NoRow /\ rows[o].redacted /\ \A p \in Actors : ~Updates(p, o)
    BY <1>1 DEF IInv, TypeOK, Untouchable
  <2> SUFFICES rows'[o] = rows[o] /\ \A p \in Actors : ~Updates(p, o)'
    BY <2>0 DEF Untouchable
  <2>1. CASE UNCHANGED <<rows, tx>>
    BY <2>0, <2>1
  <2>2. ASSUME NEW p \in Actors, rows'[o] = rows[o], \A s \in Actors \ {p} : tx'[s] = tx[s], ~Updates(p, o)'
        PROVE rows'[o] = rows[o] /\ \A s \in Actors : ~Updates(s, o)'
    BY <2>0, <2>2
  <2>3. ASSUME NEW r \in Runs, NEW q \in Orders, TakeOrder(r, q)
        PROVE rows'[o] = rows[o] /\ \A s \in Actors : ~Updates(s, o)'
    <3>1. r \in Actors /\ tx'[r].stage = "fetched" /\ (\A s \in Actors \ {r} : tx'[s] = tx[s])
      BY <2>0, <2>3 DEF TakeOrder, Actors
    <3> QED BY <2>2, <2>3, <3>1 DEF TakeOrder
  <2>4. ASSUME NEW h \in Hooks, NEW q \in Orders, WebhookFetch(h, q)
        PROVE rows'[o] = rows[o] /\ \A s \in Actors : ~Updates(s, o)'
    <3>1. h \in Actors /\ tx'[h].stage = "fetched" /\ (\A s \in Actors \ {h} : tx'[s] = tx[s])
      BY <2>0, <2>4 DEF WebhookFetch, Actors
    <3> QED BY <2>2, <2>4, <3>1 DEF WebhookFetch
  <2>5. ASSUME NEW p \in Actors, NEW c, Ends(p, c), rows'[o] = rows[o]
        PROVE rows'[o] = rows[o] /\ \A s \in Actors : ~Updates(s, o)'
    BY <2>0, <2>2, <2>5 DEF Ends
  <2>6. ASSUME NEW p \in Actors, NEW c, Continues(p, c), tx[p] # NoTx, rows'[o] = rows[o],
               c = "update" => tx[p].order # o
        PROVE rows'[o] = rows[o] /\ \A s \in Actors : ~Updates(s, o)'
    <3>1. tx[p] \in Transactions
      BY <2>0, <2>6
    <3>2. tx'[p].order = tx[p].order /\ tx'[p].stage = c /\ \A s \in Actors \ {p} : tx'[s] = tx[s]
      BY <2>0, <2>6, <3>1 DEF Continues, Transactions
    <3> QED BY <2>2, <2>6, <3>2
  <2>7. ASSUME NEW p \in Actors, FindOrder(p)
        PROVE rows'[o] = rows[o] /\ \A s \in Actors : ~Updates(s, o)'
    <3>1. tx[p] # NoTx /\ rows'[o] = rows[o]
      BY <2>7 DEF FindOrder
    <3>2. \/ Continues(p, "create") \/ Ends(p, "skipped")
          \/ tx[p].order # o /\ Continues(p, "update")
      BY <2>0, <2>7 DEF FindOrder
    <3> QED BY <2>5, <2>6, <3>1, <3>2
  <2>8. ASSUME NEW p \in Actors, UpdateOrder(p)
        PROVE rows'[o] = rows[o] /\ \A s \in Actors : ~Updates(s, o)'
    <3>1. rows'[o] = rows[o]
      BY <2>0, <2>8 DEF UpdateOrder
    <3> QED BY <2>5, <2>8, <3>1 DEF UpdateOrder
  <2>9. ASSUME NEW p \in Actors, CheckLimit(p)
        PROVE rows'[o] = rows[o] /\ \A s \in Actors : ~Updates(s, o)'
    <3>1. tx[p] # NoTx /\ rows'[o] = rows[o] /\ (Continues(p, "insert") \/ Ends(p, "limit"))
      BY <2>9 DEF CheckLimit
    <3> QED BY <2>5, <2>6, <3>1
  <2>10. ASSUME NEW p \in Actors, CreateOrder(p)
         PROVE rows'[o] = rows[o] /\ \A s \in Actors : ~Updates(s, o)'
    <3>1. rows'[o] = rows[o]
      BY <2>0, <2>10 DEF CreateOrder
    <3> QED BY <2>5, <2>10, <3>1 DEF CreateOrder
  <2>11. ASSUME NEW p \in Actors, Abort(p)
         PROVE rows'[o] = rows[o] /\ \A s \in Actors : ~Updates(s, o)'
    BY <2>0, <2>2, <2>11 DEF Abort
  <2>12. ASSUME NEW q \in Orders, Redact(q)
         PROVE rows'[o] = rows[o] /\ \A s \in Actors : ~Updates(s, o)'
    BY <2>0, <2>12 DEF Redact
  <2>13. \/ UNCHANGED <<rows, tx>>
         \/ \E r \in Runs, q \in Orders : TakeOrder(r, q)
         \/ \E h \in Hooks, q \in Orders : WebhookFetch(h, q)
         \/ \E p \in Actors : Upsert(p) \/ Abort(p)
         \/ \E q \in Orders : Redact(q)
    BY <1>1 DEF Next, vars, Sync, FetchPage, PersistPage, Finish, Start, Unreadable,
            ChangeOrder, ChangePlan
  <2> QED BY <2>1, <2>3, <2>4, <2>7, <2>8, <2>9, <2>10, <2>11, <2>12, <2>13 DEF Upsert
<1>2. IInv /\ [Next]_vars => [Lasts]_vars
  BY <1>1
<1> QED BY <1>2, OrderSyncInvariant, PTL DEF Spec, RedactionLasts

-----------------------------------------------------------------------------
(* The refinement of Replica                                               *)

\* What a run has fetched, and what an upsert is about to write, Shopify has had.
Current ==
  /\ \A o \in Orders : shop[o] <= now
  /\ \A p \in Actors : tx[p] # NoTx => tx[p].at <= shop[tx[p].order]
  /\ \A r \in Runs, o \in Orders : run[r].snap[o] <= shop[o]

\* A step that fetches only what is there, and passes on what it has.
LEMMA CurrentKept ==
  ASSUME IInv, IInv', Current,
         UNCHANGED <<shop, now>>,
         \A p \in Actors : tx'[p] # NoTx =>
            \/ tx[p] # NoTx /\ tx'[p].order = tx[p].order /\ tx'[p].at = tx[p].at
            \/ tx'[p].at <= shop[tx'[p].order],
         \A r \in Runs, o \in Orders : run'[r].snap[o] \in {0, run[r].snap[o], shop[o]}
  PROVE  Current'
<1>1. shop \in [Orders -> Nat] /\ shop' \in [Orders -> Nat]
  BY DEF IInv, TypeOK
<1>2. ASSUME NEW p \in Actors, tx'[p] # NoTx PROVE tx'[p].at <= shop'[tx'[p].order]
  <2>1. tx'[p] \in Transactions
    BY <1>2 DEF IInv, TypeOK
  <2>2. tx'[p].order \in Orders /\ tx'[p].at \in Nat
    BY <2>1 DEF Transactions, Versions
  <2>3. tx'[p].at <= shop[tx'[p].order]
    BY <1>2 DEF Current
  <2> QED BY <1>1, <2>2, <2>3
<1>3. ASSUME NEW r \in Runs, NEW o \in Orders PROVE run'[r].snap[o] <= shop'[o]
  <2>1. run[r].snap[o] \in Nat /\ run[r].snap[o] <= shop[o]
    BY DEF IInv, TypeOK, Locals, Current
  <2> QED BY <1>1, <2>1
<1> QED BY <1>2, <1>3 DEF Current

\* What is left of the page after an order.
LEMMA SettledSnap ==
  ASSUME NEW l \in Locals, NEW o \in Orders, NEW c \in Outcomes, NEW q \in Orders
  PROVE  Settled(l, o, c).snap[q] \in {0, l.snap[q]}
<1>1. l.snap \in [Orders -> 0 .. MaxNow]
  BY DEF Locals
<1>2. [l EXCEPT !.left = @ \ {o}, !.snap[o] = 0].snap[q] \in {0, l.snap[q]}
  BY <1>1 DEF Locals
<1>3. Idle.snap[q] = 0 /\ NoSnap[q] = 0
  BY DEF Idle, NoSnap
<1>4. CASE c = "upserted"
  BY <1>2, <1>4 DEF Settled, Locals
<1>5. CASE c = "skipped"
  BY <1>2, <1>5 DEF Settled, Locals
<1>6. CASE c = "limit"
  BY <1>3, <1>6 DEF Settled, Locals
<1>7. CASE c = "thrown"
  BY <1>2, <1>3, <1>7 DEF Settled
<1> QED BY <1>4, <1>5, <1>6, <1>7 DEF Outcomes

\* Steps that end a transaction or pass it on.
LEMMA EndsCurrent ==
  ASSUME IInv, IInv', Current, NEW p \in Actors, NEW c \in Outcomes,
         tx[p] # NoTx, Ends(p, c), UNCHANGED <<shop, now>>
  PROVE  Current'
<1>1. /\ tx' = [tx EXCEPT ![p] = NoTx] /\ tx \in [Actors -> Transactions \cup {NoTx}]
      /\ run \in [Runs -> Locals] /\ shop \in [Orders -> Nat]
  BY DEF Ends, IInv, TypeOK
<1>2. \A s \in Actors : tx'[s] # NoTx => tx[s] # NoTx /\ tx'[s] = tx[s]
  BY <1>1
<1>3. ASSUME NEW r \in Runs, NEW o \in Orders PROVE run'[r].snap[o] \in {0, run[r].snap[o], shop[o]}
  <2>1. CASE r = p
    <3>1. tx[p].order \in Orders
      BY <1>1 DEF Transactions
    <3>2. run'[p] = Settled(run[p], tx[p].order, c)
      BY <1>1, <1>3, <2>1 DEF Ends
    <3> QED BY <1>1, <1>3, <2>1, <3>1, <3>2, SettledSnap
  <2>2. CASE r # p
    BY <1>1, <2>2 DEF Ends
  <2> QED BY <2>1, <2>2
<1> QED BY <1>1, <1>2, <1>3, CurrentKept

LEMMA ContinuesCurrent ==
  ASSUME IInv, IInv', Current, NEW p \in Actors, NEW stage,
         tx[p] # NoTx, Continues(p, stage), UNCHANGED <<shop, now>>
  PROVE  Current'
<1>1. /\ tx \in [Actors -> Transactions \cup {NoTx}] /\ tx[p] \in Transactions
      /\ run' = run /\ shop \in [Orders -> Nat]
  BY DEF Continues, IInv, TypeOK
<1>2. tx'[p] = [tx[p] EXCEPT !.stage = stage] /\ \A s \in Actors \ {p} : tx'[s] = tx[s]
  BY <1>1 DEF Continues
<1>3. tx'[p].order = tx[p].order /\ tx'[p].at = tx[p].at
  BY <1>1, <1>2 DEF Transactions
<1> QED BY <1>1, <1>2, <1>3, CurrentKept

LEMMA UpsertCurrent ==
  ASSUME IInv, IInv', Current, NEW p \in Actors, Upsert(p)
  PROVE  Current'
<1>1. tx[p] # NoTx /\ UNCHANGED <<shop, now>>
  BY DEF Upsert, FindOrder, UpdateOrder, CheckLimit, CreateOrder, shopify
<1>2. (\E c \in Outcomes : Ends(p, c)) \/ (\E stage : Continues(p, stage))
  BY DEF Upsert, FindOrder, UpdateOrder, CheckLimit, CreateOrder, Outcomes
<1> QED BY <1>1, <1>2, EndsCurrent, ContinuesCurrent

\* Orders are fetched as they are, by pages, ids or webhooks.
LEMMA FetchCurrent ==
  ASSUME IInv, IInv', Current, NEW p \in Actors, NEW o \in Orders,
         \/ p \in Runs /\ TakeOrder(p, o)
         \/ p \in Hooks /\ WebhookFetch(p, o)
  PROVE  Current'
<1>1. /\ UNCHANGED <<shop, now, run>> /\ shop \in [Orders -> Nat]
      /\ tx \in [Actors -> Transactions \cup {NoTx}]
  BY DEF TakeOrder, WebhookFetch, shopify, IInv, TypeOK
<1>2. \A s \in Actors \ {p} : tx'[s] = tx[s]
  BY <1>1 DEF TakeOrder, WebhookFetch
<1>3. tx'[p].order = o /\ tx'[p].at <= shop[o]
  <2>1. CASE p \in Runs /\ TakeOrder(p, o)
    <3>1. tx'[p].order = o /\ tx'[p].at \in {shop[o], run[p].snap[o]}
      BY <1>1, <2>1 DEF TakeOrder
    <3> QED BY <1>1, <2>1, <3>1 DEF Current
  <2>2. CASE p \in Hooks /\ WebhookFetch(p, o)
    BY <1>1, <2>2 DEF WebhookFetch
  <2> QED BY <2>1, <2>2
<1> QED BY <1>1, <1>2, <1>3, CurrentKept

LEMMA CurrentStep ==
  ASSUME IInv, IInv', Current, [Next]_vars
  PROVE  Current'
<1>0. /\ run \in [Runs -> Locals] /\ shop \in [Orders -> Nat]
      /\ tx \in [Actors -> Transactions \cup {NoTx}]
  BY DEF IInv, TypeOK
<1>1. ASSUME UNCHANGED <<shop, now, tx>>,
             \A r \in Runs, o \in Orders : run'[r].snap[o] \in {0, run[r].snap[o], shop[o]}
      PROVE  Current'
  BY <1>0, <1>1, CurrentKept
<1>2. ASSUME NEW r \in Runs, NEW k \in Kinds, Start(r, k) PROVE Current'
  <2>1. UNCHANGED <<shop, now, tx>> /\ run'[r].snap = NoSnap /\ \A s \in Runs \ {r} : run'[s] = run[s]
    BY <1>0, <1>2 DEF Start, shopify
  <2> QED BY <1>1, <2>1 DEF NoSnap
<1>3. ASSUME NEW r \in Runs, FetchPage(r) PROVE Current'
  <2> DEFINE found == {o \in Orders : /\ PageOf[o] = run[r].page
                                      /\ shop[o] > 0 /\ shop[o] >= run[r].since}
             snap == [o \in Orders |-> IF o \in found THEN shop[o] ELSE 0]
  <2>1. /\ UNCHANGED <<shop, now, tx>>
        /\ run' = [run EXCEPT ![r].at = "page", ![r].left = found, ![r].snap = snap]
    BY <1>3 DEF FetchPage, shopify
  <2> HIDE DEF found
  <2>2. run'[r].snap = snap /\ \A s \in Runs \ {r} : run'[s] = run[s]
    BY <1>0, <2>1 DEF Locals
  <2> QED BY <1>1, <2>1, <2>2
<1>4. ASSUME NEW r \in Runs, PersistPage(r) PROVE Current'
  <2>1. UNCHANGED <<shop, now, tx>> /\ \A s \in Runs : run'[s].snap = run[s].snap
    BY <1>0, <1>4 DEF PersistPage, shopify, Locals
  <2> QED BY <1>1, <2>1
<1>5. ASSUME NEW r \in Runs, Finish(r) PROVE Current'
  <2>1. UNCHANGED <<shop, now, tx>> /\ run'[r] = Idle /\ \A s \in Runs \ {r} : run'[s] = run[s]
    BY <1>0, <1>5 DEF Finish, shopify
  <2> QED BY <1>1, <2>1 DEF Idle, NoSnap
<1>6. ASSUME NEW r \in Runs, NEW o \in Orders, Unreadable(r, o) PROVE Current'
  <2>1. /\ UNCHANGED <<shop, now, tx>> /\ run'[r] = Settled(run[r], o, "skipped")
        /\ \A s \in Runs \ {r} : run'[s] = run[s]
    BY <1>0, <1>6 DEF Unreadable, shopify
  <2>2. \A q \in Orders : run'[r].snap[q] \in {0, run[r].snap[q]}
    BY <1>0, <1>6, <2>1, SettledSnap DEF Outcomes
  <2> QED BY <1>1, <2>1, <2>2
<1>7. ASSUME NEW p \in Actors, Abort(p) PROVE Current'
  <2>1. /\ UNCHANGED <<shop, now>> /\ tx' = [tx EXCEPT ![p] = NoTx]
        /\ \A s \in Runs : run'[s] = run[s] \/ run'[s] = Idle
    BY <1>0, <1>7 DEF Abort, shopify
  <2>2. \A s \in Actors : tx'[s] # NoTx => tx'[s] = tx[s]
    BY <1>0, <2>1
  <2>3. \A q \in Orders : Idle.snap[q] = 0
    BY DEF Idle, NoSnap
  <2>4. \A s \in Runs, q \in Orders : run'[s].snap[q] \in {0, run[s].snap[q], shop[q]}
    BY <2>1, <2>3
  <2> QED BY <1>0, <2>1, <2>2, <2>4, CurrentKept
<1>8. ASSUME NEW o \in Orders, ChangeOrder(o) PROVE Current'
  <2>1. UNCHANGED <<run, tx>> /\ shop' = [shop EXCEPT ![o] = now + 1] /\ now' = now + 1
    BY <1>8 DEF ChangeOrder
  <2>2. now \in Nat /\ \A q \in Orders : shop[q] \in Nat /\ shop[q] <= now
    BY <1>0 DEF IInv, TypeOK, Versions, Current
  <2>3. \A q \in Orders : shop'[q] \in Nat /\ shop'[q] >= shop[q] /\ shop'[q] <= now'
    BY <1>0, <2>1, <2>2
  <2>4. ASSUME NEW p \in Actors, tx[p] # NoTx PROVE tx[p].at <= shop'[tx[p].order]
    <3>1. tx[p].order \in Orders /\ tx[p].at \in Nat /\ tx[p].at <= shop[tx[p].order]
      BY <1>0, <2>4 DEF Transactions, Versions, Current
    <3> QED BY <2>2, <2>3, <3>1
  <2>5. ASSUME NEW r \in Runs, NEW q \in Orders PROVE run[r].snap[q] <= shop'[q]
    <3>1. run[r].snap[q] \in Nat /\ run[r].snap[q] <= shop[q]
      BY <1>0 DEF Locals, Current
    <3> QED BY <2>2, <2>3, <3>1
  <2> QED BY <2>1, <2>3, <2>4, <2>5 DEF Current
<1>9. ASSUME UNCHANGED <<shop, now, run, tx>> PROVE Current'
  BY <1>9 DEF Current
<1>10. ASSUME NEW r \in Runs, Sync(r) PROVE Current'
  <2>1. ASSUME NEW o \in Orders, TakeOrder(r, o) PROVE Current'
    BY <2>1, FetchCurrent DEF Actors
  <2> QED BY <1>2, <1>3, <1>4, <1>5, <1>10, <2>1 DEF Sync
<1>11. ASSUME NEW h \in Hooks, NEW o \in Orders, WebhookFetch(h, o) PROVE Current'
  BY <1>11, FetchCurrent DEF Actors
<1>12. ASSUME (\E o \in Orders : Redact(o)) \/ (\E n \in Limits : ChangePlan(n)) \/ UNCHANGED vars
       PROVE  Current'
  BY <1>9, <1>12 DEF Redact, ChangePlan, vars, shopify
<1> QED BY <1>6, <1>7, <1>8, <1>10, <1>11, <1>12, UpsertCurrent DEF Next

version == [o \in Orders |-> IF rows[o] = NoRow THEN 0 ELSE rows[o].at]
withheld == {o \in Stored : rows[o].redacted}

\* A step that writes one row: it is refreshed, or keeps its version.
LEMMA RowMaps ==
  ASSUME IInv, IInv', NEW o \in Orders, UNCHANGED shop,
         \A q \in Orders \ {o} : rows'[q] = rows[q],
         \/ version'[o] > version[o] /\ version'[o] <= shop[o]
         \/ /\ version'[o] = version[o]
            /\ o \in withheld => o \in withheld'
            /\ o \in withheld' => version[o] > 0
  PROVE  R!Update
<1>1. version' \in [Orders -> Nat]
  <2>1. \A q \in Orders : rows'[q] # NoRow => rows'[q].at \in Nat
    BY DEF IInv, TypeOK, Rows, Versions
  <2> QED BY <2>1 DEF version
<1>2. ASSUME NEW q \in Orders \ {o}
      PROVE  /\ version'[q] = version[q] /\ (q \in withheld => q \in withheld')
             /\ q \in withheld' => version[q] > 0
  <2>1. rows[q] # NoRow => rows[q].at > 0
    BY DEF IInv, TypeOK, Rows, Versions
  <2> QED BY <2>1 DEF version, withheld, Stored
<1> QED BY <1>1, <1>2 DEF R!Update, R!Refreshed, R!Kept, version, withheld

LEMMA UpdateMaps ==
  ASSUME IInv, IInv', Current, NEW p \in Actors, UpdateOrder(p)
  PROVE  R!Update
<1> DEFINE o == tx[p].order
<1>1. /\ tx[p] \in Transactions /\ o \in Stored /\ o \in Orders /\ tx[p].at \in Nat
      /\ tx[p].at <= shop[o] /\ UNCHANGED shop
  BY DEF IInv, TypeOK, UpdateOrder, FoundOK, Current, Transactions, Versions, shopify
<1>2. rows \in [Orders -> Rows \cup {NoRow}] /\ rows[o] \in Rows /\ rows[o] # NoRow /\ rows[o].at \in Nat
      /\ rows[o].at > 0
  BY <1>1 DEF IInv, TypeOK, Stored, Rows, Versions
<1>3. CASE rows[o].at < tx[p].at /\ rows' = [rows EXCEPT ![o].at = tx[p].at]
  <2>1. rows'[o].at = tx[p].at /\ \A q \in Orders \ {o} : rows'[q] = rows[q]
    BY <1>1, <1>2, <1>3 DEF Rows
  <2>2. rows'[o] # NoRow
    <3>1. Stored' = Stored
      BY UpdateOrderSafe
    <3> QED BY <1>1, <3>1 DEF Stored
  <2>3. version'[o] = tx[p].at /\ version[o] = rows[o].at
    BY <1>1, <1>2, <2>1, <2>2 DEF version
  <2> QED BY <1>1, <1>3, <2>1, <2>3, RowMaps
<1>4. CASE UNCHANGED rows
  BY <1>1, <1>2, <1>4, RowMaps DEF version, withheld, Stored
<1> QED BY <1>3, <1>4 DEF UpdateOrder

LEMMA CreateMaps ==
  ASSUME IInv, IInv', Current, NEW p \in Actors, CreateOrder(p), UNCHANGED shop
  PROVE  R!Update \/ UNCHANGED rows
<1> DEFINE o == tx[p].order
<1>1. /\ tx[p] \in Transactions /\ o \in Orders /\ tx[p].at \in Nat /\ tx[p].at > 0
      /\ tx[p].at <= shop[o] /\ rows \in [Orders -> Rows \cup {NoRow}]
  BY DEF IInv, TypeOK, CreateOrder, Current, Transactions, Versions
<1>2. CASE rows[o] = NoRow /\ rows' = [rows EXCEPT ![o] = [at |-> tx[p].at, redacted |-> FALSE]]
  <2>1. rows'[o] = [at |-> tx[p].at, redacted |-> FALSE] /\ \A q \in Orders \ {o} : rows'[q] = rows[q]
    BY <1>1, <1>2
  <2>2. rows'[o] # NoRow
    <3>1. [at |-> tx[p].at, redacted |-> FALSE] \in Rows
      BY <1>1 DEF Rows, Transactions
    <3> QED BY <2>1, <3>1, OrderSyncAssumption
  <2>3. version'[o] = tx[p].at /\ version[o] = 0
    BY <1>1, <1>2, <2>1, <2>2 DEF version
  <2> QED BY <1>1, <2>1, <2>3, RowMaps
<1> QED BY <1>2 DEF CreateOrder

LEMMA RedactMaps ==
  ASSUME IInv, IInv', NEW o \in Orders, Redact(o)
  PROVE  R!Update
<1>1. /\ rows[o] \in Rows /\ rows[o] # NoRow /\ rows[o].at \in Nat /\ rows[o].at > 0
      /\ rows \in [Orders -> Rows \cup {NoRow}] /\ UNCHANGED shop
  BY DEF IInv, TypeOK, Redact, Rows, Versions, shopify
<1>2. /\ rows'[o].at = rows[o].at /\ rows'[o].redacted
      /\ \A q \in Orders \ {o} : rows'[q] = rows[q]
  BY <1>1 DEF Redact, Rows
<1>3. Stored' = Stored
  BY RedactSafe
<1>4. rows'[o] # NoRow
  BY <1>1, <1>3 DEF Stored
<1>5. version'[o] = version[o] /\ version[o] > 0 /\ o \in withheld'
  BY <1>1, <1>2, <1>3, <1>4 DEF version, withheld, Stored
<1> QED BY <1>1, <1>2, <1>5, RowMaps

LEMMA StepMaps ==
  ASSUME IInv, IInv', Current, [Next]_vars
  PROVE  R!Next \/ UNCHANGED <<shop, version, withheld>>
<1>1. ASSUME UNCHANGED <<shop, rows>> PROVE UNCHANGED <<shop, version, withheld>>
  BY <1>1 DEF version, withheld, Stored
<1>2. ASSUME NEW o \in Orders, ChangeOrder(o) PROVE R!Next
  <2>1. now \in Nat /\ shop \in [Orders -> Nat] /\ shop[o] <= now /\ shop' = [shop EXCEPT ![o] = now + 1]
    BY <1>2 DEF ChangeOrder, IInv, TypeOK, Versions, Current
  <2>2. shop' \in [Orders -> Nat] /\ \A q \in Orders : shop'[q] >= shop[q]
    BY <2>1
  <2>3. UNCHANGED <<version, withheld>>
    BY <1>2 DEF ChangeOrder, version, withheld, Stored
  <2> QED BY <2>2, <2>3 DEF R!Next, R!Publish, version, withheld
<1>3. ASSUME NEW o \in Orders, Redact(o) PROVE R!Next
  BY <1>3, RedactMaps DEF R!Next
<1>4. ASSUME NEW p \in Actors, Upsert(p)
      PROVE  R!Next \/ UNCHANGED <<shop, version, withheld>>
  <2>1. UNCHANGED shop
    BY <1>4 DEF Upsert, FindOrder, UpdateOrder, CheckLimit, CreateOrder, shopify
  <2>2. CASE FindOrder(p) \/ CheckLimit(p)
    BY <1>1, <2>1, <2>2 DEF FindOrder, CheckLimit
  <2>3. CASE UpdateOrder(p)
    BY <2>3, UpdateMaps DEF R!Next
  <2>4. CASE CreateOrder(p)
    BY <1>1, <2>1, <2>4, CreateMaps DEF R!Next
  <2> QED BY <1>4, <2>2, <2>3, <2>4 DEF Upsert
<1>5. \/ UNCHANGED <<shop, rows>>
      \/ \E o \in Orders : ChangeOrder(o) \/ Redact(o)
      \/ \E p \in Actors : Upsert(p)
  BY DEF Next, vars, shopify, Sync, FetchPage, PersistPage, Finish, Start, TakeOrder, Unreadable,
         WebhookFetch, Abort, ChangePlan
<1> QED BY <1>1, <1>2, <1>3, <1>4, <1>5

\* The orders table implements a replica of Shopify's orders: syncs, quarantine
\* retries and webhooks write only what Shopify has had, never back, and leave
\* a redaction alone unless they bring a newer version (upsertOrderRow).
THEOREM OrdersImplementReplica == Spec => ReplicaSpec
<1>1. Init => R!Init /\ Current
  <2> SUFFICES ASSUME Init PROVE R!Init /\ Current
    OBVIOUS
  <2>1. shop \in [Orders -> Nat] /\ \A o \in Orders : shop[o] \in {0, 1}
    BY DEF Init
  <2>2. Stored = {} /\ \A o \in Orders : rows[o] = NoRow
    BY DEF Init, Stored
  <2>3. Current
    BY <2>1 DEF Init, Current, Idle, NoSnap
  <2> QED BY <2>1, <2>2, <2>3 DEF R!Init
<1>2. IInv /\ IInv' /\ Current /\ [Next]_vars => Current'
  BY CurrentStep
<1>3. IInv /\ IInv' /\ Current /\ [Next]_vars
        => [R!Next]_<<shop,
                      [o \in Orders |-> IF rows[o] = NoRow THEN 0 ELSE rows[o].at],
                      {o \in Stored : rows[o].redacted}>>
  BY StepMaps DEF version, withheld
<1> QED BY <1>1, <1>2, <1>3, OrderSyncInvariant, PTL DEF Spec, ReplicaSpec, R!Spec
=============================================================================
