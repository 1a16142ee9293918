------------------------------ MODULE OrderSync ------------------------------
(***************************************************************************)
(* Order synchronisation of one active store: the historical import and    *)
(* the incremental sync of app/services/orders.server.ts, which share the  *)
(* cursor and the quarantine in stores.ordersSyncCursor, the order         *)
(* webhooks that upsert the same rows, the plan limit on orders            *)
(* (app/services/billing-enforcement.server.ts) and the redaction of a     *)
(* customer's orders (app/services/gdpr.server.ts).                        *)
(*                                                                         *)
(* A row is reduced to its Shopify version and its redaction flag: line    *)
(* items are written in the transaction of their order.  Transactions run  *)
(* at READ COMMITTED: findUnique, the locked count and the final write are *)
(* steps of their own.  A page is a position of the list of orders, newest *)
(* first; the orders of a page and of a quarantine are taken in any order. *)
(***************************************************************************)
EXTENDS Integers, FiniteSets

CONSTANTS
  Orders,
  Present,         \* the orders placed before the app was installed
  PageOf,          \* the position of each order
  LastPage,
  Runs,            \* workers that execute order jobs
  Kinds,           \* the job types: "historical", "incremental"
  Hooks,           \* order webhook handlers
  Limits,          \* the maxOrders of the plans
  Erased,          \* orders of customers who ask for redaction
  MaxNow,          \* bound: versions of orders
  MaxFaults,       \* bound: crashes, Shopify errors and unreadable orders
  NoRow, NoTx

Pages == 1 .. LastPage
Versions == 1 .. MaxNow
Rows == [at : Versions, redacted : BOOLEAN]
Transactions == [order : Orders, at : Versions,
                 stage : {"fetched", "update", "create", "insert"}]

ASSUME OrderSyncAssumption ==
  /\ IsFiniteSet(Orders)
  /\ Present \subseteq Orders
  /\ LastPage \in Nat \ {0}
  /\ PageOf \in [Orders -> Pages]
  /\ \A o \in Orders \ Present : PageOf[o] = 1
  /\ Runs \cap Hooks = {}
  /\ Kinds \subseteq {"historical", "incremental"}
  /\ Limits \subseteq Nat
  /\ Erased \subseteq Orders
  /\ MaxNow \in Nat \ {0}
  /\ MaxFaults \in Nat
  /\ NoRow \notin Rows
  /\ NoTx \notin Transactions

VARIABLES
  shop,        \* shopifyUpdatedAt of each order at Shopify, 0 before it is placed
  now,
  rows,        \* the orders table
  saved,       \* stores.ordersSyncCursor
  importDone,  \* stores.historicalOrdersImportDone
  lastSync,    \* stores.lastOrdersSyncAt, 0 for null
  limit,       \* plan.maxOrders
  run,         \* the locals of each running sync
  tx,          \* the upsert each run or webhook is in
  faults

store == <<saved, importDone, lastSync>>
shopify == <<shop, now>>
vars == <<shopify, rows, store, limit, run, tx, faults>>

Actors == Runs \cup Hooks

\* OrdersSyncCursorState; a null pageCursor is the first page
Cursors == [page : Pages, q : SUBSET Orders, paged : BOOLEAN]

NoCursor == [page |-> 1, q |-> {}, paged |-> FALSE]

Locals == [at : {"idle", "retry", "fetch", "page", "stopped"},
           kind : {"historical", "incremental"},
           since : 0 .. MaxNow,            \* of the query; 0 is the historical query
           page : Pages,                   \* orderCursor
           paged : BOOLEAN,                \* historicalPagesComplete
           left : SUBSET Orders,           \* still to retry, or of the page
           snap : [Orders -> 0 .. MaxNow], \* the page as it was fetched
           q : SUBSET Orders,              \* quarantinedOrderIds
           blocked : BOOLEAN]

NoSnap == [o \in Orders |-> 0]

Idle == [at |-> "idle", kind |-> "historical", since |-> 0, page |-> 1, paged |-> FALSE,
         left |-> {}, snap |-> NoSnap, q |-> {}, blocked |-> FALSE]

Stored == {o \in Orders : rows[o] # NoRow}

Init ==
  /\ shop = [o \in Orders |-> IF o \in Present THEN 1 ELSE 0]
  /\ now = 1
  /\ rows = [o \in Orders |-> NoRow]
  /\ saved = NoCursor
  /\ importDone = FALSE
  /\ lastSync = 0
  /\ limit \in Limits
  /\ run = [r \in Runs |-> Idle]
  /\ tx = [p \in Actors |-> NoTx]
  /\ faults = 0

-----------------------------------------------------------------------------
(* A sync run: syncOrdersFromShopify and syncOrdersIncremental             *)

Start(r, kind) ==
  /\ run[r].at = "idle"
  /\ run' = [run EXCEPT ![r] =
       [at |-> "retry", kind |-> kind,
        since |-> IF kind = "incremental" THEN lastSync ELSE 0,
        page |-> saved.page,
        paged |-> kind = "historical" /\ saved.paged,
        left |-> saved.q, snap |-> NoSnap, q |-> saved.q, blocked |-> FALSE]]
  /\ UNCHANGED <<shopify, rows, store, limit, tx, faults>>

Ready(r) == run[r].left = {} /\ tx[r] = NoTx

FetchPage(r) ==
  /\ Ready(r)
  /\ \/ run[r].at = "fetch"
     \/ run[r].at = "retry" /\ ~run[r].paged
  /\ LET found == {o \in Orders : /\ PageOf[o] = run[r].page
                                  /\ shop[o] > 0 /\ shop[o] >= run[r].since}
     IN run' = [run EXCEPT ![r].at = "page", ![r].left = found,
                           ![r].snap = [o \in Orders |-> IF o \in found THEN shop[o] ELSE 0]]
  /\ UNCHANGED <<shopify, rows, store, limit, tx, faults>>

\* The next order: of the page as it was fetched, or fetched anew by its id.
TakeOrder(r, o) ==
  /\ run[r].at \in {"retry", "page"}
  /\ o \in run[r].left
  /\ tx[r] = NoTx
  /\ tx' = [tx EXCEPT ![r] =
       [order |-> o, stage |-> "fetched",
        at |-> IF run[r].at = "page" THEN run[r].snap[o] ELSE shop[o]]]
  /\ UNCHANGED <<shopify, rows, store, limit, run, faults>>

\* retryQuarantinedOrders and processOrdersPageEdges on the outcome of an order
Settled(l, o, outcome) ==
  LET rest == [l EXCEPT !.left = @ \ {o}, !.snap[o] = 0] IN
  CASE outcome = "upserted" ->
         IF l.at = "retry" THEN [rest EXCEPT !.q = @ \ {o}] ELSE rest
    [] outcome = "skipped" -> [rest EXCEPT !.q = @ \cup {o}]
    [] outcome = "limit" ->
         [l EXCEPT !.left = {}, !.snap = NoSnap, !.q = @ \cup {o}, !.blocked = TRUE,
                   !.at = IF l.at = "page" THEN "stopped" ELSE @]
    [] outcome = "thrown" -> IF l.at = "retry" THEN rest ELSE Idle

\* Line items that cannot be fetched, or an order that cannot be normalised.  (A
\* node without an id is passed over and not quarantined: Shopify has none.)
Unreadable(r, o) ==
  /\ run[r].at \in {"retry", "page"}
  /\ o \in run[r].left
  /\ tx[r] = NoTx
  /\ faults < MaxFaults
  /\ faults' = faults + 1
  /\ run' = [run EXCEPT ![r] = Settled(@, o, "skipped")]
  /\ UNCHANGED <<shopify, rows, store, limit, tx>>

\* mutant: the cursor moves without the quarantine of the page
PersistCursor(r) ==
  /\ Ready(r)
  /\ run[r].at = "page"
  /\ run[r].page < LastPage
  /\ saved' = [page |-> run[r].page + 1, q |-> saved.q, paged |-> FALSE]
  /\ run' = [run EXCEPT ![r].at = "fetch", ![r].page = @ + 1]
  /\ UNCHANGED <<shopify, rows, importDone, lastSync, limit, tx, faults>>

\* persistOrdersSyncCursorState, after each page but the last
PersistPage(r) ==
  /\ Ready(r)
  /\ run[r].at = "page"
  /\ run[r].page < LastPage
  /\ saved' = [page |-> run[r].page + 1, q |-> run[r].q, paged |-> FALSE]
  /\ run' = [run EXCEPT ![r].at = "fetch", ![r].page = @ + 1]
  /\ UNCHANGED <<shopify, rows, importDone, lastSync, limit, tx, faults>>

\* mutant: a run that met its last page completes whatever it has skipped
FinishAlways(r) ==
  LET l == run[r] IN
  /\ Ready(r)
  /\ \/ l.at = "retry" /\ l.paged
     \/ l.at = "page" /\ l.page = LastPage
     \/ l.at = "stopped"
  /\ run' = [run EXCEPT ![r] = Idle]
  /\ saved' = NoCursor
  /\ lastSync' = now
  /\ importDone' = (importDone \/ l.kind = "historical")
  /\ UNCHANGED <<shopify, rows, limit, tx, faults>>

Finish(r) ==
  LET l == run[r]
      paged == l.paged \/ l.page = LastPage
      complete == ~l.blocked /\ l.q = {}
  IN
  /\ Ready(r)
  /\ \/ l.at = "retry" /\ l.paged
     \/ l.at = "page" /\ l.page = LastPage
     \/ l.at = "stopped"
  /\ run' = [run EXCEPT ![r] = Idle]
  /\ IF complete /\ (l.kind = "incremental" \/ paged)
     THEN /\ saved' = NoCursor
          /\ lastSync' = now
          /\ importDone' = (importDone \/ l.kind = "historical")
     ELSE /\ saved' = IF l.blocked THEN saved
                      ELSE [page |-> IF l.kind = "historical" /\ ~paged THEN l.page ELSE 1,
                            q |-> l.q,
                            paged |-> l.kind = "incremental" \/ paged]
          /\ UNCHANGED <<importDone, lastSync>>
  /\ UNCHANGED <<shopify, rows, limit, tx, faults>>

-----------------------------------------------------------------------------
(* The upsert of an order, by a run or by a webhook:                       *)
(* upsertOrderWithLineItems in its transaction                             *)

WebhookFetch(h, o) ==
  /\ tx[h] = NoTx
  /\ shop[o] > 0
  /\ tx' = [tx EXCEPT ![h] = [order |-> o, at |-> shop[o], stage |-> "fetched"]]
  /\ UNCHANGED <<shopify, rows, store, limit, run, faults>>

\* The transaction of p ends; a webhook that fails is delivered again.
Ends(p, outcome) ==
  /\ tx' = [tx EXCEPT ![p] = NoTx]
  /\ run' = IF p \in Runs
            THEN [run EXCEPT ![p] = Settled(@, tx[p].order, outcome)]
            ELSE run

Continues(p, stage) ==
  /\ tx' = [tx EXCEPT ![p].stage = stage]
  /\ UNCHANGED run

\* mutant: findUnique without the privacyRedacted of the row
FindUnredacted(p) ==
  LET t == tx[p]
      row == rows[t.order]
  IN
  /\ t # NoTx /\ t.stage = "fetched"
  /\ CASE row = NoRow -> Continues(p, "create")
       [] row # NoRow /\ t.at <= row.at -> Ends(p, "skipped")
       [] OTHER -> Continues(p, "update")
  /\ UNCHANGED <<shopify, rows, store, limit, faults>>

\* upsertOrderRow: findUnique and the two early returns
FindOrder(p) ==
  LET t == tx[p]
      row == rows[t.order]
  IN
  /\ t # NoTx /\ t.stage = "fetched"
  /\ CASE row = NoRow -> Continues(p, "create")
       [] row # NoRow /\ (row.redacted \/ t.at <= row.at) -> Ends(p, "skipped")
       [] OTHER -> Continues(p, "update")
  /\ UNCHANGED <<shopify, rows, store, limit, faults>>

\* mutant: an update by id, without the shopifyUpdatedAt of updateMany
UpdateById(p) ==
  LET t == tx[p] IN
  /\ t # NoTx /\ t.stage = "update"
  /\ rows' = [rows EXCEPT ![t.order].at = t.at]
  /\ Ends(p, "upserted")
  /\ UNCHANGED <<shopify, store, limit, faults>>

UpdateOrder(p) ==
  LET t == tx[p] IN
  /\ t # NoTx /\ t.stage = "update"
  /\ IF rows[t.order].at < t.at
     THEN rows' = [rows EXCEPT ![t.order].at = t.at] /\ Ends(p, "upserted")
     ELSE UNCHANGED rows /\ Ends(p, "skipped")
  /\ UNCHANGED <<shopify, store, limit, faults>>

\* lockStoreForBilling: held from the check of the limit until the commit
Locked == \E p \in Actors : tx[p] # NoTx /\ tx[p].stage = "insert"

\* mutant: the count without the lock
CheckUnlocked(p) ==
  /\ tx[p] # NoTx /\ tx[p].stage = "create"
  /\ IF Cardinality(Stored) + 1 <= limit THEN Continues(p, "insert") ELSE Ends(p, "limit")
  /\ UNCHANGED <<shopify, rows, store, limit, faults>>

CheckLimit(p) ==
  /\ tx[p] # NoTx /\ tx[p].stage = "create"
  /\ ~Locked
  /\ IF Cardinality(Stored) + 1 <= limit THEN Continues(p, "insert") ELSE Ends(p, "limit")
  /\ UNCHANGED <<shopify, rows, store, limit, faults>>

\* A row inserted since findUnique violates the unique key.
CreateOrder(p) ==
  LET t == tx[p] IN
  /\ t # NoTx /\ t.stage = "insert"
  /\ IF rows[t.order] = NoRow
     THEN /\ rows' = [rows EXCEPT ![t.order] = [at |-> t.at, redacted |-> FALSE]]
          /\ Ends(p, "upserted")
     ELSE UNCHANGED rows /\ Ends(p, "thrown")
  /\ UNCHANGED <<shopify, store, limit, faults>>

-----------------------------------------------------------------------------
(* The environment                                                         *)

\* A crash, an error thrown by Shopify or by the database, a permanent access failure.
Abort(p) ==
  /\ faults < MaxFaults
  /\ faults' = faults + 1
  /\ tx' = [tx EXCEPT ![p] = NoTx]
  /\ run' = IF p \in Runs THEN [run EXCEPT ![p] = Idle] ELSE run
  /\ tx[p] # NoTx \/ run' # run
  /\ UNCHANGED <<shopify, rows, store, limit>>

\* The merchant or a customer places or changes an order.
ChangeOrder(o) ==
  /\ now < MaxNow
  /\ now' = now + 1
  /\ shop' = [shop EXCEPT ![o] = now + 1]
  /\ UNCHANGED <<rows, store, limit, run, tx, faults>>

\* redactCustomerOrders on one order
Redact(o) ==
  /\ o \in Erased
  /\ rows[o] # NoRow /\ ~rows[o].redacted
  /\ rows' = [rows EXCEPT ![o].redacted = TRUE]
  /\ UNCHANGED <<shopify, store, limit, run, tx, faults>>

\* A change of plan updates the subscription, which the check holds locked.
ChangePlan(n) ==
  /\ ~Locked
  /\ n # limit
  /\ limit' = n
  /\ UNCHANGED <<shopify, rows, store, run, tx, faults>>

Upsert(p) == FindOrder(p) \/ UpdateOrder(p) \/ CheckLimit(p) \/ CreateOrder(p)

Sync(r) ==
  \/ FetchPage(r) \/ PersistPage(r) \/ Finish(r)
  \/ \E k \in Kinds : Start(r, k)
  \/ \E o \in Orders : TakeOrder(r, o)

Next ==
  \/ \E r \in Runs : Sync(r) \/ \E o \in Orders : Unreadable(r, o)
  \/ \E h \in Hooks, o \in Orders : WebhookFetch(h, o)
  \/ \E p \in Actors : Upsert(p) \/ Abort(p)
  \/ \E o \in Orders : ChangeOrder(o) \/ Redact(o)
  \/ \E n \in Limits : ChangePlan(n)

Spec == Init /\ [][Next]_vars

-----------------------------------------------------------------------------
(* Properties                                                              *)

TypeOK ==
  /\ shop \in [Orders -> 0 .. MaxNow]
  /\ now \in Versions
  /\ rows \in [Orders -> Rows \cup {NoRow}]
  /\ saved \in Cursors
  /\ importDone \in BOOLEAN
  /\ lastSync \in 0 .. MaxNow
  /\ limit \in Limits
  /\ run \in [Runs -> Locals]
  /\ tx \in [Actors -> Transactions \cup {NoTx}]
  /\ faults \in 0 .. MaxFaults

\* Whenever a run may stop, the saved cursor leaves no order behind: each order
\* of the installation is stored, in the quarantine, or on a page that the next
\* run fetches, although two runs overwrite the one cursor (orders.server.ts:2073).
Ahead(page, paged) == {o \in Orders : ~paged /\ PageOf[o] >= page}

CursorCovers == Present \subseteq Stored \cup saved.q \cup Ahead(saved.page, saved.paged)

\* An import that is marked done has stored every order the store had when the
\* app was installed, whatever crashes, blocks, concurrent runs and unreadable
\* orders it met on the way (orders.server.ts:2224).
ImportComplete == importDone => Present \subseteq Stored

\* No interleaving of imports and webhooks stores an order beyond the plan
\* limit in force (billing-enforcement.server.ts:174).
WithinPlan == [][Stored' # Stored => Cardinality(Stored') <= limit]_vars

\* However webhooks and pages are delayed, a stored order never goes back to an
\* older version, and never disappears (orders.server.ts:1442).
NeverOlder ==
  [][\A o \in Stored : rows'[o] # NoRow /\ rows'[o].at >= rows[o].at]_vars

\* Redaction lasts: once an order is redacted and no upsert that had found it
\* before is about to write it, no sync and no webhook writes it again, whatever
\* page or delayed delivery brings it back (orders.server.ts:1408).
Untouchable(o) ==
  /\ rows[o] # NoRow /\ rows[o].redacted
  /\ \A p \in Actors : tx[p] # NoTx /\ tx[p].order = o => tx[p].stage # "update"

RedactionLasts ==
  [][\A o \in Orders : Untouchable(o) => rows'[o] = rows[o] /\ Untouchable(o)']_vars

R == INSTANCE Replica WITH
       Keys <- Orders,
       source <- shop,
       version <- [o \in Orders |-> IF rows[o] = NoRow THEN 0 ELSE rows[o].at],
       withheld <- {o \in Stored : rows[o].redacted}

\* The orders table is a replica of the orders at Shopify: whatever pages,
\* quarantined ids and webhooks are written late and beside each other, a row
\* has a version that its order has had, never an older one than before, and a
\* redaction is not taken back by a version that was already stored
\* (orders.server.ts:1442).
ReplicaSpec == R!Spec
=============================================================================
