------------------------------ MODULE Catalog ------------------------------
(***************************************************************************)
(* The rows of one Shopify product (products of product.server.ts): its    *)
(* variants, written by product syncs and by the webhooks                  *)
(* products/create, products/update and products/delete, which may all     *)
(* overlap and arrive in any order.                                        *)
(*                                                                         *)
(* A row carries the updatedAt of the product it was written from.  An     *)
(* upsert takes effect only over an older row; archiving looks at no       *)
(* version.  Products share nothing but the plan limit, so Limits are the  *)
(* rows that the plan leaves for this product.                             *)
(*                                                                         *)
(* The transaction of products/update is two steps, if it creates.  Its    *)
(* first read of a variant that is not there locks nothing; the creation   *)
(* that follows locks the store, and then no other writer creates before   *)
(* the commit.  All else is one step: a statement locks the rows it changes*)
(* until the commit, or skips a row that is not older, which stays so.     *)
(* An upsert outside of a transaction is one step too: its update repeats  *)
(* the test of its read, and a creation that loses a race is tried again   *)
(* as an update, or finds the plan full and ends the sync, as SyncFails.   *)
(***************************************************************************)
EXTENDS Naturals, Sequences, FiniteSets

CONSTANTS
  Variants,
  Syncs,        \* runs of syncProductsFromShopify, possibly at the same time
  Hooks,        \* deliveries of products/update
  Limits,       \* maxProducts of the plans
  MaxVersion,   \* bound: versions of the product at Shopify
  NoRow

ASSUME CatalogAssumption ==
  /\ IsFiniteSet(Variants)
  /\ Limits \subseteq Nat
  /\ MaxVersion \in Nat \ {0}
  /\ NoRow \notin [version : Nat, status : {"active", "archived"}]

VARIABLES
  catalog,   \* the versions of the product at Shopify, its updatedAt an index
  deleted,   \* the product was deleted at Shopify
  limit,     \* maxProducts of the plan in force
  row,       \* products: version and status by variant
  sync,      \* the locals of each sync
  hook,      \* the locals of each products/update
  outrun     \* history: a newer row was archived from an older version

shopify == <<catalog, deleted>>
vars == <<shopify, limit, row, sync, hook, outrun>>

Statuses == {"active", "archived"}
Versions == [variants : SUBSET Variants, status : Statuses]

now == Len(catalog)

Stored == {v \in Variants : row[v] # NoRow}

\* assertProductCreateAllowedAtomic counts the archived rows too.
Room(rows) == Cardinality(Stored) + rows <= limit

Init ==
  /\ catalog \in {<<c>> : c \in Versions}
  /\ deleted = FALSE
  /\ limit \in Limits
  /\ row = [v \in Variants |-> NoRow]
  /\ sync = [s \in Syncs |-> [step |-> "idle", version |-> 1, stored |-> {}]]
  /\ hook = [h \in Hooks |-> [step |-> "idle", version |-> 1, missed |-> {}]]
  /\ outrun = FALSE

-----------------------------------------------------------------------------
(* Rows                                                                    *)

Written(n) == [version |-> n, status |-> catalog[n].status]

\* mutant: the update does not repeat the test of the read
OlderOrSame(v, n) == row[v] # NoRow /\ row[v].version <= now

Older(v, n) == row[v] # NoRow /\ row[v].version < n

\* The rows after reconcileRemovedVariants or archiveProductByShopifyId.
Archived(rows, gone) ==
  [v \in Variants |->
    IF v \in gone /\ rows[v] # NoRow THEN [rows[v] EXCEPT !.status = "archived"] ELSE rows[v]]

Outruns(n, gone) ==
  \E v \in gone : /\ row[v] # NoRow
                  /\ row[v].version > n
                  /\ row[v].status # "archived"

-----------------------------------------------------------------------------
(* syncProductsFromShopify                                                 *)

SyncFetch(s) ==
  /\ sync[s].step # "store"
  /\ ~deleted
  /\ sync' = [sync EXCEPT ![s] = [step |-> "store", version |-> now, stored |-> {}]]
  /\ UNCHANGED <<shopify, limit, row, hook, outrun>>

Unstored(s) == catalog[sync[s].version].variants \ sync[s].stored

SyncUpsert(s, v) ==
  /\ sync[s].step = "store"
  /\ v \in Unstored(s)
  /\ v \in Stored \/ Room(1)
  /\ row' = IF v \notin Stored \/ Older(v, sync[s].version)
            THEN [row EXCEPT ![v] = Written(sync[s].version)]
            ELSE row
  /\ sync' = [sync EXCEPT ![s].stored = @ \cup {v}]
  /\ UNCHANGED <<shopify, limit, hook, outrun>>

\* mutant: the plan limit only ends the loop over the variants
SyncBlockedReconciles(s, v) ==
  /\ sync[s].step = "store"
  /\ v \in Unstored(s)
  /\ v \notin Stored /\ ~Room(1)
  /\ row' = Archived(row, Variants \ sync[s].stored)
  /\ sync' = [sync EXCEPT ![s].step = "idle"]
  /\ UNCHANGED <<shopify, limit, hook, outrun>>

\* The plan limit ends the sync before it reconciles.
SyncBlocked(s, v) ==
  /\ sync[s].step = "store"
  /\ v \in Unstored(s)
  /\ v \notin Stored /\ ~Room(1)
  /\ sync' = [sync EXCEPT ![s].step = "idle"]
  /\ UNCHANGED <<shopify, limit, row, hook, outrun>>

\* mutant: a variant that could not be stored is passed over
SyncReconcilesEarly(s) ==
  /\ sync[s].step = "store"
  /\ row' = Archived(row, Variants \ catalog[sync[s].version].variants)
  /\ outrun' = (outrun \/ Outruns(sync[s].version, Variants \ catalog[sync[s].version].variants))
  /\ sync' = [sync EXCEPT ![s].step = "complete"]
  /\ UNCHANGED <<shopify, limit, hook>>

\* Every variant was stored or found newer; the others are archived.
SyncReconcile(s) ==
  /\ sync[s].step = "store"
  /\ Unstored(s) = {}
  /\ row' = Archived(row, Variants \ sync[s].stored)
  /\ outrun' = (outrun \/ Outruns(sync[s].version, Variants \ sync[s].stored))
  /\ sync' = [sync EXCEPT ![s].step = "complete"]
  /\ UNCHANGED <<shopify, limit, hook>>

\* An error, the end of the process, or a plan found full for a variant that
\* another writer created since the read.
SyncFails(s) ==
  /\ sync[s].step = "store"
  /\ sync' = [sync EXCEPT ![s].step = "idle"]
  /\ UNCHANGED <<shopify, limit, row, hook, outrun>>

-----------------------------------------------------------------------------
(* Webhooks                                                                *)

\* The creations of one transaction: the variant that it missed first, then as
\* many as the plan allows; the others are skipped.
Creations(n, missed) ==
  LET new == catalog[n].variants \ Stored IN
  {C \in SUBSET new : /\ C # {} => /\ missed \subseteq C
                                   /\ Room(Cardinality(C))
                      /\ C # new => ~Room(Cardinality(C) + 1)}

\* The rows after the upserts of version n; what was missed is no update.
Upserted(n, missed, created) ==
  [v \in Variants |->
    IF v \in created \/ (v \in catalog[n].variants \ missed /\ Older(v, n))
    THEN Written(n)
    ELSE row[v]]

\* applyProductGraphqlWrites and applyProductWebhookWrites: upserts, the
\* reconciliation of the removed variants, and the archiving of an archived
\* product.
Apply(n, missed, removed) ==
  LET gone == IF catalog[n].status = "archived" THEN Variants ELSE removed IN
  /\ \E created \in Creations(n, missed) :
       row' = Archived(Upserted(n, missed, created), gone)
  /\ outrun' = (outrun \/ Outruns(n, gone))

\* handleProductUpdateWebhook reads the product at Shopify, whatever version
\* the delivery was sent for; a deleted one is not found, and retried.
HookFetch(h) ==
  /\ hook[h].step # "write"
  /\ ~deleted
  /\ hook' = [hook EXCEPT ![h] = [step |-> "write", version |-> now, missed |-> {}]]
  /\ UNCHANGED <<shopify, limit, row, sync, outrun>>

\* The transaction looks for a variant and finds no row; it has yet to lock the
\* store and to count its products.
HookMiss(h, v) ==
  /\ hook[h].step = "write"
  /\ hook[h].missed = {}
  /\ v \in catalog[hook[h].version].variants \ Stored
  /\ hook' = [hook EXCEPT ![h].missed = {v}]
  /\ UNCHANGED <<shopify, limit, row, sync, outrun>>

\* A variant created since it was missed is skipped when the plan is full by
\* then; else its creation fails, and the transaction with it (HookFails).
Commits(h) ==
  /\ hook[h].step = "write"
  /\ hook[h].missed = {} => catalog[hook[h].version].variants \subseteq Stored
  /\ hook[h].missed \cap Stored # {} => ~Room(1)

\* mutant: removed variants are left alone
HookWriteOnly(h) ==
  /\ Commits(h)
  /\ Apply(hook[h].version, hook[h].missed, {})
  /\ hook' = [hook EXCEPT ![h].step = "done"]
  /\ UNCHANGED <<shopify, limit, sync>>

HookWrite(h) ==
  /\ Commits(h)
  /\ Apply(hook[h].version, hook[h].missed, Variants \ catalog[hook[h].version].variants)
  /\ hook' = [hook EXCEPT ![h].step = "done"]
  /\ UNCHANGED <<shopify, limit, sync>>

\* The transaction fails; the delivery is retried.
HookFails(h) ==
  /\ hook[h].step = "write"
  /\ hook' = [hook EXCEPT ![h].step = "idle"]
  /\ UNCHANGED <<shopify, limit, row, sync, outrun>>

\* handleProductCreateWebhook writes its payload, the first version, without
\* reconciliation; the delivery may come at any time.  It is one step: a row
\* created since its read is not older than the payload, and skipped either way.
CreateHook ==
  /\ catalog[1].variants # {}
  /\ Apply(1, {}, {})
  /\ UNCHANGED <<shopify, limit, sync, hook>>

DeleteHook ==
  /\ deleted
  /\ row' = Archived(row, Variants)
  /\ UNCHANGED <<shopify, limit, sync, hook, outrun>>

-----------------------------------------------------------------------------
(* Shopify                                                                 *)

\* The merchant changes the product.  A variant that was removed never comes
\* back under its id.
Edit(variants, status) ==
  /\ ~deleted /\ now < MaxVersion
  /\ \A v \in variants : \/ v \in catalog[now].variants
                         \/ \A n \in 1 .. now : v \notin catalog[n].variants
  /\ catalog' = Append(catalog, [variants |-> variants, status |-> status])
  /\ UNCHANGED <<deleted, limit, row, sync, hook, outrun>>

Delete ==
  /\ ~deleted
  /\ deleted' = TRUE
  /\ UNCHANGED <<catalog, limit, row, sync, hook, outrun>>

ChangePlan(l) ==
  /\ l # limit
  /\ limit' = l
  /\ UNCHANGED <<shopify, row, sync, hook, outrun>>

Next ==
  \/ \E s \in Syncs :
       \/ SyncFetch(s) \/ SyncReconcile(s) \/ SyncFails(s)
       \/ \E v \in Variants : SyncUpsert(s, v) \/ SyncBlocked(s, v)
  \/ \E h \in Hooks :
       \/ HookFetch(h) \/ HookWrite(h) \/ HookFails(h)
       \/ \E v \in Variants : HookMiss(h, v)
  \/ CreateHook \/ DeleteHook
  \/ \E variants \in SUBSET Variants, status \in Statuses : Edit(variants, status)
  \/ Delete
  \/ \E l \in Limits : ChangePlan(l)

Spec == Init /\ [][Next]_vars

-----------------------------------------------------------------------------
(* Properties                                                              *)

TypeOK ==
  /\ catalog \in Seq(Versions) /\ now \in 1 .. MaxVersion
  /\ deleted \in BOOLEAN /\ outrun \in BOOLEAN
  /\ limit \in Limits
  /\ row \in [Variants -> [version : 1 .. now, status : Statuses] \cup {NoRow}]
  /\ sync \in [Syncs -> [step : {"idle", "store", "complete"}, version : 1 .. now,
                         stored : SUBSET Variants]]
  /\ hook \in [Hooks -> [step : {"idle", "write", "done"}, version : 1 .. now,
                         missed : SUBSET Variants]]

(* No row goes back to an older version of the product, whichever writers   *)
(* overlap (f614-high-elimination.test.ts: "prevents concurrent product     *)
(* writers from overwriting newer Shopify state").                          *)
VersionsGrow ==
  [][\A v \in Stored : row'[v] # NoRow /\ row'[v].version >= row[v].version]_vars

(* What is archived was gone at some time: no row is archived because the   *)
(* plan refused it, or because a sync did not come as far as its variant.   *)
ArchivedWasGone ==
  \A v \in Stored :
    row[v].status = "archived" =>
      \/ deleted
      \/ \E n \in 1 .. now : v \notin catalog[n].variants \/ catalog[n].status = "archived"

(* A sync that completes has stored every variant it fetched, at that       *)
(* version or a later one, whatever the plan and other writers did.         *)
CompleteIsStored ==
  \A s \in Syncs : sync[s].step = "complete" =>
    \A v \in catalog[sync[s].version].variants :
      v \in Stored /\ row[v].version >= sync[s].version

\* The row of a variant agrees with the product as it is at Shopify.
Agrees(v) ==
  IF v \in catalog[now].variants
  THEN row[v] = Written(now)
  ELSE row[v].status = "archived"

\* A sync or a webhook of the current version comes to its end in this step.
SyncEnds(s) ==
  sync[s].step = "store" /\ sync'[s].step = "complete" /\ sync[s].version = now

HookEnds(h) ==
  hook[h].step = "write" /\ hook'[h].step = "done" /\ hook[h].version = now

\* What a webhook passes over although its row is older: it has found no row,
\* and another writer created it before the plan was looked at.
Overlooked(h) == {v \in hook[h].missed : Older(v, hook[h].version)}

(* A sync or products/update of the current version leaves the rows as the  *)
(* product is, after whatever late payloads, failures, overlaps and refused *)
(* creations -- unless an older version was once used to archive a newer    *)
(* row, which no later pass at the same version repairs; and but for a      *)
(* variant that the webhook overlooks, which the next pass brings up.       *)
Converges ==
  [][~deleted /\ ~outrun' =>
       /\ \A s \in Syncs : SyncEnds(s) => \A v \in Stored' : Agrees(v)'
       /\ \A h \in Hooks : HookEnds(h) => \A v \in Stored' \ Overlooked(h) : Agrees(v)']_vars

R == INSTANCE Replica WITH
       Keys <- Variants,
       source <- [v \in Variants |-> now],
       version <- [v \in Variants |-> IF row[v] = NoRow THEN 0 ELSE row[v].version],
       withheld <- {v \in Stored : row[v].status = "archived"}

(* The rows are a replica of the product, whichever writers overlap: a row  *)
(* has a version that the product has had, never an older one than before,  *)
(* and one that was archived becomes active only from a newer version       *)
(* (f614-high-elimination.test.ts: "prevents concurrent product writers     *)
(* from overwriting newer Shopify state").                                  *)
ReplicaSpec == R!Spec
=============================================================================
