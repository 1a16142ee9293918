--------------------------- MODULE CatalogProofs ---------------------------
(***************************************************************************)
(* What holds of the rows of a product for any number of variants, syncs,  *)
(* webhooks, plans and versions.  Every step that changes rows is an       *)
(* instance of Writes: some variants are written from version n, over      *)
(* older rows only, and some are archived, whatever their version is.      *)
(***************************************************************************)
EXTENDS Catalog, TLAPS

(* The strengthening.  A row belongs to the version it was written from...  *)

RowsOffered == \A v \in Stored : v \in catalog[row[v].version].variants

(* ... and has its status as long as that is the current version, unless it *)
(* was outrun.                                                              *)

UpToDate ==
  ~deleted /\ ~outrun =>
    \A v \in Stored : row[v].version = now => row[v].status = catalog[now].status

(* What a sync has stored so far.                                           *)

SyncProgress == \A s \in Syncs : sync[s].step # "idle" =>
  /\ sync[s].stored \subseteq catalog[sync[s].version].variants
  /\ \A v \in sync[s].stored : v \in Stored /\ row[v].version >= sync[s].version
  /\ sync[s].step = "complete" => sync[s].stored = catalog[sync[s].version].variants

CatalogInv ==
  TypeOK /\ RowsOffered /\ UpToDate /\ SyncProgress /\ ArchivedWasGone

(* Variants in W are written from version n, those in gone are archived.    *)

Writes(n, W, gone) ==
  /\ n \in 1 .. now
  /\ W \subseteq catalog[n].variants
  /\ \A v \in W : row[v] = NoRow \/ row[v].version < n
  /\ gone \subseteq Variants
  /\ \A v \in gone : deleted \/ v \notin catalog[n].variants \/ catalog[n].status = "archived"
  /\ row' = Archived([v \in Variants |-> IF v \in W THEN Written(n) ELSE row[v]], gone)
  /\ outrun' \in BOOLEAN
  /\ deleted \/ outrun' = (outrun \/ Outruns(n, gone))
  /\ UNCHANGED <<shopify, limit>>

-----------------------------------------------------------------------------
(* The versions of the product and the rows                                *)

LEMMA VersionTypes ==
  ASSUME TypeOK, NEW n \in 1 .. now
  PROVE  /\ catalog[n] \in Versions
         /\ catalog[n].variants \subseteq Variants /\ catalog[n].status \in Statuses
         /\ n \in Nat
<1>1. catalog[n] \in Versions  BY DEF TypeOK, now
<1> QED  BY <1>1 DEF Versions, TypeOK

LEMMA RowTypes ==
  ASSUME TypeOK, NEW v \in Stored
  PROVE  /\ v \in Variants /\ row[v] \in [version : 1 .. now, status : Statuses]
         /\ row[v].version \in 1 .. now /\ row[v].version \in Nat
         /\ row[v].status \in Statuses
<1>1. v \in Variants /\ row[v] # NoRow  BY DEF Stored
<1>2. row \in [Variants -> [version : 1 .. now, status : Statuses] \cup {NoRow}] /\ now \in Nat
  BY DEF TypeOK
<1>3. row[v] \in [version : 1 .. now, status : Statuses]  BY <1>1, <1>2
<1> QED  BY <1>1, <1>2, <1>3

LEMMA RowsAreRows ==
  ASSUME TypeOK, NEW r \in [version : 1 .. now, status : Statuses]
  PROVE  r # NoRow
<1>1. now \in Nat  BY DEF TypeOK
<1>2. r \in [version : Nat, status : {"active", "archived"}]  BY <1>1 DEF Statuses
<1> QED  BY <1>2, CatalogAssumption

LEMMA WrittenIsRow ==
  ASSUME TypeOK, NEW n \in 1 .. now
  PROVE  /\ Written(n) \in [version : 1 .. now, status : Statuses]
         /\ Written(n) # NoRow
         /\ Written(n).version = n /\ Written(n).status = catalog[n].status
<1>1. catalog[n].status \in Statuses  BY VersionTypes
<1>2. Written(n) \in [version : 1 .. now, status : Statuses]  BY <1>1 DEF Written
<1>3. Written(n) # NoRow  BY <1>2, RowsAreRows
<1> QED  BY <1>2, <1>3 DEF Written

\* What such a step makes of one row: it is written, or it keeps its version;
\* and it may be archived.
LEMMA RowAfter ==
  ASSUME TypeOK, NEW n, NEW W, NEW gone, Writes(n, W, gone), NEW v \in Variants
  PROVE  /\ v \in Stored' <=> v \in Stored \/ v \in W
         /\ v \in Stored' => row'[v] \in [version : 1 .. now, status : Statuses]
         /\ v \in W => row'[v].version = n
         /\ v \in W => row'[v].status = IF v \in gone THEN "archived" ELSE catalog[n].status
         /\ v \in Stored /\ v \notin W => row'[v].version = row[v].version
         /\ v \in Stored /\ v \notin W =>
              row'[v].status = IF v \in gone THEN "archived" ELSE row[v].status
<1> DEFINE r == IF v \in W THEN Written(n) ELSE row[v]
<1>1. row'[v] = IF v \in gone /\ r # NoRow THEN [r EXCEPT !.status = "archived"] ELSE r
  BY DEF Writes, Archived
<1>2. n \in 1 .. now  BY DEF Writes
<1>3. ASSUME v \in W \/ v \in Stored
      PROVE  /\ r \in [version : 1 .. now, status : Statuses] /\ r # NoRow
             /\ v \in W => r.version = n /\ r.status = catalog[n].status
             /\ v \notin W => r = row[v]
  <2>1. CASE v \in W  BY <1>2, <2>1, WrittenIsRow
  <2>2. CASE v \notin W  BY <1>3, <2>2, RowTypes DEF Stored
  <2> QED  BY <2>1, <2>2
<1>4. ASSUME v \in W \/ v \in Stored
      PROVE  /\ row'[v] \in [version : 1 .. now, status : Statuses]
             /\ row'[v].version = r.version
             /\ row'[v].status = IF v \in gone THEN "archived" ELSE r.status
  <2> HIDE DEF r
  <2> QED  BY <1>1, <1>3, <1>4 DEF Statuses
<1>5. v \in W \/ v \in Stored => row'[v] # NoRow  BY <1>4, RowsAreRows
<1>6. ~(v \in W \/ v \in Stored) => row'[v] = NoRow  BY <1>1 DEF Stored
<1>7. v \in Stored' <=> v \in Stored \/ v \in W  BY <1>5, <1>6 DEF Stored
<1> HIDE DEF r
<1> QED  BY <1>3, <1>4, <1>7

\* Rows stay, and never go back.
LEMMA RowsGrow ==
  ASSUME TypeOK, NEW n, NEW W, NEW gone, Writes(n, W, gone)
  PROVE  \A v \in Stored : v \in Stored' /\ row'[v].version >= row[v].version
<1> SUFFICES ASSUME NEW v \in Stored
             PROVE  v \in Stored' /\ row'[v].version >= row[v].version
  OBVIOUS
<1>1. v \in Variants /\ row[v].version \in Nat  BY RowTypes
<1>2. row[v] # NoRow  BY DEF Stored
<1>3. n \in Nat /\ (v \in W => n > row[v].version)  BY <1>1, <1>2 DEF Writes, TypeOK
<1> QED  BY <1>1, <1>3, RowAfter

\* Of a row that is in the table after the step.
LEMMA RowBefore ==
  ASSUME TypeOK, NEW n, NEW W, NEW gone, Writes(n, W, gone), NEW v \in Stored'
  PROVE  /\ v \in Variants
         /\ \/ /\ v \in W /\ row'[v].version = n
               /\ row'[v].status = IF v \in gone THEN "archived" ELSE catalog[n].status
            \/ /\ v \notin W /\ v \in Stored /\ row'[v].version = row[v].version
               /\ row'[v].status = IF v \in gone THEN "archived" ELSE row[v].status
<1>1. v \in Variants  BY DEF Stored
<1> QED  BY <1>1, RowAfter

LEMMA WritesKeepRows ==
  ASSUME TypeOK, RowsOffered, UpToDate, ArchivedWasGone,
         NEW n, NEW W, NEW gone, Writes(n, W, gone)
  PROVE  /\ row' \in [Variants -> [version : 1 .. now, status : Statuses] \cup {NoRow}]
         /\ RowsOffered' /\ UpToDate' /\ ArchivedWasGone'
<1>1. /\ n \in 1 .. now /\ now' = now /\ now \in Nat /\ W \subseteq catalog[n].variants
      /\ catalog' = catalog /\ deleted' = deleted
  BY DEF Writes, shopify, now, TypeOK
<1>2. row' \in [Variants -> [version : 1 .. now, status : Statuses] \cup {NoRow}]
  <2>1. row' = [v \in Variants |-> row'[v]]  BY DEF Writes, Archived
  <2>2. ASSUME NEW v \in Variants, v \in Stored'
        PROVE  row'[v] \in [version : 1 .. now, status : Statuses]
    BY <2>2, RowAfter
  <2>3. \A v \in Variants : v \notin Stored' => row'[v] = NoRow  BY DEF Stored
  <2> QED  BY <2>1, <2>2, <2>3
<1>3. RowsOffered'
  <2> SUFFICES ASSUME NEW v \in Stored'
               PROVE  v \in catalog[row'[v].version].variants
    BY <1>1 DEF RowsOffered
  <2> QED  BY <1>1, RowBefore DEF RowsOffered
<1>4. UpToDate'
  <2> SUFFICES ASSUME ~deleted, ~outrun', NEW v \in Stored', row'[v].version = now
               PROVE  row'[v].status = catalog[now].status
    BY <1>1 DEF UpToDate
  <2>1. ~outrun /\ ~Outruns(n, gone)  BY DEF Writes
  <2>2. v \in gone => v \notin catalog[n].variants \/ catalog[n].status = "archived"
    BY DEF Writes
  <2>3. CASE v \in W
    BY <1>1, <2>2, <2>3, RowBefore
  <2>4. CASE v \notin W
    <3>1. v \in Stored /\ row[v].version = now /\ row[v].status = catalog[now].status
      BY <2>1, <2>4, RowBefore DEF UpToDate
    <3>2. v \in catalog[now].variants  BY <3>1 DEF RowsOffered
    <3>3. CASE v \in gone /\ n = now
      BY <2>2, <2>4, <3>2, <3>3, RowBefore
    <3>4. CASE v \in gone /\ n # now
      <4>1. row[v].version > n /\ row[v] # NoRow  BY <1>1, <3>1, <3>4 DEF Stored
      <4>2. row[v].status = "archived"  BY <2>1, <3>4, <4>1 DEF Outruns
      <4> QED  BY <2>4, <3>1, <3>4, <4>2, RowBefore
    <3>5. CASE v \notin gone
      BY <2>4, <3>1, <3>5, RowBefore
    <3> QED  BY <3>3, <3>4, <3>5
  <2> QED  BY <2>3, <2>4
<1>5. ArchivedWasGone'
  <2> SUFFICES ASSUME NEW v \in Stored', row'[v].status = "archived", ~deleted
               PROVE  \E m \in 1 .. now : v \notin catalog[m].variants \/ catalog[m].status = "archived"
    BY <1>1 DEF ArchivedWasGone
  <2>1. CASE v \in gone
    BY <1>1, <2>1 DEF Writes
  <2>2. CASE v \notin gone
    BY <1>1, <2>2, RowBefore DEF ArchivedWasGone
  <2> QED  BY <2>1, <2>2
<1> QED  BY <1>2, <1>3, <1>4, <1>5

-----------------------------------------------------------------------------
(* The steps that change rows                                              *)

LEMMA UpsertWrites ==
  ASSUME TypeOK, NEW s \in Syncs, NEW v \in Variants, SyncUpsert(s, v)
  PROVE  Writes(sync[s].version, {w \in {v} : v \notin Stored \/ Older(v, sync[s].version)}, {})
<1> DEFINE n == sync[s].version
           W == {w \in {v} : v \notin Stored \/ Older(v, n)}
           written == [w \in Variants |-> IF w \in W THEN Written(n) ELSE row[w]]
<1>1. n \in 1 .. now /\ v \in catalog[n].variants  BY DEF TypeOK, SyncUpsert, Unstored
<1>2. \A w \in W : row[w] = NoRow \/ row[w].version < n  BY DEF Older, Stored
<1>3. row = [w \in Variants |-> row[w]]  BY DEF TypeOK
<1>4. row' = written
  <2>1. CASE v \notin Stored \/ Older(v, n)
    BY <1>3, <2>1 DEF SyncUpsert
  <2>2. CASE ~(v \notin Stored \/ Older(v, n))
    <3>1. W = {} /\ row' = row  BY <2>2 DEF SyncUpsert
    <3> QED  BY <1>3, <3>1
  <2> QED  BY <2>1, <2>2
<1>5. Archived(written, {}) = written  BY DEF Archived
<1>6. ~Outruns(n, {}) /\ outrun' = outrun /\ outrun \in BOOLEAN
  BY DEF Outruns, SyncUpsert, TypeOK
<1>7. UNCHANGED <<shopify, limit>>  BY DEF SyncUpsert
<1> HIDE DEF written
<1>8. row' = Archived(written, {})  BY <1>4, <1>5
<1> USE DEF written
<1> QED  BY <1>1, <1>2, <1>6, <1>7, <1>8 DEF Writes

\* Steps that write nothing and archive.
LEMMA NothingWritten ==
  ASSUME TypeOK, NEW n
  PROVE  [v \in Variants |-> IF v \in {} THEN Written(n) ELSE row[v]] = row
<1>1. row = [v \in Variants |-> row[v]]  BY DEF TypeOK
<1> QED  BY <1>1

LEMMA ReconcileWrites ==
  ASSUME TypeOK, NEW s \in Syncs, SyncReconcile(s)
  PROVE  Writes(sync[s].version, {}, Variants \ sync[s].stored)
<1>1. sync[s].version \in 1 .. now  BY DEF TypeOK
<1>2. \A v \in Variants \ sync[s].stored : v \notin catalog[sync[s].version].variants
  BY DEF SyncReconcile, Unstored
<1>3. outrun' \in BOOLEAN  BY DEF SyncReconcile
<1> QED  BY <1>1, <1>2, <1>3, NothingWritten DEF Writes, SyncReconcile

LEMMA DeleteWrites ==
  ASSUME TypeOK, DeleteHook
  PROVE  Writes(1, {}, Variants)
<1>1. 1 \in 1 .. now /\ outrun' \in BOOLEAN  BY DEF TypeOK, DeleteHook
<1> QED  BY <1>1, NothingWritten DEF Writes, DeleteHook

\* The transaction of a webhook writes what it creates and what is older, but
\* for what it missed.
LEMMA ApplyWrites ==
  ASSUME TypeOK, NEW n \in 1 .. now, NEW missed, NEW removed \in SUBSET Variants,
         removed \cap catalog[n].variants = {}, Apply(n, missed, removed),
         UNCHANGED <<shopify, limit>>
  PROVE  \E W \in SUBSET catalog[n].variants :
           /\ Writes(n, W, IF catalog[n].status = "archived" THEN Variants ELSE removed)
           /\ \A v \in Stored \ missed : v \in catalog[n].variants /\ Older(v, n) => v \in W
<1> DEFINE gone == IF catalog[n].status = "archived" THEN Variants ELSE removed
<1>1. PICK created \in Creations(n, missed) :
        row' = Archived(Upserted(n, missed, created), gone)
  BY DEF Apply
<1> DEFINE W == {v \in Variants : \/ v \in created
                                  \/ v \in catalog[n].variants \ missed /\ Older(v, n)}
<1>2. created \subseteq catalog[n].variants \ Stored /\ catalog[n].variants \subseteq Variants
  BY VersionTypes DEF Creations
<1>3. W \in SUBSET catalog[n].variants  BY <1>2
<1>4. \A v \in W : row[v] = NoRow \/ row[v].version < n  BY <1>2 DEF Stored, Older
<1>5. Upserted(n, missed, created) = [v \in Variants |-> IF v \in W THEN Written(n) ELSE row[v]]
  BY DEF Upserted
<1>6. outrun' = (outrun \/ Outruns(n, gone)) /\ outrun' \in BOOLEAN  BY DEF Apply
<1>7. gone \subseteq Variants
  /\ \A v \in gone : v \notin catalog[n].variants \/ catalog[n].status = "archived"
  OBVIOUS
<1>8. \A v \in Stored \ missed : v \in catalog[n].variants /\ Older(v, n) => v \in W
  BY <1>2
<1> HIDE DEF W, gone
<1>9. Writes(n, W, gone)  BY <1>1, <1>3, <1>4, <1>5, <1>6, <1>7 DEF Writes
<1> USE DEF gone
<1> QED  BY <1>3, <1>8, <1>9

LEMMA HookWrites ==
  ASSUME TypeOK, NEW h \in Hooks, HookWrite(h)
  PROVE  LET n == hook[h].version
             removed == Variants \ catalog[n].variants
         IN  \E W \in SUBSET catalog[n].variants :
               /\ Writes(n, W, IF catalog[n].status = "archived" THEN Variants ELSE removed)
               /\ \A v \in Stored \ hook[h].missed :
                    v \in catalog[n].variants /\ Older(v, n) => v \in W
<1>1. hook[h].version \in 1 .. now  BY DEF TypeOK
<1> QED  BY <1>1, ApplyWrites DEF HookWrite

LEMMA CreateWrites ==
  ASSUME TypeOK, CreateHook
  PROVE  \E W, gone : Writes(1, W, gone)
<1>1. 1 \in 1 .. now /\ {} \in SUBSET Variants  BY DEF TypeOK
<1> QED  BY <1>1, ApplyWrites DEF CreateHook

-----------------------------------------------------------------------------
(* The invariant                                                           *)

LEMMA InitInv == Init => CatalogInv
<1> SUFFICES ASSUME Init PROVE CatalogInv
  OBVIOUS
<1>1. PICK c \in Versions : catalog = <<c>>  BY DEF Init
<1>2. now = 1 /\ catalog \in Seq(Versions)  BY <1>1 DEF now
<1>3. Stored = {}  BY DEF Init, Stored
<1>4. TypeOK
  <2>1. now \in 1 .. MaxVersion /\ 1 \in 1 .. now  BY <1>2, CatalogAssumption
  <2>2. row \in [Variants -> [version : 1 .. now, status : Statuses] \cup {NoRow}]
    BY DEF Init
  <2>3. sync \in [Syncs -> [step : {"idle", "store", "complete"}, version : 1 .. now,
                            stored : SUBSET Variants]]
    BY <2>1 DEF Init
  <2>4. hook \in [Hooks -> [step : {"idle", "write", "done"}, version : 1 .. now,
                            missed : SUBSET Variants]]
    BY <2>1 DEF Init
  <2>5. deleted \in BOOLEAN /\ outrun \in BOOLEAN /\ limit \in Limits  BY DEF Init
  <2> QED  BY <1>2, <2>1, <2>2, <2>3, <2>4, <2>5 DEF TypeOK
<1>5. RowsOffered /\ UpToDate /\ ArchivedWasGone
  BY <1>3 DEF RowsOffered, UpToDate, ArchivedWasGone
<1>6. \A s \in Syncs : sync[s].step = "idle"  BY DEF Init
<1> QED  BY <1>4, <1>5, <1>6 DEF CatalogInv, SyncProgress

\* Rows that stay and never go back keep what the syncs have stored.
LEMMA ProgressKept ==
  ASSUME TypeOK, SyncProgress, NEW n, NEW W, NEW gone, Writes(n, W, gone), sync' = sync
  PROVE  SyncProgress'
<1>1. catalog' = catalog  BY DEF Writes, shopify
<1> SUFFICES ASSUME NEW s \in Syncs, sync[s].step # "idle", NEW v \in sync[s].stored
             PROVE  v \in Stored' /\ row'[v].version >= sync[s].version
  BY <1>1 DEF SyncProgress
<1>2. v \in Stored /\ row[v].version >= sync[s].version  BY DEF SyncProgress
<1>3. v \in Stored' /\ row'[v].version >= row[v].version  BY <1>2, RowsGrow
<1>4. /\ sync[s].version \in Nat /\ row[v].version \in Nat /\ row'[v].version \in Nat
  <2>1. row'[v].version \in 1 .. now  BY <1>3, RowAfter DEF Stored
  <2> QED  BY <1>2, <2>1, RowTypes DEF TypeOK
<1> QED  BY <1>2, <1>3, <1>4

\* A new version is behind no row and no sync.
LEMMA EditKeeps ==
  ASSUME CatalogInv, NEW variants \in SUBSET Variants, NEW status \in Statuses,
         Edit(variants, status)
  PROVE  CatalogInv'
<1> DEFINE c == [variants |-> variants, status |-> status]
<1>1. now \in Nat /\ catalog \in Seq(Versions) /\ c \in Versions
  BY DEF CatalogInv, TypeOK, Versions
<1>2. catalog' = Append(catalog, c)  BY DEF Edit
<1>3. now' = now + 1 /\ now' \in 1 .. MaxVersion /\ catalog' \in Seq(Versions)
  BY <1>1, <1>2, CatalogAssumption DEF now, Edit
<1>4. \A n \in 1 .. now : catalog'[n] = catalog[n]  BY <1>1, <1>2 DEF now
<1>5. Stored' = Stored /\ row' = row /\ sync' = sync /\ hook' = hook
  BY DEF Stored, Edit
<1>6. TypeOK'
  <2>1. 1 .. now \subseteq 1 .. now'  BY <1>1, <1>3
  <2>2. row' \in [Variants -> [version : 1 .. now', status : Statuses] \cup {NoRow}]
    BY <1>5, <2>1 DEF CatalogInv, TypeOK
  <2>3. sync' \in [Syncs -> [step : {"idle", "store", "complete"}, version : 1 .. now',
                              stored : SUBSET Variants]]
    BY <1>5, <2>1 DEF CatalogInv, TypeOK
  <2>4. hook' \in [Hooks -> [step : {"idle", "write", "done"}, version : 1 .. now',
                             missed : SUBSET Variants]]
    BY <1>5, <2>1 DEF CatalogInv, TypeOK
  <2>5. deleted' \in BOOLEAN /\ outrun' \in BOOLEAN /\ limit' \in Limits
    BY DEF CatalogInv, TypeOK, Edit
  <2> QED  BY <1>3, <2>2, <2>3, <2>4, <2>5 DEF TypeOK
<1>7. \A v \in Stored : row[v].version \in 1 .. now  BY RowTypes DEF CatalogInv
<1>8. RowsOffered'  BY <1>4, <1>5, <1>7 DEF CatalogInv, RowsOffered
<1>9. UpToDate'
  <2>1. \A v \in Stored : row[v].version # now'  BY <1>1, <1>3, <1>7
  <2> QED  BY <1>5, <2>1 DEF UpToDate
<1>10. SyncProgress'
  <2>1. \A s \in Syncs : sync[s].version \in 1 .. now  BY DEF CatalogInv, TypeOK
  <2> QED  BY <1>4, <1>5, <2>1 DEF CatalogInv, SyncProgress
<1>11. ArchivedWasGone'
  <2> SUFFICES ASSUME NEW v \in Stored, row[v].status = "archived", ~deleted
               PROVE  \E n \in 1 .. now' :
                        v \notin catalog'[n].variants \/ catalog'[n].status = "archived"
    BY <1>5 DEF ArchivedWasGone, Edit
  <2>1. PICK n \in 1 .. now : v \notin catalog[n].variants \/ catalog[n].status = "archived"
    BY DEF CatalogInv, ArchivedWasGone
  <2>2. n \in 1 .. now'  BY <1>1, <1>3
  <2> QED  BY <1>4, <2>1, <2>2
<1> QED  BY <1>6, <1>8, <1>9, <1>10, <1>11 DEF CatalogInv

\* A step that writes rows and leaves the syncs to be looked at.
LEMMA WritesKeep ==
  ASSUME CatalogInv, NEW n, NEW W, NEW gone, Writes(n, W, gone),
         sync' \in [Syncs -> [step : {"idle", "store", "complete"}, version : 1 .. now,
                              stored : SUBSET Variants]],
         hook' \in [Hooks -> [step : {"idle", "write", "done"}, version : 1 .. now,
                              missed : SUBSET Variants]]
  PROVE  TypeOK' /\ RowsOffered' /\ UpToDate' /\ ArchivedWasGone'
<1>1. /\ row' \in [Variants -> [version : 1 .. now, status : Statuses] \cup {NoRow}]
      /\ RowsOffered' /\ UpToDate' /\ ArchivedWasGone'
  BY WritesKeepRows DEF CatalogInv
<1>2. now' = now /\ catalog' = catalog /\ deleted' = deleted /\ limit' = limit
      /\ outrun' \in BOOLEAN
  BY DEF Writes, shopify, now
<1> QED  BY <1>1, <1>2 DEF CatalogInv, TypeOK

LEMMA UpsertKeeps ==
  ASSUME CatalogInv, NEW s \in Syncs, NEW v \in Variants, SyncUpsert(s, v)
  PROVE  CatalogInv'
<1> DEFINE n == sync[s].version
           W == {w \in {v} : v \notin Stored \/ Older(v, n)}
<1>1. TypeOK /\ Writes(n, W, {})  BY UpsertWrites DEF CatalogInv
<1> HIDE DEF W
<1>2. /\ sync' = [sync EXCEPT ![s].stored = @ \cup {v}] /\ hook' = hook
      /\ sync[s].step = "store" /\ v \in catalog[n].variants /\ catalog' = catalog
  BY DEF SyncUpsert, Unstored, shopify
<1>3. /\ sync' \in [Syncs -> [step : {"idle", "store", "complete"}, version : 1 .. now,
                              stored : SUBSET Variants]]
      /\ hook' \in [Hooks -> [step : {"idle", "write", "done"}, version : 1 .. now,
                              missed : SUBSET Variants]]
  BY <1>1, <1>2 DEF TypeOK
<1>4. TypeOK' /\ RowsOffered' /\ UpToDate' /\ ArchivedWasGone'
  BY <1>1, <1>3, WritesKeep
<1>5. v \in Stored' /\ row'[v].version >= n
  <2>1. n \in Nat /\ n \in 1 .. now  BY <1>1 DEF TypeOK
  <2>2. CASE v \in W
    BY <1>1, <2>1, <2>2, RowAfter
  <2>3. CASE v \notin W
    <3>1. v \in Stored /\ ~(row[v].version < n)  BY <2>3 DEF W, Older, Stored
    <3>2. row[v].version \in Nat /\ row'[v].version = row[v].version /\ v \in Stored'
      BY <1>1, <2>3, <3>1, RowTypes, RowAfter
    <3> QED  BY <2>1, <3>1, <3>2
  <2> QED  BY <2>2, <2>3
<1>6. SyncProgress'
  <2> SUFFICES ASSUME NEW t \in Syncs, sync'[t].step # "idle"
               PROVE  /\ sync'[t].stored \subseteq catalog[sync'[t].version].variants
                      /\ \A w \in sync'[t].stored :
                           w \in Stored' /\ row'[w].version >= sync'[t].version
                      /\ sync'[t].step = "complete" =>
                           sync'[t].stored = catalog[sync'[t].version].variants
    BY <1>2 DEF SyncProgress
  <2>1. /\ sync[t].step = sync'[t].step /\ sync[t].version = sync'[t].version
        /\ sync'[t].stored = IF t = s THEN sync[t].stored \cup {v} ELSE sync[t].stored
    BY <1>1, <1>2 DEF TypeOK
  <2>2. \A w \in sync[t].stored : w \in Stored' /\ row'[w].version >= sync[t].version
    <3> SUFFICES ASSUME NEW w \in sync[t].stored
                 PROVE  w \in Stored' /\ row'[w].version >= sync[t].version
      OBVIOUS
    <3>1. w \in Stored /\ row[w].version >= sync[t].version
      BY <2>1 DEF CatalogInv, SyncProgress
    <3>2. w \in Stored' /\ row'[w].version >= row[w].version  BY <1>1, <3>1, RowsGrow
    <3>3. row'[w].version \in Nat /\ row[w].version \in Nat /\ sync[t].version \in Nat
      <4>1. row'[w].version \in 1 .. now  BY <1>1, <3>2, RowAfter DEF Stored
      <4> QED  BY <1>1, <3>1, <4>1, RowTypes DEF TypeOK
    <3> QED  BY <3>1, <3>2, <3>3
  <2>3. sync[t].stored \subseteq catalog[sync[t].version].variants
        /\ (sync[t].step = "complete" => sync[t].stored = catalog[sync[t].version].variants)
    BY <2>1 DEF CatalogInv, SyncProgress
  <2> QED  BY <1>2, <1>5, <2>1, <2>2, <2>3
<1> QED  BY <1>4, <1>6 DEF CatalogInv

LEMMA ReconcileKeeps ==
  ASSUME CatalogInv, NEW s \in Syncs, SyncReconcile(s)
  PROVE  CatalogInv'
<1> DEFINE gone == Variants \ sync[s].stored
<1>1. TypeOK /\ Writes(sync[s].version, {}, gone)  BY ReconcileWrites DEF CatalogInv
<1>2. /\ sync' = [sync EXCEPT ![s].step = "complete"] /\ hook' = hook /\ catalog' = catalog
      /\ sync[s].step = "store"
  BY DEF SyncReconcile, shopify
<1>3. /\ sync' \in [Syncs -> [step : {"idle", "store", "complete"}, version : 1 .. now,
                              stored : SUBSET Variants]]
      /\ hook' \in [Hooks -> [step : {"idle", "write", "done"}, version : 1 .. now,
                              missed : SUBSET Variants]]
  BY <1>1, <1>2 DEF TypeOK
<1>4. TypeOK' /\ RowsOffered' /\ UpToDate' /\ ArchivedWasGone'
  BY <1>1, <1>3, WritesKeep
<1>5. sync[s].stored = catalog[sync[s].version].variants
  BY <1>2 DEF SyncReconcile, Unstored, CatalogInv, SyncProgress
<1>6. SyncProgress'
  <2> SUFFICES ASSUME NEW t \in Syncs, sync'[t].step # "idle"
               PROVE  /\ sync'[t].stored \subseteq catalog[sync'[t].version].variants
                      /\ \A w \in sync'[t].stored :
                           w \in Stored' /\ row'[w].version >= sync'[t].version
                      /\ sync'[t].step = "complete" =>
                           sync'[t].stored = catalog[sync'[t].version].variants
    BY <1>2 DEF SyncProgress
  <2>1. /\ sync[t].step # "idle" /\ sync'[t].version = sync[t].version
        /\ sync'[t].stored = sync[t].stored
        /\ t # s => sync'[t].step = sync[t].step
    BY <1>1, <1>2 DEF TypeOK
  <2>2. \A w \in sync[t].stored : w \in Stored' /\ row'[w].version >= sync[t].version
    <3> SUFFICES ASSUME NEW w \in sync[t].stored
                 PROVE  w \in Stored' /\ row'[w].version >= sync[t].version
      OBVIOUS
    <3>1. w \in Stored /\ row[w].version >= sync[t].version
      BY <2>1 DEF CatalogInv, SyncProgress
    <3>2. row'[w].version = row[w].version /\ w \in Stored'
      BY <1>1, <3>1, RowTypes, RowAfter
    <3> QED  BY <3>1, <3>2
  <2>3. sync[t].stored \subseteq catalog[sync[t].version].variants
        /\ (sync[t].step = "complete" => sync[t].stored = catalog[sync[t].version].variants)
    BY <2>1 DEF CatalogInv, SyncProgress
  <2> QED  BY <1>5, <2>1, <2>2, <2>3
<1> QED  BY <1>4, <1>6 DEF CatalogInv

\* The other steps that write rows leave the syncs alone.
LEMMA OthersKeep ==
  ASSUME CatalogInv, NEW n, NEW W, NEW gone, Writes(n, W, gone), sync' = sync,
         hook' \in [Hooks -> [step : {"idle", "write", "done"}, version : 1 .. now,
                              missed : SUBSET Variants]]
  PROVE  CatalogInv'
<1>1. TypeOK' /\ RowsOffered' /\ UpToDate' /\ ArchivedWasGone'
  BY WritesKeep DEF CatalogInv, TypeOK
<1>2. SyncProgress'  BY ProgressKept DEF CatalogInv
<1> QED  BY <1>1, <1>2 DEF CatalogInv

\* So do the steps that change no row.
Unwritten ==
  /\ UNCHANGED <<catalog, row, outrun>>
  /\ deleted' \in BOOLEAN /\ (deleted => deleted') /\ limit' \in Limits
  /\ sync' \in [Syncs -> [step : {"idle", "store", "complete"}, version : 1 .. now,
                          stored : SUBSET Variants]]
  /\ hook' \in [Hooks -> [step : {"idle", "write", "done"}, version : 1 .. now,
                          missed : SUBSET Variants]]
  /\ \A s \in Syncs : \/ sync'[s].step = "idle"
                      \/ sync'[s] = sync[s]
                      \/ sync'[s].stored = {} /\ sync'[s].step = "store"

LEMMA UnwrittenKeeps ==
  ASSUME CatalogInv, Unwritten
  PROVE  CatalogInv'
<1>1. Stored' = Stored /\ now' = now  BY DEF Unwritten, Stored, now
<1>2. RowsOffered'  BY <1>1 DEF Unwritten, CatalogInv, RowsOffered
<1>3. UpToDate'  BY <1>1 DEF Unwritten, CatalogInv, UpToDate
<1>4. ArchivedWasGone'  BY <1>1 DEF Unwritten, CatalogInv, ArchivedWasGone
<1>5. SyncProgress'  BY <1>1 DEF Unwritten, CatalogInv, SyncProgress
<1>6. TypeOK'  BY <1>1 DEF Unwritten, CatalogInv, TypeOK
<1> QED  BY <1>2, <1>3, <1>4, <1>5, <1>6 DEF CatalogInv

LEMMA StepInv ==
  ASSUME CatalogInv, [Next]_vars
  PROVE  CatalogInv'
<1>1. /\ TypeOK /\ now \in Nat /\ now \in 1 .. now
      /\ deleted \in BOOLEAN /\ limit \in Limits
      /\ sync \in [Syncs -> [step : {"idle", "store", "complete"}, version : 1 .. now,
                             stored : SUBSET Variants]]
      /\ hook \in [Hooks -> [step : {"idle", "write", "done"}, version : 1 .. now,
                             missed : SUBSET Variants]]
  BY DEF CatalogInv, TypeOK
<1>2. ASSUME NEW s \in Syncs, SyncFetch(s) PROVE CatalogInv'
  <2>1. /\ sync' = [sync EXCEPT ![s] = [step |-> "store", version |-> now, stored |-> {}]]
        /\ UNCHANGED <<catalog, deleted, limit, row, hook, outrun>>
    BY <1>2 DEF SyncFetch, shopify
  <2>2. sync' \in [Syncs -> [step : {"idle", "store", "complete"}, version : 1 .. now,
                             stored : SUBSET Variants]]
    BY <1>1, <2>1
  <2>3. \A t \in Syncs :
          sync'[t] = IF t = s THEN [step |-> "store", version |-> now, stored |-> {}] ELSE sync[t]
    BY <1>1, <2>1
  <2>4. \A t \in Syncs : sync'[t] = sync[t] \/ (sync'[t].stored = {} /\ sync'[t].step = "store")
    BY <2>3
  <2> QED  BY <1>1, <2>1, <2>2, <2>4, UnwrittenKeeps DEF Unwritten
<1>3. ASSUME NEW s \in Syncs, SyncFails(s) \/ \E v \in Variants : SyncBlocked(s, v)
      PROVE  CatalogInv'
  <2>1. /\ sync' = [sync EXCEPT ![s].step = "idle"]
        /\ UNCHANGED <<catalog, deleted, limit, row, hook, outrun>>
    BY <1>3 DEF SyncFails, SyncBlocked, shopify
  <2>2. sync' \in [Syncs -> [step : {"idle", "store", "complete"}, version : 1 .. now,
                             stored : SUBSET Variants]]
    BY <1>1, <2>1
  <2>3. \A t \in Syncs : sync'[t].step = "idle" \/ sync'[t] = sync[t]  BY <1>1, <2>1
  <2> QED  BY <1>1, <2>1, <2>2, <2>3, UnwrittenKeeps DEF Unwritten
<1>4. ASSUME NEW h \in Hooks, HookFetch(h) \/ HookFails(h) \/ \E v \in Variants : HookMiss(h, v)
      PROVE  CatalogInv'
  <2>1. UNCHANGED <<catalog, deleted, limit, row, sync, outrun>>
    BY <1>4 DEF HookFetch, HookFails, HookMiss, shopify
  <2>2. hook' \in [Hooks -> [step : {"idle", "write", "done"}, version : 1 .. now,
                             missed : SUBSET Variants]]
    <3>1. \/ hook' = [hook EXCEPT ![h] = [step |-> "write", version |-> now, missed |-> {}]]
          \/ hook' = [hook EXCEPT ![h].step = "idle"]
          \/ \E v \in Variants : hook' = [hook EXCEPT ![h].missed = {v}]
      BY <1>4 DEF HookFetch, HookFails, HookMiss
    <3> QED  BY <1>1, <3>1
  <2> QED  BY <1>1, <2>1, <2>2, UnwrittenKeeps DEF Unwritten
<1>5. ASSUME NEW h \in Hooks, HookWrite(h) PROVE CatalogInv'
  <2>1. PICK n, W, gone : Writes(n, W, gone)  BY <1>1, <1>5, HookWrites
  <2>2. sync' = sync /\ hook' = [hook EXCEPT ![h].step = "done"]  BY <1>5 DEF HookWrite
  <2>3. hook' \in [Hooks -> [step : {"idle", "write", "done"}, version : 1 .. now,
                             missed : SUBSET Variants]]
    BY <1>1, <2>2
  <2> QED  BY <2>1, <2>2, <2>3, OthersKeep
<1>6. ASSUME CreateHook PROVE CatalogInv'
  <2>1. PICK n, W, gone : Writes(n, W, gone)  BY <1>1, <1>6, CreateWrites
  <2>2. sync' = sync /\ hook' = hook  BY <1>6 DEF CreateHook
  <2> QED  BY <1>1, <2>1, <2>2, OthersKeep
<1>7. ASSUME DeleteHook PROVE CatalogInv'
  <2>1. Writes(1, {}, Variants)  BY <1>1, <1>7, DeleteWrites
  <2>2. sync' = sync /\ hook' = hook  BY <1>7 DEF DeleteHook
  <2> QED  BY <1>1, <2>1, <2>2, OthersKeep
<1>8. ASSUME Delete \/ \E l \in Limits : ChangePlan(l) PROVE CatalogInv'
  <2>1. /\ UNCHANGED <<catalog, row, sync, hook, outrun>> /\ (deleted => deleted')
        /\ deleted' \in BOOLEAN /\ limit' \in Limits
    BY <1>1, <1>8 DEF Delete, ChangePlan, shopify
  <2> QED  BY <1>1, <2>1, UnwrittenKeeps DEF Unwritten
<1>9. CASE UNCHANGED vars
  <2>1. UNCHANGED <<catalog, deleted, limit, row, sync, hook, outrun>>  BY <1>9 DEF vars, shopify
  <2> QED  BY <1>1, <2>1, UnwrittenKeeps DEF Unwritten
<1> QED
  BY <1>2, <1>3, <1>4, <1>5, <1>6, <1>7, <1>8, <1>9, UpsertKeeps, ReconcileKeeps, EditKeeps DEF Next

\* The conjunction that the other theorems follow from is inductive.
THEOREM CatalogInvariant == Spec => []CatalogInv
BY InitInv, StepInv, PTL DEF Spec

\* TypeOK: every reachable state is well typed.
THEOREM CatalogTypeCorrect == Spec => []TypeOK
<1>1. CatalogInv => TypeOK  BY DEF CatalogInv
<1> QED  BY <1>1, CatalogInvariant, PTL

\* Neither the plan nor a sync that stopped half way archives a variant that
\* Shopify has always had (SyncBlocked returns before the reconciliation).
THEOREM NothingArchivedInVain == Spec => []ArchivedWasGone
<1>1. CatalogInv => ArchivedWasGone  BY DEF CatalogInv
<1> QED  BY <1>1, CatalogInvariant, PTL

\* A sync that completed has stored all it fetched, although every upsert and
\* the plan check before it are transactions of their own.
THEOREM CompletedSyncs == Spec => []CompleteIsStored
<1>1. CatalogInv => CompleteIsStored
  BY DEF CatalogInv, SyncProgress, CompleteIsStored
<1> QED  BY <1>1, CatalogInvariant, PTL

\* The step of any writer: rows are written by Writes or left alone.
LEMMA StepWrites ==
  ASSUME CatalogInv, [Next]_vars
  PROVE  row' = row \/ \E n, W, gone : Writes(n, W, gone)
<1>1. TypeOK  BY DEF CatalogInv
<1>2. ASSUME NEW s \in Syncs, SyncFetch(s) \/ SyncFails(s) PROVE row' = row
  BY <1>2 DEF SyncFetch, SyncFails
<1>3. ASSUME NEW s \in Syncs, NEW v \in Variants, SyncBlocked(s, v) PROVE row' = row
  BY <1>3 DEF SyncBlocked
<1>4. ASSUME NEW h \in Hooks, HookFetch(h) \/ HookFails(h) \/ \E v \in Variants : HookMiss(h, v)
      PROVE  row' = row
  BY <1>4 DEF HookFetch, HookFails, HookMiss
<1>5. ASSUME NEW variants, NEW status, Edit(variants, status) PROVE row' = row
  BY <1>5 DEF Edit
<1>6. ASSUME Delete \/ \E l \in Limits : ChangePlan(l) PROVE row' = row
  BY <1>6 DEF Delete, ChangePlan
<1>7. CASE UNCHANGED vars
  BY <1>7 DEF vars
<1>8. ASSUME NEW s \in Syncs, NEW v \in Variants, SyncUpsert(s, v)
      PROVE  \E n, W, gone : Writes(n, W, gone)
  BY <1>1, <1>8, UpsertWrites
<1>9. ASSUME NEW s \in Syncs, SyncReconcile(s) PROVE \E n, W, gone : Writes(n, W, gone)
  BY <1>1, <1>9, ReconcileWrites
<1>10. ASSUME NEW h \in Hooks, HookWrite(h) PROVE \E n, W, gone : Writes(n, W, gone)
  BY <1>1, <1>10, HookWrites
<1>11. ASSUME CreateHook \/ DeleteHook PROVE \E n, W, gone : Writes(n, W, gone)
  BY <1>1, <1>11, CreateWrites, DeleteWrites
<1> QED
  BY <1>2, <1>3, <1>4, <1>5, <1>6, <1>7, <1>8, <1>9, <1>10, <1>11 DEF Next

\* VersionsGrow: whichever writers overlap, no row goes back to an older
\* version, and none is taken out of the table.
THEOREM NoRowGoesBack == Spec => VersionsGrow
<1>1. ASSUME CatalogInv, [Next]_vars
      PROVE  \A v \in Stored : row'[v] # NoRow /\ row'[v].version >= row[v].version
  <2>1. TypeOK  BY <1>1 DEF CatalogInv
  <2>2. CASE row' = row
    <3>1. \A v \in Stored : row[v] # NoRow /\ row[v].version \in Nat
      BY <2>1, RowTypes DEF Stored
    <3> QED  BY <2>2, <3>1
  <2>3. CASE \E n, W, gone : Writes(n, W, gone)
    <3>1. \A v \in Stored : v \in Stored' /\ row'[v].version >= row[v].version
      BY <2>1, <2>3, RowsGrow
    <3> QED  BY <3>1 DEF Stored
  <2> QED  BY <1>1, <2>2, <2>3, StepWrites
<1> QED  BY <1>1, CatalogInvariant, PTL DEF Spec, VersionsGrow

\* The last step of a sync or webhook of the current version: but for the rows
\* it overlooks, what it has not written was at that version already, and the
\* other variants are archived.
LEMMA EndAgrees ==
  ASSUME CatalogInv, CatalogInv', ~deleted, ~outrun',
         NEW W, NEW gone, Writes(now, W, gone), NEW overlooked,
         Variants \ catalog[now].variants \subseteq gone,
         \A v \in Stored \ overlooked :
           v \in catalog[now].variants => v \in W \/ row[v].version >= now
  PROVE  \A v \in Stored' \ overlooked : Agrees(v)'
<1>1. /\ TypeOK /\ TypeOK' /\ UpToDate'
      /\ catalog' = catalog /\ now' = now /\ deleted' = deleted /\ now \in Nat /\ now \in 1 .. now
  BY DEF CatalogInv, TypeOK, Writes, shopify, now
<1> SUFFICES ASSUME NEW v \in Stored', v \notin overlooked
             PROVE  IF v \in catalog[now].variants
                    THEN row'[v] = Written(now)
                    ELSE row'[v].status = "archived"
  BY <1>1 DEF Agrees, Written
<1>2. CASE v \notin catalog[now].variants
  BY <1>1, <1>2, RowBefore
<1>3. CASE v \in catalog[now].variants
  <2>1. row'[v].version = now
    <3>1. CASE v \in W
      BY <1>1, <3>1, RowBefore
    <3>2. CASE v \notin W
      <4>1. v \in Stored /\ row'[v].version = row[v].version  BY <1>1, <3>2, RowBefore
      <4>2. row[v].version \in 1 .. now /\ row[v].version >= now
        BY <1>1, <1>3, <3>2, <4>1, RowTypes
      <4> QED  BY <1>1, <4>1, <4>2
    <3> QED  BY <3>1, <3>2
  <2>2. row'[v].status = catalog[now].status  BY <1>1, <2>1 DEF UpToDate
  <2>3. row'[v] \in [version : 1 .. now, status : Statuses]
    BY <1>1, RowBefore, RowAfter
  <2> QED  BY <1>3, <2>1, <2>2, <2>3 DEF Written
<1> QED  BY <1>2, <1>3

\* Only the reconciliation completes a sync, and only the transaction a webhook.
LEMMA WhatEnds ==
  ASSUME TypeOK, [Next]_vars
  PROVE  /\ \A s \in Syncs : SyncEnds(s) => SyncReconcile(s)
         /\ \A h \in Hooks : HookEnds(h) => HookWrite(h)
<1>1. ASSUME NEW s \in Syncs, sync[s].step = "store", sync'[s].step = "complete",
             NEW t \in Syncs, SyncReconcile(t)
      PROVE  t = s
  BY <1>1 DEF SyncReconcile, TypeOK
<1>2. ASSUME NEW s \in Syncs, sync[s].step = "store", sync'[s].step = "complete",
             NEW t \in Syncs, SyncFetch(t) \/ SyncFails(t) \/ \E v \in Variants : SyncUpsert(t, v) \/ SyncBlocked(t, v)
      PROVE  FALSE
  <2>1. CASE SyncFetch(t)  BY <1>2, <2>1 DEF SyncFetch, TypeOK
  <2>2. CASE SyncFails(t)  BY <1>2, <2>2 DEF SyncFails, TypeOK
  <2>3. ASSUME NEW v \in Variants, SyncUpsert(t, v) PROVE FALSE
    BY <1>2, <2>3 DEF SyncUpsert, TypeOK
  <2>4. ASSUME NEW v \in Variants, SyncBlocked(t, v) PROVE FALSE
    BY <1>2, <2>4 DEF SyncBlocked, TypeOK
  <2> QED  BY <1>2, <2>1, <2>2, <2>3, <2>4
<1>3. ASSUME NEW h \in Hooks, hook[h].step = "write", hook'[h].step = "done",
             NEW g \in Hooks, HookWrite(g)
      PROVE  g = h
  BY <1>3 DEF HookWrite, TypeOK
<1>4. ASSUME NEW h \in Hooks, hook[h].step = "write", hook'[h].step = "done",
             NEW g \in Hooks, HookFetch(g) \/ HookFails(g) \/ \E v \in Variants : HookMiss(g, v)
      PROVE  FALSE
  <2>1. CASE HookFetch(g)  BY <1>4, <2>1 DEF HookFetch, TypeOK
  <2>2. CASE HookFails(g)  BY <1>4, <2>2 DEF HookFails, TypeOK
  <2>3. ASSUME NEW v \in Variants, HookMiss(g, v) PROVE FALSE
    BY <1>4, <2>3 DEF HookMiss, TypeOK
  <2> QED  BY <1>4, <2>1, <2>2, <2>3
<1>5. ASSUME NEW s \in Syncs, sync[s].step = "store", sync'[s].step = "complete"
      PROVE  SyncReconcile(s)
  <2>1. sync' # sync  BY <1>5
  <2>2. \E t \in Syncs : \/ SyncFetch(t) \/ SyncReconcile(t) \/ SyncFails(t)
                         \/ \E v \in Variants : SyncUpsert(t, v) \/ SyncBlocked(t, v)
    BY <2>1 DEF Next, vars, HookFetch, HookMiss, HookWrite, HookFails, CreateHook, DeleteHook,
                Edit, Delete, ChangePlan
  <2> QED  BY <1>1, <1>2, <1>5, <2>2
<1>6. ASSUME NEW h \in Hooks, hook[h].step = "write", hook'[h].step = "done"
      PROVE  HookWrite(h)
  <2>1. hook' # hook  BY <1>6
  <2>2. \E g \in Hooks : \/ HookFetch(g) \/ HookWrite(g) \/ HookFails(g)
                         \/ \E v \in Variants : HookMiss(g, v)
    BY <2>1 DEF Next, vars, SyncFetch, SyncUpsert, SyncBlocked, SyncReconcile, SyncFails,
                CreateHook, DeleteHook, Edit, Delete, ChangePlan
  <2> QED  BY <1>3, <1>4, <1>6, <2>2
<1> QED  BY <1>5, <1>6 DEF SyncEnds, HookEnds

\* Converges: whatever went before, the rows agree with Shopify when a sync or
\* products/update of the current version ends, unless a row was outrun; a
\* webhook may overlook the variant whose creation it lost (upsertVariantRow).
THEOREM RowsConverge == Spec => Converges
<1>1. ASSUME CatalogInv, [Next]_vars, ~deleted, ~outrun'
      PROVE  /\ \A s \in Syncs : SyncEnds(s) => \A v \in Stored' : Agrees(v)'
             /\ \A h \in Hooks : HookEnds(h) => \A v \in Stored' \ Overlooked(h) : Agrees(v)'
  <2>1. CatalogInv' /\ TypeOK  BY <1>1, StepInv DEF CatalogInv
  <2>2. ASSUME NEW s \in Syncs, SyncEnds(s)
        PROVE  \A v \in Stored' : Agrees(v)'
    <3>1. SyncReconcile(s) /\ sync[s].version = now
      BY <1>1, <2>1, <2>2, WhatEnds DEF SyncEnds
    <3>2. Writes(now, {}, Variants \ sync[s].stored)  BY <2>1, <3>1, ReconcileWrites
    <3>3. /\ sync[s].stored = catalog[now].variants
          /\ \A v \in sync[s].stored : row[v].version >= now
      BY <1>1, <3>1 DEF CatalogInv, SyncProgress, SyncReconcile, Unstored
    <3>4. \A v \in Stored' \ {} : Agrees(v)'
      BY <1>1, <2>1, <3>2, <3>3, EndAgrees
    <3> QED  BY <3>4
  <2>3. ASSUME NEW h \in Hooks, HookEnds(h)
        PROVE  \A v \in Stored' \ Overlooked(h) : Agrees(v)'
    <3> DEFINE gone == IF catalog[now].status = "archived" THEN Variants
                       ELSE Variants \ catalog[now].variants
               overlooked == Overlooked(h)
    <3>1. HookWrite(h) /\ hook[h].version = now
      BY <1>1, <2>1, <2>3, WhatEnds DEF HookEnds
    <3>2. PICK W \in SUBSET catalog[now].variants :
            /\ Writes(now, W, gone)
            /\ \A v \in Stored \ hook[h].missed :
                 v \in catalog[now].variants /\ Older(v, now) => v \in W
      BY <2>1, <3>1, HookWrites
    <3>3. \A v \in Stored \ overlooked :
            v \in catalog[now].variants => v \in W \/ row[v].version >= now
      <4>1. \A v \in Stored : row[v] # NoRow /\ row[v].version \in Nat /\ now \in Nat
        BY <2>1, RowTypes DEF Stored, TypeOK
      <4> QED  BY <3>1, <3>2, <4>1 DEF Older, Overlooked
    <3>4. Variants \ catalog[now].variants \subseteq gone  OBVIOUS
    <3> HIDE DEF gone, overlooked
    <3>5. \A v \in Stored' \ overlooked : Agrees(v)'
      BY <1>1, <2>1, <3>2, <3>3, <3>4, EndAgrees
    <3> QED  BY <3>5 DEF overlooked
  <2> QED  BY <2>2, <2>3
<1> QED  BY <1>1, CatalogInvariant, PTL DEF Spec, Converges

-----------------------------------------------------------------------------
(* The refinement of Replica                                               *)

version == [v \in Variants |-> IF row[v] = NoRow THEN 0 ELSE row[v].version]
withheld == {v \in Stored : row[v].status = "archived"}

LEMMA VersionType == ASSUME TypeOK PROVE version \in [Variants -> Nat]
<1>1. \A v \in Variants : row[v] # NoRow => row[v].version \in Nat
  BY RowTypes DEF Stored
<1> QED  BY <1>1 DEF version

\* Rows that are written are refreshed, the others keep their version.
LEMMA WritesMap ==
  ASSUME CatalogInv, CatalogInv', NEW n, NEW W, NEW gone, Writes(n, W, gone)
  PROVE  R!Update
<1>1. /\ TypeOK /\ TypeOK' /\ n \in Nat /\ n <= now /\ now \in Nat /\ now' = now /\ n \in 1 .. now
  BY DEF CatalogInv, Writes, shopify, now, TypeOK
<1>2. version' \in [Variants -> Nat]
  <2>1. \A v \in Variants : row'[v] # NoRow => v \in Stored'  BY DEF Stored
  <2>2. \A v \in Variants : row'[v] # NoRow => row'[v].version \in 1 .. now
    BY <1>1, <2>1, RowAfter
  <2> QED  BY <1>1, <2>2 DEF version
<1>3. ASSUME NEW v \in Variants, v \in W
      PROVE  version'[v] > version[v] /\ version'[v] <= now
  <2>1. v \in Stored' /\ row'[v].version = n  BY <1>1, <1>3, RowAfter
  <2>2. version'[v] = n  BY <2>1 DEF version, Stored
  <2>3. version[v] < n  BY <1>1, <1>3 DEF version, Writes
  <2> QED  BY <1>1, <1>2, <2>2, <2>3, VersionType
<1>4. ASSUME NEW v \in Variants, v \notin W
      PROVE  /\ version'[v] = version[v]
             /\ v \in withheld => v \in withheld'
             /\ v \in withheld' => version[v] > 0
  <2>1. CASE v \in Stored
    <3>1. /\ v \in Stored' /\ row'[v].version = row[v].version
          /\ row'[v].status = IF v \in gone THEN "archived" ELSE row[v].status
      BY <1>1, <1>4, <2>1, RowAfter
    <3>2. row[v].version \in 1 .. now  BY <1>1, <2>1, RowTypes
    <3> QED  BY <1>1, <2>1, <3>1, <3>2 DEF version, withheld, Stored
  <2>2. CASE v \notin Stored
    <3>1. v \notin Stored'  BY <1>1, <1>4, <2>2, RowAfter
    <3> QED  BY <2>2, <3>1 DEF version, withheld, Stored
  <2> QED  BY <2>1, <2>2
<1>5. \A v \in Variants : [w \in Variants |-> now][v] = now
  OBVIOUS
<1> QED  BY <1>1, <1>2, <1>3, <1>4, <1>5 DEF R!Update, R!Refreshed, R!Kept, version, withheld

\* A step that changes no row publishes a version, or nothing.
LEMMA PublishMaps ==
  ASSUME CatalogInv, CatalogInv', [Next]_vars, row' = row
  PROVE  R!Publish
<1>1. now \in Nat /\ now' \in Nat /\ now' >= now
  <2>1. now \in Nat /\ catalog \in Seq(Versions)  BY DEF CatalogInv, TypeOK
  <2>2. ASSUME NEW c, catalog' = Append(catalog, c), c \in Versions PROVE now' = now + 1
    BY <2>1, <2>2 DEF now
  <2>3. catalog' = catalog \/ \E c \in Versions : catalog' = Append(catalog, c)
    BY DEF Next, vars, shopify, SyncFetch, SyncUpsert, SyncBlocked, SyncReconcile, SyncFails,
           HookFetch, HookMiss, HookWrite, HookFails, CreateHook, DeleteHook, Edit,
           Delete, ChangePlan, Versions
  <2>4. CASE catalog' = catalog  BY <2>1, <2>4 DEF now
  <2> QED  BY <2>1, <2>2, <2>3, <2>4
<1>2. version' = version /\ withheld' = withheld
  BY DEF version, withheld, Stored
<1> QED  BY <1>1, <1>2 DEF R!Publish, version, withheld

\* The rows implement a replica of the product: uncoordinated syncs, late
\* payloads and reconciliation never take back what is newer, or show again
\* what was archived at that version (upsertVariantRow).
THEOREM CatalogImplementsReplica == Spec => ReplicaSpec
<1>1. Init => R!Init
  <2> SUFFICES ASSUME Init PROVE R!Init
    OBVIOUS
  <2>1. now \in Nat  BY InitInv DEF CatalogInv, TypeOK
  <2>2. Stored = {} /\ \A v \in Variants : row[v] = NoRow  BY DEF Init, Stored
  <2> QED  BY <2>1, <2>2 DEF R!Init
<1>2. CatalogInv /\ CatalogInv' /\ [Next]_vars
        => [R!Next]_<<[v \in Variants |-> now],
                      [v \in Variants |-> IF row[v] = NoRow THEN 0 ELSE row[v].version],
                      {v \in Stored : row[v].status = "archived"}>>
  BY StepWrites, WritesMap, PublishMaps DEF R!Next
<1> QED  BY <1>1, <1>2, CatalogInvariant, PTL DEF Spec, ReplicaSpec, R!Spec
=============================================================================
