-------------------------- MODULE OnboardingProofs --------------------------
(***************************************************************************)
(* Safety of the onboarding for any workers, requests, events and bounds:  *)
(* its state is well typed, a phase is linked to a job that has ended only *)
(* by an advance that was overtaken, and only after the earlier phases.    *)
(* Where no job is lost and no resume begins beside another request, it    *)
(* has one live job at a time and implements the pipeline of its phases.   *)
(***************************************************************************)
EXTENDS Onboarding, TLAPS

-----------------------------------------------------------------------------
(* Transactions                                                            *)

Txns == [seen : Rows, row : Rows, job : [Jobs -> JobStatus],
         drawn : 1 .. MaxRuns, ok : BOOLEAN]

\* A run that has not been drawn has no job.
Undrawn(jobs, n) == \A j \in Jobs : j[2] > n => jobs[j] = "none"

GoodTxn(t) ==
  /\ t \in Txns
  /\ t.seen.run <= t.drawn
  /\ t.row.run <= t.drawn
  /\ Undrawn(t.job, t.drawn)

\* What a change of the row, from r to s, may do to the links.
Keeps(r, s) == \A q \in Phases : s.link[q] \in {r.link[q], NoJob}
Links(r, s, jobs) ==
  \A q \in Phases :
    s.link[q] \notin {r.link[q], NoJob} =>
      /\ jobs[s.link[q]] \in Live
      /\ \A p \in Phases : p < q => s.phase[p] \in Done

\* What a transaction does to jobs that exist: nothing.
Adds(jobs, after) == \A k \in Jobs : jobs[k] # "none" => after[k] = jobs[k]

\* What is done stays done.
Stays(r, s) == \A q \in Phases : r.phase[q] \in Done => s.phase[q] \in Done

\* Repairing a phase keeps a transaction good and writes no new link.
LEMMA RepairGood ==
  ASSUME OnboardingAssumption, NEW t, GoodTxn(t), NEW p \in Phases, t.drawn < MaxRuns
  PROVE  /\ GoodTxn(Repair(t, p))
         /\ Repair(t, p).drawn \in {t.drawn, t.drawn + 1}
         /\ Repair(t, p).job = t.job
         /\ Keeps(t.row, Repair(t, p).row)
<1>. DEFINE j == t.seen.link[p]
<1>0. /\ t \in Txns /\ t.seen \in Rows /\ t.row \in Rows /\ t.drawn \in 1 .. MaxRuns
      /\ MaxRuns \in Nat /\ t.drawn + 1 \in 1 .. MaxRuns
  BY DEF GoodTxn, Txns, OnboardingAssumption
<1>1. CASE t.seen.phase[p] \notin Open \/ j = NoJob
  <2>1. Repair(t, p) = t
    BY <1>1 DEF Repair
  <2>. QED
    BY <2>1, <1>0 DEF Keeps
<1>2. ASSUME t.seen.phase[p] \in Open, j # NoJob PROVE
        \/ Repair(t, p) = t
        \/ Repair(t, p) = Update(t, MarkCompleted(t.row, p))
        \/ Repair(t, p) = Update(t, MarkFailed(t.row, p))
        \/ Repair(t, p) =
             [Update(t, Relaunch(t.row, p, t.drawn + 1)) EXCEPT !.drawn = @ + 1]
  BY <1>2 DEF Repair
<1>3. ASSUME NEW r \in Rows, r.run <= t.drawn, Keeps(t.row, r)
      PROVE  /\ GoodTxn(Update(t, r))
             /\ Update(t, r).drawn = t.drawn
             /\ Update(t, r).job = t.job
             /\ Update(t, r).row = r
  BY <1>0, <1>3 DEF Update, GoodTxn, Txns
<1>4. /\ MarkCompleted(t.row, p) \in Rows
      /\ MarkCompleted(t.row, p).run = t.row.run
      /\ Keeps(t.row, MarkCompleted(t.row, p))
  BY <1>0 DEF MarkCompleted, Rows, Keeps, PhaseStatus, Done, Open
<1>5. /\ MarkFailed(t.row, p) \in Rows
      /\ MarkFailed(t.row, p).run = t.row.run
      /\ Keeps(t.row, MarkFailed(t.row, p))
  BY <1>0 DEF MarkFailed, Rows, Keeps, PhaseStatus
<1>6. /\ Relaunch(t.row, p, t.drawn + 1) \in Rows
      /\ Relaunch(t.row, p, t.drawn + 1).run = t.drawn + 1
      /\ Keeps(t.row, Relaunch(t.row, p, t.drawn + 1))
  BY <1>0 DEF Relaunch, Rows, Keeps, PhaseStatus
<1>7. ASSUME Repair(t, p) =
        [Update(t, Relaunch(t.row, p, t.drawn + 1)) EXCEPT !.drawn = @ + 1]
      PROVE  /\ GoodTxn(Repair(t, p))
             /\ Repair(t, p).drawn = t.drawn + 1
             /\ Repair(t, p).job = t.job
             /\ Repair(t, p).row = Relaunch(t.row, p, t.drawn + 1)
  <2>. DEFINE r == Relaunch(t.row, p, t.drawn + 1)
              v == Update(t, r)
  <2>1. v \in Txns /\ v.drawn = t.drawn /\ v.job = t.job /\ v.row = r /\ v.seen = r
    BY <1>0, <1>6 DEF Update, Txns
  <2>. HIDE DEF v
  <2>2. Repair(t, p) = [v EXCEPT !.drawn = t.drawn + 1]
    BY <1>7, <2>1 DEF v
  <2>. HIDE DEF r
  <2>3. /\ Repair(t, p) \in Txns /\ Repair(t, p).drawn = t.drawn + 1
        /\ Repair(t, p).job = t.job /\ Repair(t, p).row = r /\ Repair(t, p).seen = r
    BY <2>1, <2>2, <1>0 DEF Txns
  <2>4. Undrawn(t.job, t.drawn + 1)
    BY <1>0 DEF GoodTxn, Undrawn, Jobs
  <2>5. r.run = t.drawn + 1
    BY <1>6 DEF r
  <2>. QED
    BY <2>3, <2>4, <2>5, <1>0 DEF GoodTxn, r
<1>. QED
  BY <1>0, <1>1, <1>2, <1>3, <1>4, <1>5, <1>6, <1>7 DEF GoodTxn, Keeps

\* enqueueAndLinkPhaseJob keeps a transaction good; the link it may write is
\* to a live job, behind phases that are done.
LEMMA EnqueueGood ==
  ASSUME OnboardingAssumption, NEW t, GoodTxn(t), NEW p \in Phases, t.drawn < MaxRuns
  PROVE  /\ GoodTxn(EnqueueAndLink(t, p))
         /\ EnqueueAndLink(t, p).drawn >= t.drawn
         /\ Links(t.row, EnqueueAndLink(t, p).row, EnqueueAndLink(t, p).job)
         /\ Adds(t.job, EnqueueAndLink(t, p).job)
         /\ Stays(t.row, EnqueueAndLink(t, p).row)
<1>. DEFINE run == RunFor(t, p)
            j == <<p, run>>
            e == Enqueued(t, p)
            u == EnqueueAndLink(t, p)
<1>0. /\ t \in Txns /\ t.seen \in Rows /\ t.row \in Rows /\ t.drawn \in 1 .. MaxRuns
      /\ MaxRuns \in Nat /\ t.job \in [Jobs -> JobStatus] /\ t.ok \in BOOLEAN
      /\ t.seen.run \in 1 .. MaxRuns /\ t.row.run \in 1 .. MaxRuns
  BY DEF GoodTxn, Txns, OnboardingAssumption, Rows
<1>1. /\ run \in 1 .. MaxRuns
      /\ Ended(t, p) => run = t.drawn + 1
      /\ ~Ended(t, p) => run <= t.drawn
  BY <1>0 DEF RunFor, GoodTxn
<1>2. j \in Jobs /\ j[2] = run
  BY <1>1 DEF Jobs
<1>3. t.job[j] \notin Terminal
  <2>1. CASE Ended(t, p)
    BY <2>1, <1>0, <1>1, <1>2 DEF GoodTxn, Undrawn, Terminal
  <2>2. CASE ~Ended(t, p)
    BY <2>2 DEF RunFor, Ended
  <2>. QED
    BY <2>1, <2>2
<1>4. /\ e.job = [t.job EXCEPT ![j] = IF @ = "none" THEN "queued" ELSE @]
      /\ e.drawn = IF Ended(t, p) THEN run ELSE t.drawn
      /\ e.row = IF Ended(t, p) THEN [t.row EXCEPT !.run = run] ELSE t.row
      /\ e.seen = t.seen /\ e.ok = t.ok
      /\ e = [seen |-> e.seen, row |-> e.row, job |-> e.job, drawn |-> e.drawn,
              ok |-> e.ok]
  <2>. DEFINE newRow == IF Ended(t, p) THEN [t.row EXCEPT !.run = run] ELSE t.row
              newDrawn == IF Ended(t, p) THEN run ELSE t.drawn
              newJob == [t.job EXCEPT ![j] = IF @ = "none" THEN "queued" ELSE @]
  <2>1. e = [[[t EXCEPT !.row = newRow] EXCEPT !.drawn = newDrawn] EXCEPT !.job = newJob]
    BY <1>0 DEF Enqueued, Txns
  <2>. HIDE DEF e, newRow, newDrawn, newJob
  <2>2. /\ e.job = newJob /\ e.drawn = newDrawn /\ e.row = newRow
        /\ e.seen = t.seen /\ e.ok = t.ok
        /\ e = [seen |-> e.seen, row |-> e.row, job |-> e.job, drawn |-> e.drawn,
                ok |-> e.ok]
    BY <2>1, <1>0 DEF Txns
  <2>. QED
    BY <2>2 DEF newRow, newDrawn, newJob
<1>. HIDE DEF e
<1>5. e.drawn \in 1 .. MaxRuns /\ e.drawn >= t.drawn /\ run <= e.drawn
  BY <1>0, <1>1, <1>4
<1>6. /\ e.job \in [Jobs -> JobStatus]
      /\ e.job[j] \in Live
      /\ \A k \in Jobs \ {j} : e.job[k] = t.job[k]
      /\ Adds(t.job, e.job)
  <2>1. e.job[j] = IF t.job[j] = "none" THEN "queued" ELSE t.job[j]
    BY <1>0, <1>2, <1>4
  <2>2. t.job[j] \in JobStatus
    BY <1>0, <1>2
  <2>3. e.job[j] \in Live
    BY <2>1, <2>2, <1>3 DEF JobStatus, Live, Waiting, Terminal
  <2>4. \A k \in Jobs \ {j} : e.job[k] = t.job[k]
    BY <1>0, <1>2, <1>4
  <2>5. e.job \in [Jobs -> JobStatus]
    BY <2>1, <2>2, <1>0, <1>4 DEF JobStatus, Waiting
  <2>. QED
    BY <2>1, <2>3, <2>4, <2>5 DEF Live, Waiting, Adds
<1>7. Undrawn(e.job, e.drawn)
  <2>. SUFFICES ASSUME NEW k \in Jobs, k[2] > e.drawn PROVE e.job[k] = "none"
    BY DEF Undrawn
  <2>1. k # j
    BY <1>0, <1>1, <1>2, <1>5 DEF Jobs
  <2>2. k[2] > t.drawn
    BY <1>0, <1>5 DEF Jobs
  <2>. QED
    BY <2>1, <2>2, <1>6 DEF GoodTxn, Undrawn
<1>8. /\ e.row \in Rows /\ e.row.run <= e.drawn
      /\ e.row.link = t.row.link /\ e.row.phase = t.row.phase
  <2>1. [t.row EXCEPT !.run = run] \in Rows
    BY <1>0, <1>1 DEF Rows
  <2>2. [t.row EXCEPT !.run = run].run = run
    BY <1>0 DEF Rows
  <2>3. /\ [t.row EXCEPT !.run = run].link = t.row.link
        /\ [t.row EXCEPT !.run = run].phase = t.row.phase
    BY <1>0 DEF Rows
  <2>. QED
    BY <2>1, <2>2, <2>3, <1>0, <1>1, <1>4 DEF GoodTxn
<1>. HIDE DEF run, j
<1>9. CASE MayLink(t.row, p)
  <2>. DEFINE l == Link(e.row, p, j)
  <2>1. u = [e EXCEPT !.row = l]
    BY <1>9 DEF EnqueueAndLink, run, j, e
  <2>2. l \in Rows /\ l.run = e.row.run
    BY <1>8, <1>2 DEF Link, Rows, PhaseStatus, Open
  <2>3. /\ \A q \in Phases : l.link[q] = IF q = p THEN j ELSE t.row.link[q]
        /\ \A q \in Phases : q # p => l.phase[q] = t.row.phase[q]
    BY <1>8, <1>2 DEF Link, Rows
  <2>. HIDE DEF l
  <2>4. \A q \in Phases : q < p => l.phase[q] \in Done
    <3>1. \A q \in Phases : q < p => q # p
      BY DEF Phases
    <3>. QED
      BY <1>9, <2>3, <3>1 DEF MayLink
  <2>5. u.row = l /\ u.job = e.job /\ u.drawn = e.drawn /\ u.seen = t.seen /\ u \in Txns
    BY <2>1, <2>2, <1>0, <1>4, <1>5, <1>6 DEF Txns
  <2>6. Links(t.row, u.row, u.job) /\ Stays(t.row, u.row)
    BY <2>3, <2>4, <2>5, <1>6, <1>9 DEF Links, Stays, MayLink, Done
  <2>7. GoodTxn(u)
    <3>1. u.seen.run <= u.drawn
      BY <2>5, <1>0, <1>5 DEF GoodTxn
    <3>. QED
      BY <3>1, <2>2, <2>5, <1>7, <1>8 DEF GoodTxn
  <2>. QED
    BY <2>5, <2>6, <2>7, <1>5, <1>6
<1>10. CASE ~MayLink(t.row, p)
  <2>. DEFINE b == (t.row.link[p] = j \/ t.row.current = j)
  <2>1. u = [e EXCEPT !.ok = b]
    BY <1>10 DEF EnqueueAndLink, run, j, e
  <2>. b \in BOOLEAN
    OBVIOUS
  <2>. HIDE DEF b
  <2>2. u.row = e.row /\ u.job = e.job /\ u.drawn = e.drawn /\ u.seen = t.seen
        /\ u \in Txns
    BY <2>1, <1>0, <1>4, <1>5, <1>6, <1>8 DEF Txns
  <2>3. Links(t.row, u.row, u.job) /\ Stays(t.row, u.row)
    BY <2>2, <1>8 DEF Links, Stays
  <2>4. GoodTxn(u)
    <3>1. u.seen.run <= u.drawn
      BY <2>2, <1>0, <1>5 DEF GoodTxn
    <3>. QED
      BY <3>1, <2>2, <1>7, <1>8 DEF GoodTxn
  <2>. QED
    BY <2>2, <2>3, <2>4, <1>5, <1>6
<1>. QED
  BY <1>9, <1>10

\* Among some phases one is the first: what findFailedPhase and
\* selectPhaseToEnqueue rely on.
LEMMA FirstPhase ==
  ASSUME NEW S \in SUBSET Phases, S # {}
  PROVE  \E p \in S : \A q \in S : p <= q
<1>1. \A q \in S : q = 1 \/ q = 2 \/ q = 3
  BY DEF Phases
<1>2. CASE 1 \in S
  BY <1>1, <1>2
<1>3. CASE 1 \notin S /\ 2 \in S
  BY <1>1, <1>3
<1>4. CASE 1 \notin S /\ 2 \notin S
  <2>1. \A q \in S : q = 3
    BY <1>1, <1>4
  <2>2. 3 \in S
    BY <2>1
  <2>. QED
    BY <2>1, <2>2
<1>. QED
  BY <1>2, <1>3, <1>4

LEMMA NextIsPhase ==
  ASSUME NEW r, Enqueues(r)
  PROVE  NextPhase(r) \in Phases /\ Ready(r, NextPhase(r))
<1>. DEFINE S == {p \in Phases : Ready(r, p)}
<1>1. S \in SUBSET Phases /\ S # {}
  BY DEF Enqueues
<1>. HIDE DEF S
<1>2. \E p \in S : \A q \in S : p <= q
  BY <1>1, FirstPhase
<1>3. \E p \in Phases : Ready(r, p) /\ \A q \in Phases : Ready(r, q) => p <= q
  BY <1>2 DEF S
<1>. QED
  BY <1>3 DEF NextPhase

\* executeAdvanceOnboarding, from any row it may have read, keeps a transaction
\* good; the one link it may write is to a live job behind phases that are done.
LEMMA AdvanceGood ==
  ASSUME OnboardingAssumption, NEW t, GoodTxn(t), t.drawn + 4 <= MaxRuns
  PROVE  /\ GoodTxn(Advance(t))
         /\ Advance(t).drawn >= t.drawn
         /\ Links(t.row, Advance(t).row, Advance(t).job)
         /\ Adds(t.job, Advance(t).job)
<1>. DEFINE t1 == Repair(t, 1)
            t2 == Repair(t1, 2)
            t3 == Repair(t2, 3)
            r == t3.seen
            done == [t3.row EXCEPT !.status = "completed", !.current = NoJob]
            next == NextPhase(r)
<1>0. t.drawn \in Nat /\ MaxRuns \in Nat /\ 1 \in Phases /\ 2 \in Phases /\ 3 \in Phases
  BY DEF GoodTxn, Txns, OnboardingAssumption, Phases
<1>1. GoodTxn(t1) /\ t1.drawn \in {t.drawn, t.drawn + 1} /\ t1.job = t.job /\ Keeps(t.row, t1.row)
  BY <1>0, RepairGood
<1>. HIDE DEF t1
<1>2. GoodTxn(t2) /\ t2.drawn \in {t1.drawn, t1.drawn + 1} /\ t2.job = t1.job /\ Keeps(t1.row, t2.row)
  BY <1>0, <1>1, RepairGood
<1>. HIDE DEF t2
<1>3. GoodTxn(t3) /\ t3.drawn \in {t2.drawn, t2.drawn + 1} /\ t3.job = t2.job /\ Keeps(t2.row, t3.row)
  BY <1>0, <1>1, <1>2, RepairGood
<1>. HIDE DEF t3
<1>4. /\ t3.job = t.job /\ t3.drawn >= t.drawn /\ t3.drawn < MaxRuns
      /\ Keeps(t.row, t3.row)
  BY <1>0, <1>1, <1>2, <1>3 DEF Keeps
<1>5. \/ Advance(t) = t3
      \/ Advance(t) = Update(t3, done)
      \/ Enqueues(r) /\ Advance(t) = EnqueueAndLink(t3, next)
  BY DEF Advance, Repaired, t1, t2, t3
<1>6. CASE Advance(t) = t3
  BY <1>3, <1>4, <1>6 DEF Links, Keeps, Adds
<1>7. CASE Advance(t) = Update(t3, done)
  <2>1. t3 \in Txns /\ t3.row \in Rows
    BY <1>3 DEF GoodTxn, Txns
  <2>2. done \in Rows /\ done.run = t3.row.run /\ done.link = t3.row.link
    BY <2>1 DEF Rows
  <2>. HIDE DEF done
  <2>3. /\ Advance(t) \in Txns /\ Advance(t).row = done /\ Advance(t).seen = done
        /\ Advance(t).job = t3.job /\ Advance(t).drawn = t3.drawn
    BY <1>7, <2>1, <2>2 DEF Update, Txns
  <2>. QED
    BY <2>2, <2>3, <1>3, <1>4 DEF GoodTxn, Links, Keeps, Adds
<1>8. CASE Enqueues(r) /\ Advance(t) = EnqueueAndLink(t3, next)
  <2>2. next \in Phases
    BY <1>8, NextIsPhase
  <2>. HIDE DEF next
  <2>3. /\ GoodTxn(Advance(t)) /\ Advance(t).drawn >= t3.drawn
        /\ Links(t3.row, Advance(t).row, Advance(t).job)
        /\ Adds(t3.job, Advance(t).job)
    BY <1>3, <1>4, <1>8, <2>2, EnqueueGood
  <2>4. Advance(t).drawn \in Nat /\ t3.drawn \in Nat
    BY <2>3, <1>3 DEF GoodTxn, Txns
  <2>. QED
    BY <2>3, <2>4, <1>0, <1>4 DEF Links, Keeps
<1>. QED
  BY <1>5, <1>6, <1>7, <1>8

\* A phase that an advance reads as done stays done.
LEMMA AdvanceStays ==
  ASSUME OnboardingAssumption, NEW t, GoodTxn(t), t.drawn + 4 <= MaxRuns,
         NEW p \in Phases, t.seen.phase[p] \in Done, t.row.phase[p] \in Done
  PROVE  Advance(t).row.phase[p] \in Done
<1>. DEFINE Kept(x) == x.seen.phase[p] \in Done /\ x.row.phase[p] \in Done
<1>1. ASSUME NEW x, GoodTxn(x), Kept(x), NEW q \in Phases, x.drawn < MaxRuns
      PROVE  Kept(Repair(x, q))
  <2>1. x \in Txns /\ x.row \in Rows /\ Done \cap Open = {}
    BY <1>1 DEF GoodTxn, Txns, Done, Open
  <2>2. CASE Repair(x, q) = x
    BY <2>2, <1>1
  <2>3. CASE Repair(x, q) # x
    <3>1. q # p
      BY <2>1, <2>3, <1>1 DEF Repair
    <3>2. /\ MarkCompleted(x.row, q).phase[p] \in Done
          /\ MarkFailed(x.row, q).phase[p] \in Done
          /\ Relaunch(x.row, q, x.drawn + 1).phase[p] \in Done
      BY <2>1, <3>1, <1>1 DEF MarkCompleted, MarkFailed, Relaunch, Rows
    <3>3. \/ Repair(x, q) = Update(x, MarkCompleted(x.row, q))
          \/ Repair(x, q) = Update(x, MarkFailed(x.row, q))
          \/ Repair(x, q) =
               [Update(x, Relaunch(x.row, q, x.drawn + 1)) EXCEPT !.drawn = @ + 1]
      BY <2>3 DEF Repair
    <3>4. \A r : Update(x, r).row = r /\ Update(x, r).seen = r
      BY <2>1 DEF Update, Txns
    <3>5. \A r, n : /\ [Update(x, r) EXCEPT !.drawn = n].row = r
                    /\ [Update(x, r) EXCEPT !.drawn = n].seen = r
      BY <2>1 DEF Update, Txns
    <3>6. CASE Repair(x, q) = Update(x, MarkCompleted(x.row, q))
      BY <3>2, <3>4, <3>6
    <3>7. CASE Repair(x, q) = Update(x, MarkFailed(x.row, q))
      BY <3>2, <3>4, <3>7
    <3>8. CASE Repair(x, q) =
               [Update(x, Relaunch(x.row, q, x.drawn + 1)) EXCEPT !.drawn = @ + 1]
      <4>. DEFINE v == Update(x, Relaunch(x.row, q, x.drawn + 1))
      <4>1. Repair(x, q) = [v EXCEPT !.drawn = v.drawn + 1]
        BY <3>8
      <4>. QED
        BY <4>1, <3>2, <3>5
    <3>. QED
      BY <3>3, <3>6, <3>7, <3>8
  <2>. QED
    BY <2>2, <2>3
<1>. DEFINE t1 == Repair(t, 1)
            t2 == Repair(t1, 2)
            t3 == Repair(t2, 3)
            r == t3.seen
            done == [t3.row EXCEPT !.status = "completed", !.current = NoJob]
            next == NextPhase(r)
<1>2. t.drawn \in Nat /\ MaxRuns \in Nat /\ 1 \in Phases /\ 2 \in Phases /\ 3 \in Phases
  BY DEF GoodTxn, Txns, OnboardingAssumption, Phases
<1>3. GoodTxn(t1) /\ t1.drawn \in {t.drawn, t.drawn + 1} /\ Kept(t1)
  BY <1>1, <1>2, RepairGood
<1>. HIDE DEF t1
<1>4. GoodTxn(t2) /\ t2.drawn \in {t1.drawn, t1.drawn + 1} /\ Kept(t2)
  BY <1>1, <1>2, <1>3, RepairGood
<1>. HIDE DEF t2
<1>5. GoodTxn(t3) /\ t3.drawn \in {t2.drawn, t2.drawn + 1} /\ Kept(t3)
  BY <1>1, <1>2, <1>3, <1>4, RepairGood
<1>. HIDE DEF t3
<1>6. \/ Advance(t) = t3
      \/ Advance(t) = Update(t3, done)
      \/ Enqueues(r) /\ Advance(t) = EnqueueAndLink(t3, next)
  BY DEF Advance, Repaired, t1, t2, t3
<1>7. CASE Advance(t) = Update(t3, done)
  <2>1. t3 \in Txns /\ t3.row \in Rows
    BY <1>5 DEF GoodTxn, Txns
  <2>2. done.phase = t3.row.phase
    BY <2>1 DEF Rows
  <2>. HIDE DEF done
  <2>3. Advance(t).row = done
    BY <1>7, <2>1 DEF Update, Txns
  <2>. QED
    BY <2>2, <2>3, <1>5
<1>8. CASE Enqueues(r) /\ Advance(t) = EnqueueAndLink(t3, next)
  <2>1. next \in Phases /\ t3.drawn < MaxRuns
    BY <1>2, <1>3, <1>4, <1>5, <1>8, NextIsPhase
  <2>. HIDE DEF next
  <2>2. Stays(t3.row, Advance(t).row)
    BY <1>5, <1>8, <2>1, EnqueueGood
  <2>. QED
    BY <2>2, <1>5 DEF Stays
<1>. QED
  BY <1>5, <1>6, <1>7, <1>8

-----------------------------------------------------------------------------
(* The invariant                                                           *)

\* What a step of the code can rely on when it starts: a row it has read, a
\* job it has claimed.
Shape ==
  /\ \A a \in Actors :
       /\ pc[a] \in {"advancing", "looking", "linking", "starting", "repairing",
                     "reconciling", "resuming"} => seen[a] # NoRow
       /\ pc[a] \in {"looking", "linking"} => Enqueues(seen[a])
  /\ \A w \in Workers :
       /\ pc[w] \in {"claimed", "starting", "working", "completing", "blocking",
                     "failing", "failed"} => held[w] # NoJob
       /\ pc[w] = "reconciling" => seen[w].current # NoJob
       /\ held[w] # NoJob => job[held[w]] # "none"
  /\ \A S \in cancelling : \A j \in S : job[j] # "none"

\* Every run id in use has been drawn.
Runs ==
  /\ row.run <= drawn
  /\ \A a \in Actors : seen[a] # NoRow => seen[a].run <= drawn
  /\ Undrawn(job, drawn)

\* The job an advance found still waits or runs, unless its phase is past it or
\* the advance has been overtaken.
Founds ==
  \A a \in Actors :
    pc[a] = "linking" => \A j \in found[a] :
      /\ j = <<NextPhase(seen[a]), seen[a].run>>
      /\ \/ a \in overtaken
         \/ job[j] \in Live
         \/ row.phase[PhaseOf(j)] # "not_started"

Well == TypeOK /\ Shape /\ Runs
IInv == Well /\ Founds

\* The updates of the row that link nothing.
LEMMA RowUpdates ==
  ASSUME NEW r \in Rows, NEW p \in Phases
  PROVE  /\ /\ MarkCompleted(r, p) \in Rows /\ MarkCompleted(r, p).run = r.run
            /\ Keeps(r, MarkCompleted(r, p))
         /\ /\ MarkBlocked(r, p) \in Rows /\ MarkBlocked(r, p).run = r.run
            /\ Keeps(r, MarkBlocked(r, p))
         /\ /\ MarkFailed(r, p) \in Rows /\ MarkFailed(r, p).run = r.run
            /\ Keeps(r, MarkFailed(r, p))
         /\ \A n \in 1 .. MaxRuns :
              /\ Relaunch(r, p, n) \in Rows /\ Relaunch(r, p, n).run = n
              /\ Keeps(r, Relaunch(r, p, n))
         /\ Fresh(r) \in Rows /\ Fresh(r).run = r.run /\ Keeps(r, Fresh(r))
<1>1. /\ MarkCompleted(r, p) \in Rows /\ MarkCompleted(r, p).run = r.run
      /\ Keeps(r, MarkCompleted(r, p))
  BY DEF MarkCompleted, Rows, Keeps, PhaseStatus, Done
<1>2. /\ MarkBlocked(r, p) \in Rows /\ MarkBlocked(r, p).run = r.run
      /\ Keeps(r, MarkBlocked(r, p))
  BY DEF MarkBlocked, Rows, Keeps, PhaseStatus, Done
<1>3. /\ MarkFailed(r, p) \in Rows /\ MarkFailed(r, p).run = r.run
      /\ Keeps(r, MarkFailed(r, p))
  BY DEF MarkFailed, Rows, Keeps, PhaseStatus
<1>4. ASSUME NEW n \in 1 .. MaxRuns
      PROVE  /\ Relaunch(r, p, n) \in Rows /\ Relaunch(r, p, n).run = n
             /\ Keeps(r, Relaunch(r, p, n))
  BY DEF Relaunch, Rows, Keeps, PhaseStatus
<1>5. Fresh(r) \in Rows /\ Fresh(r).run = r.run /\ Keeps(r, Fresh(r))
  BY DEF Fresh, Rows, Keeps, PhaseStatus
<1>. QED
  BY <1>1, <1>2, <1>3, <1>4, <1>5

\* The first state satisfies the invariant.
LEMMA StartsWell == OnboardingAssumption /\ Init => IInv
<1>. SUFFICES ASSUME OnboardingAssumption, Init PROVE IInv
  OBVIOUS
<1>1. row \in Rows /\ row.run = 1
  BY DEF Init, Rows, PhaseStatus, OnboardingAssumption
<1>2. TypeOK
  BY <1>1 DEF Init, TypeOK, OnboardingAssumption, JobStatus, Control, Actors
<1>3. Shape /\ Runs
  BY <1>1 DEF Init, Shape, Runs, Undrawn, Actors
<1>4. Founds
  BY DEF Init, Founds, Actors
<1>. QED
  BY <1>2, <1>3, <1>4 DEF IInv, Well

\* A transaction that started from the row as it was may be committed.
LEMMA CommitsWell ==
  ASSUME OnboardingAssumption, Well, NEW u, GoodTxn(u), u.drawn >= drawn, Commit(u),
         \A k \in Jobs : job[k] # "none" => u.job[k] # "none"
  PROVE  /\ row' \in Rows /\ job' \in [Jobs -> JobStatus] /\ drawn' \in 1 .. MaxRuns
         /\ row'.run <= drawn' /\ drawn' >= drawn /\ Undrawn(job', drawn')
         /\ \A a \in Actors : seen[a] # NoRow => seen[a].run <= drawn'
         /\ \A w \in Workers : held[w] # NoJob => job'[held[w]] # "none"
         /\ \A S \in cancelling : \A j \in S : job'[j] # "none"
<1>1. u \in Txns /\ u.row.run <= u.drawn /\ Undrawn(u.job, u.drawn)
  BY DEF GoodTxn
<1>2. row' = u.row /\ job' = u.job /\ drawn' = u.drawn
  BY DEF Commit
<1>3. row' \in Rows /\ job' \in [Jobs -> JobStatus] /\ drawn' \in 1 .. MaxRuns
  BY <1>1, <1>2 DEF Txns
<1>4. \A a \in Actors : seen[a] # NoRow => seen[a].run \in 1 .. MaxRuns /\ seen[a].run <= drawn
  BY DEF Well, TypeOK, Runs, Rows
<1>5. drawn \in 1 .. MaxRuns /\ MaxRuns \in Nat
  BY DEF Well, TypeOK, OnboardingAssumption
<1>6. \A a \in Actors : seen[a] # NoRow => seen[a].run <= drawn'
  BY <1>2, <1>3, <1>4, <1>5
<1>7. \A w \in Workers : held[w] # NoJob => job'[held[w]] # "none"
  BY <1>2 DEF Well, TypeOK, Shape
<1>8. \A S \in cancelling : \A j \in S : job'[j] # "none"
  BY <1>2 DEF Well, TypeOK, Shape
<1>. QED
  BY <1>1, <1>2, <1>3, <1>6, <1>7, <1>8

\* The reads and the bookkeeping of workers and requests: the row stays as it is.
Quiet ==
  \/ \E a \in Actors : AdvanceRead(a) \/ AdvanceCheck(a) \/ AdvanceFind(a)
  \/ \E w \in Workers : \/ Claim(w) \/ StartRead(w) \/ FinalizeRead(w) \/ HandlerThrows(w)
                        \/ FailRead(w) \/ RepairRead(w) \/ ReconcileRead(w) \/ Crash(w)
  \/ \E j \in Jobs : Release(j)
  \/ \E p \in Phases : Backfill(p)
  \/ \E c \in Clients : Authenticate(c) \/ ResumeRead(c)
  \/ UninstallCancel

\* A step leaves the state well formed, and links a phase only behind phases that
\* are done: to a live job, or else from an advance that was overtaken.
Safe ==
  /\ Well'
  /\ \A q \in Phases :
       row'.link[q] \notin {row.link[q], NoJob} =>
         /\ \/ job'[row'.link[q]] \in Live
            \/ \E a \in overtaken : pc[a] = "linking" /\ pc'[a] = "idle"
         /\ \A p \in Phases : p < q => row'.phase[p] \in Done

\* A live job stays live unless it is cancelled or its phase is started.
Carries ==
  \A j \in Jobs :
    job[j] \in Live =>
      job'[j] \in Live \cup {"cancelled"} \/ row'.phase[PhaseOf(j)] # "not_started"

LEMMA QuietSafe == ASSUME OnboardingAssumption, Well, Quiet PROVE Safe
<1>. USE DEF Safe, Well, Links, db, open, Actors
<1>0. /\ row \in Rows /\ job \in [Jobs -> JobStatus] /\ owner \in [Jobs -> Workers \cup {NoWorker}]
      /\ tries \in [Jobs -> Nat] /\ drawn \in 1 .. MaxRuns /\ pc \in [Actors -> Control]
      /\ held \in [Workers -> Jobs \cup {NoJob}] /\ seen \in [Actors -> Rows \cup {NoRow}]
      /\ found \in [Actors -> SUBSET Jobs] /\ cancelling \subseteq SUBSET Jobs
      /\ overtaken \subseteq Actors
      /\ events \in 0 .. MaxEvents /\ MaxEvents \in Nat /\ MaxRuns \in Nat
      /\ NoJob \notin Jobs /\ NoRow \notin Rows
  BY DEF TypeOK, OnboardingAssumption
<1>1. ASSUME NEW a \in Actors, AdvanceRead(a) PROVE Safe
  <2>1. TypeOK'
    BY <1>0, <1>1 DEF AdvanceRead, Read, Goto, TypeOK, Control, JobStatus, Jobs
  <2>2. Shape'
    BY <1>0, <1>1 DEF AdvanceRead, Read, Goto, Shape, TypeOK
  <2>3. Runs' /\ row' = row
    BY <1>0, <1>1 DEF AdvanceRead, Read, Goto, Runs, Undrawn, Jobs, Waiting
  <2>. QED
    BY <2>1, <2>2, <2>3
<1>2. ASSUME NEW w \in Workers, Claim(w) PROVE Safe
  <2>1. TypeOK'
    BY <1>0, <1>2 DEF Claim, SetJob, Goto, TypeOK, Control, JobStatus, Jobs
  <2>2. Shape'
    BY <1>0, <1>2 DEF Claim, SetJob, Goto, Shape, TypeOK
  <2>3. Runs' /\ row' = row
    BY <1>0, <1>2 DEF Claim, SetJob, Goto, Runs, Undrawn, Jobs, Waiting
  <2>. QED
    BY <2>1, <2>2, <2>3
<1>3. ASSUME NEW w \in Workers, StartRead(w) PROVE Safe
  <2>1. TypeOK'
    BY <1>0, <1>3 DEF StartRead, Read, Goto, TypeOK, Control, JobStatus, Jobs
  <2>2. Shape'
    BY <1>0, <1>3 DEF StartRead, Read, Goto, Shape, TypeOK
  <2>3. Runs' /\ row' = row
    BY <1>0, <1>3 DEF StartRead, Read, Goto, Runs, Undrawn, Jobs, Waiting
  <2>. QED
    BY <2>1, <2>2, <2>3
<1>4. ASSUME NEW w \in Workers, FinalizeRead(w) PROVE Safe
  <2>1. TypeOK'
    BY <1>0, <1>4 DEF FinalizeRead, Goto, TypeOK, Control, JobStatus, Jobs
  <2>2. Shape'
    BY <1>0, <1>4 DEF FinalizeRead, Goto, Shape, TypeOK
  <2>3. Runs' /\ row' = row
    BY <1>0, <1>4 DEF FinalizeRead, Goto, Runs, Undrawn, Jobs, Waiting
  <2>. QED
    BY <2>1, <2>2, <2>3
<1>5. ASSUME NEW w \in Workers, HandlerThrows(w) PROVE Safe
  <2>1. TypeOK'
    BY <1>0, <1>5 DEF HandlerThrows, Event, Goto, TypeOK, Control, JobStatus, Jobs
  <2>2. Shape'
    BY <1>0, <1>5 DEF HandlerThrows, Event, Goto, Shape, TypeOK
  <2>3. Runs' /\ row' = row
    BY <1>0, <1>5 DEF HandlerThrows, Event, Goto, Runs, Undrawn, Jobs, Waiting
  <2>. QED
    BY <2>1, <2>2, <2>3
<1>6. ASSUME NEW w \in Workers, FailRead(w) PROVE Safe
  <2>1. TypeOK'
    BY <1>0, <1>6 DEF FailRead, Goto, TypeOK, Control, JobStatus, Jobs
  <2>2. Shape'
    BY <1>0, <1>6 DEF FailRead, Goto, Shape, TypeOK
  <2>3. Runs' /\ row' = row
    BY <1>0, <1>6 DEF FailRead, Goto, Runs, Undrawn, Jobs, Waiting
  <2>. QED
    BY <2>1, <2>2, <2>3
<1>7. ASSUME NEW w \in Workers, RepairRead(w) PROVE Safe
  <2>1. TypeOK'
    BY <1>0, <1>7 DEF RepairRead, Read, Goto, TypeOK, Control, JobStatus, Jobs
  <2>2. Shape'
    BY <1>0, <1>7 DEF RepairRead, Read, Goto, Shape, TypeOK
  <2>3. Runs' /\ row' = row
    BY <1>0, <1>7 DEF RepairRead, Read, Goto, Runs, Undrawn, Jobs, Waiting
  <2>. QED
    BY <2>1, <2>2, <2>3
<1>8. ASSUME NEW w \in Workers, ReconcileRead(w) PROVE Safe
  <2>1. TypeOK'
    BY <1>0, <1>8 DEF ReconcileRead, Read, Goto, Mismatch, TypeOK, Control, JobStatus, Jobs
  <2>2. Shape'
    BY <1>0, <1>8 DEF ReconcileRead, Read, Goto, Mismatch, Shape, TypeOK
  <2>3. Runs' /\ row' = row
    BY <1>0, <1>8 DEF ReconcileRead, Read, Goto, Mismatch, Runs, Undrawn, Jobs, Waiting
  <2>. QED
    BY <2>1, <2>2, <2>3
<1>9. ASSUME NEW w \in Workers, Crash(w) PROVE Safe
  <2>1. TypeOK'
    BY <1>0, <1>9 DEF Crash, Event, Forget, Leave, Goto, TypeOK, Control, JobStatus, Jobs
  <2>2. Shape'
    BY <1>0, <1>9 DEF Crash, Event, Forget, Leave, Goto, Shape, TypeOK
  <2>3. Runs' /\ row' = row
    BY <1>0, <1>9 DEF Crash, Event, Forget, Leave, Goto, Runs, Undrawn, Jobs, Waiting
  <2>. QED
    BY <2>1, <2>2, <2>3
<1>10. ASSUME NEW j \in Jobs, Release(j) PROVE Safe
  <2>1. TypeOK'
    BY <1>0, <1>10 DEF Release, Event, SetJob, TypeOK, Control, JobStatus, Waiting, Jobs
  <2>2. Shape'
    BY <1>0, <1>10 DEF Release, Event, SetJob, Shape, TypeOK
  <2>3. Runs' /\ row' = row
    BY <1>0, <1>10 DEF Release, Event, SetJob, Runs, Undrawn, Jobs, Waiting
  <2>. QED
    BY <2>1, <2>2, <2>3
<1>11. ASSUME NEW p \in Phases, Backfill(p) PROVE Safe
  <2>1. TypeOK'
    BY <1>0, <1>11 DEF Backfill, Event, SetJob, TypeOK, Control, JobStatus, Waiting, Jobs
  <2>2. Shape'
    BY <1>0, <1>11 DEF Backfill, Event, SetJob, Shape, TypeOK
  <2>3. Runs' /\ row' = row
    BY <1>0, <1>11 DEF Backfill, Event, SetJob, Runs, Undrawn, Jobs, Waiting
  <2>. QED
    BY <2>1, <2>2, <2>3
<1>12. ASSUME NEW c \in Clients, Authenticate(c) PROVE Safe
  <2>1. TypeOK'
    BY <1>0, <1>12 DEF Authenticate, Event, Goto, TypeOK, Control, JobStatus, Jobs
  <2>2. Shape'
    BY <1>0, <1>12 DEF Authenticate, Event, Goto, Shape, TypeOK
  <2>3. Runs' /\ row' = row
    BY <1>0, <1>12 DEF Authenticate, Event, Goto, Runs, Undrawn, Jobs, Waiting
  <2>. QED
    BY <2>1, <2>2, <2>3
<1>13. ASSUME NEW c \in Clients, ResumeRead(c) PROVE Safe
  <2>0. /\ events < MaxEvents /\ events' = events + 1
        /\ Read(c) /\ Goto(c, "resuming") /\ UNCHANGED <<db, held, open>>
    BY <1>13 DEF ResumeRead, Event
  <2>1. TypeOK'
    BY <1>0, <2>0 DEF Read, Goto, TypeOK, Control
  <2>2. Shape'
    BY <1>0, <2>0 DEF Read, Goto, Shape, TypeOK
  <2>3. Runs' /\ row' = row
    BY <1>0, <2>0 DEF Read, Goto, Runs, Undrawn, Jobs
  <2>. QED
    BY <2>1, <2>2, <2>3
<1>14. ASSUME NEW a \in Actors, AdvanceCheck(a) PROVE Safe
  <2>1. TypeOK'
    BY <1>0, <1>14 DEF AdvanceCheck, Goto, TypeOK, Control
  <2>2. Shape'
    BY <1>0, <1>14 DEF AdvanceCheck, Goto, Shape, TypeOK
  <2>3. Runs' /\ row' = row
    BY <1>0, <1>14 DEF AdvanceCheck, Goto, Runs, Undrawn
  <2>. QED
    BY <2>1, <2>2, <2>3
<1>15. ASSUME NEW a \in Actors, AdvanceFind(a) PROVE Safe
  <2>0. /\ seen[a] \in Rows /\ NextPhase(seen[a]) \in Phases
        /\ <<NextPhase(seen[a]), seen[a].run>> \in Jobs
    <3>1. seen[a] \in Rows /\ NextPhase(seen[a]) \in Phases
      BY <1>0, <1>15, NextIsPhase DEF AdvanceFind, Shape
    <3>. QED
      BY <3>1, <1>0 DEF Rows, Jobs
  <2>1. TypeOK'
    BY <1>0, <1>15, <2>0 DEF AdvanceFind, Goto, TypeOK, Control
  <2>2. Shape'
    BY <1>0, <1>15 DEF AdvanceFind, Goto, Shape, TypeOK
  <2>3. Runs' /\ row' = row
    BY <1>0, <1>15 DEF AdvanceFind, Goto, Runs, Undrawn
  <2>. QED
    BY <2>1, <2>2, <2>3
<1>16. CASE UninstallCancel
  <2>1. TypeOK'
    BY <1>0, <1>16 DEF UninstallCancel, Event, TypeOK
  <2>2. Shape'
    BY <1>0, <1>16 DEF UninstallCancel, Shape, Waiting
  <2>3. Runs' /\ row' = row
    BY <1>0, <1>16 DEF UninstallCancel, Runs, Undrawn
  <2>. QED
    BY <2>1, <2>2, <2>3
<1>. QED
  BY <1>1, <1>2, <1>3, <1>4, <1>5, <1>6, <1>7, <1>8, <1>9, <1>10, <1>11, <1>12, <1>13,
     <1>14, <1>15, <1>16 DEF Quiet

\* markPhaseStarted writes no link.
LEMMA StartWriteSafe ==
  ASSUME OnboardingAssumption, Well, NEW w \in Workers, StartWrite(w) PROVE Safe
<1>. USE DEF Safe, Well, db, open, Actors
<1>0. /\ row \in Rows /\ job \in [Jobs -> JobStatus] /\ owner \in [Jobs -> Workers \cup {NoWorker}]
      /\ tries \in [Jobs -> Nat] /\ drawn \in 1 .. MaxRuns /\ pc \in [Actors -> Control]
      /\ held \in [Workers -> Jobs \cup {NoJob}] /\ seen \in [Actors -> Rows \cup {NoRow}]
      /\ found \in [Actors -> SUBSET Jobs] /\ cancelling \subseteq SUBSET Jobs
      /\ overtaken \subseteq Actors
      /\ events \in 0 .. MaxEvents /\ MaxEvents \in Nat /\ MaxRuns \in Nat
      /\ NoJob \notin Jobs /\ NoRow \notin Rows
  BY DEF TypeOK, OnboardingAssumption
<1>1. row' \in Rows /\ row'.run = row.run /\ Keeps(row, row')
  <2>1. seen[w] \in Rows /\ held[w] \in Jobs
    BY <1>0 DEF StartWrite, Shape
  <2>. QED
    BY <1>0, <2>1 DEF StartWrite, Rows, Keeps, PhaseStatus, Open, PhaseOf, Jobs
<1>2. TypeOK'
  BY <1>0, <1>1 DEF StartWrite, Forget, Goto, TypeOK, Control, JobStatus, Waiting, Terminal
<1>3. Shape'
  BY <1>0, <1>1 DEF StartWrite, Forget, Goto, Shape, TypeOK
<1>4. Runs'
  BY <1>0, <1>1 DEF StartWrite, Forget, Goto, Runs, Undrawn, Shape, Waiting
<1>. QED
  BY <1>1, <1>2, <1>3, <1>4 DEF Keeps, Links

\* The failure of a phase removes its link.
LEMMA FailWriteSafe ==
  ASSUME OnboardingAssumption, Well, NEW w \in Workers, FailWrite(w) PROVE Safe
<1>. USE DEF Safe, Well, db, open, Actors
<1>0. /\ row \in Rows /\ job \in [Jobs -> JobStatus] /\ owner \in [Jobs -> Workers \cup {NoWorker}]
      /\ tries \in [Jobs -> Nat] /\ drawn \in 1 .. MaxRuns /\ pc \in [Actors -> Control]
      /\ held \in [Workers -> Jobs \cup {NoJob}] /\ seen \in [Actors -> Rows \cup {NoRow}]
      /\ found \in [Actors -> SUBSET Jobs] /\ cancelling \subseteq SUBSET Jobs
      /\ overtaken \subseteq Actors
      /\ events \in 0 .. MaxEvents /\ MaxEvents \in Nat /\ MaxRuns \in Nat
      /\ NoJob \notin Jobs /\ NoRow \notin Rows
  BY DEF TypeOK, OnboardingAssumption
<1>1. row' \in Rows /\ row'.run = row.run /\ Keeps(row, row')
  <2>1. held[w] \in Jobs /\ PhaseOf(held[w]) \in Phases
    BY <1>0 DEF FailWrite, Shape, PhaseOf, Jobs
  <2>2. /\ MarkFailed(row, PhaseOf(held[w])) \in Rows
        /\ MarkFailed(row, PhaseOf(held[w])).run = row.run
        /\ Keeps(row, MarkFailed(row, PhaseOf(held[w])))
    BY <1>0, <2>1, RowUpdates
  <2>3. row' = row \/ row' = MarkFailed(row, PhaseOf(held[w]))
    BY DEF FailWrite
  <2>. QED
    BY <1>0, <2>2, <2>3 DEF Keeps
<1>2. TypeOK'
  BY <1>0, <1>1 DEF FailWrite, SetJob, Leave, Goto, TypeOK, Control, JobStatus, Waiting, Terminal
<1>3. Shape'
  BY <1>0, <1>1 DEF FailWrite, SetJob, Leave, Goto, Shape, TypeOK
<1>4. Runs'
  BY <1>0, <1>1 DEF FailWrite, SetJob, Leave, Goto, Runs, Undrawn, Shape, Waiting
<1>. QED
  BY <1>1, <1>2, <1>3, <1>4 DEF Keeps, Links

\* Marking a repair writes no link.
LEMMA OwnershipConflictSafe ==
  ASSUME OnboardingAssumption, Well, NEW w \in Workers, OwnershipConflict(w) PROVE Safe
<1>. USE DEF Safe, Well, db, open, Actors
<1>0. /\ row \in Rows /\ job \in [Jobs -> JobStatus] /\ owner \in [Jobs -> Workers \cup {NoWorker}]
      /\ tries \in [Jobs -> Nat] /\ drawn \in 1 .. MaxRuns /\ pc \in [Actors -> Control]
      /\ held \in [Workers -> Jobs \cup {NoJob}] /\ seen \in [Actors -> Rows \cup {NoRow}]
      /\ found \in [Actors -> SUBSET Jobs] /\ cancelling \subseteq SUBSET Jobs
      /\ overtaken \subseteq Actors
      /\ events \in 0 .. MaxEvents /\ MaxEvents \in Nat /\ MaxRuns \in Nat
      /\ NoJob \notin Jobs /\ NoRow \notin Rows
  BY DEF TypeOK, OnboardingAssumption
<1>1. row' \in Rows /\ row'.run = row.run /\ Keeps(row, row')
  BY <1>0 DEF OwnershipConflict, Rows, Keeps
<1>2. TypeOK'
  BY <1>0, <1>1 DEF OwnershipConflict, Leave, Goto, TypeOK, Control, JobStatus, Waiting, Terminal
<1>3. Shape'
  BY <1>0, <1>1 DEF OwnershipConflict, Leave, Goto, Shape, TypeOK
<1>4. Runs'
  BY <1>0, <1>1 DEF OwnershipConflict, Leave, Goto, Runs, Undrawn, Shape, Waiting
<1>. QED
  BY <1>1, <1>2, <1>3, <1>4 DEF Keeps, Links

\* The repair removes all links.
LEMMA RepairWriteSafe ==
  ASSUME OnboardingAssumption, Well, NEW w \in Workers, RepairWrite(w) PROVE Safe
<1>. USE DEF Safe, Well, db, open, Actors
<1>0. /\ row \in Rows /\ job \in [Jobs -> JobStatus] /\ owner \in [Jobs -> Workers \cup {NoWorker}]
      /\ tries \in [Jobs -> Nat] /\ drawn \in 1 .. MaxRuns /\ pc \in [Actors -> Control]
      /\ held \in [Workers -> Jobs \cup {NoJob}] /\ seen \in [Actors -> Rows \cup {NoRow}]
      /\ found \in [Actors -> SUBSET Jobs] /\ cancelling \subseteq SUBSET Jobs
      /\ overtaken \subseteq Actors
      /\ events \in 0 .. MaxEvents /\ MaxEvents \in Nat /\ MaxRuns \in Nat
      /\ NoJob \notin Jobs /\ NoRow \notin Rows
  BY DEF TypeOK, OnboardingAssumption
<1>1. row' \in Rows /\ row'.run = row.run /\ Keeps(row, row')
  <2>1. seen[w] \in Rows
    BY <1>0 DEF RepairWrite, Shape
  <2>. QED
    BY <1>0, <2>1 DEF RepairWrite, Rows, Keeps, PhaseStatus
<1>2. TypeOK'
  BY <1>0, <1>1 DEF RepairWrite, Overtake, Forget, Goto, TypeOK, Control, JobStatus, Waiting, Terminal
<1>3. Shape'
  BY <1>0, <1>1 DEF RepairWrite, Forget, Goto, Shape, TypeOK
<1>4. Runs'
  BY <1>0, <1>1 DEF RepairWrite, Forget, Goto, Runs, Undrawn, Shape, Waiting
<1>. QED
  BY <1>1, <1>2, <1>3, <1>4 DEF Keeps, Links

\* The reconciliation writes no link.
LEMMA ReconcileWriteSafe ==
  ASSUME OnboardingAssumption, Well, NEW w \in Workers, ReconcileWrite(w) PROVE Safe
<1>. USE DEF Safe, Well, db, open, Actors
<1>0. /\ row \in Rows /\ job \in [Jobs -> JobStatus] /\ owner \in [Jobs -> Workers \cup {NoWorker}]
      /\ tries \in [Jobs -> Nat] /\ drawn \in 1 .. MaxRuns /\ pc \in [Actors -> Control]
      /\ held \in [Workers -> Jobs \cup {NoJob}] /\ seen \in [Actors -> Rows \cup {NoRow}]
      /\ found \in [Actors -> SUBSET Jobs] /\ cancelling \subseteq SUBSET Jobs
      /\ overtaken \subseteq Actors
      /\ events \in 0 .. MaxEvents /\ MaxEvents \in Nat /\ MaxRuns \in Nat
      /\ NoJob \notin Jobs /\ NoRow \notin Rows
  BY DEF TypeOK, OnboardingAssumption
<1>1. row' \in Rows /\ row'.run = row.run /\ Keeps(row, row')
  <2>1. seen[w] \in Rows /\ seen[w].current \in Jobs
    BY <1>0 DEF ReconcileWrite, Shape, Rows
  <2>2. PhaseOf(seen[w].current) \in Phases
    BY <2>1 DEF PhaseOf, Jobs
  <2>. DEFINE p == PhaseOf(seen[w].current)
  <2>3. row' = MarkCompleted(row, p) \/ row' = MarkFailed(row, p)
    BY DEF ReconcileWrite
  <2>. HIDE DEF p
  <2>4. /\ MarkCompleted(row, p) \in Rows /\ MarkCompleted(row, p).run = row.run
        /\ Keeps(row, MarkCompleted(row, p))
        /\ MarkFailed(row, p) \in Rows /\ MarkFailed(row, p).run = row.run
        /\ Keeps(row, MarkFailed(row, p))
    BY <1>0, <2>2, RowUpdates DEF p
  <2>. QED
    BY <2>3, <2>4
<1>2. TypeOK'
  BY <1>0, <1>1 DEF ReconcileWrite, Forget, Goto, TypeOK, Control, JobStatus, Waiting, Terminal
<1>3. Shape'
  BY <1>0, <1>1 DEF ReconcileWrite, Forget, Goto, Shape, TypeOK
<1>4. Runs'
  BY <1>0, <1>1 DEF ReconcileWrite, Forget, Goto, Runs, Undrawn, Shape, Waiting
<1>. QED
  BY <1>1, <1>2, <1>3, <1>4 DEF Keeps, Links

\* Blocking the orders phase writes no link.
LEMMA BlockOrdersSafe ==
  ASSUME OnboardingAssumption, Well, NEW c \in Clients, BlockOrders(c) PROVE Safe
<1>. USE DEF Safe, Well, db, open, Actors
<1>0. /\ row \in Rows /\ job \in [Jobs -> JobStatus] /\ owner \in [Jobs -> Workers \cup {NoWorker}]
      /\ tries \in [Jobs -> Nat] /\ drawn \in 1 .. MaxRuns /\ pc \in [Actors -> Control]
      /\ held \in [Workers -> Jobs \cup {NoJob}] /\ seen \in [Actors -> Rows \cup {NoRow}]
      /\ found \in [Actors -> SUBSET Jobs] /\ cancelling \subseteq SUBSET Jobs
      /\ overtaken \subseteq Actors
      /\ events \in 0 .. MaxEvents /\ MaxEvents \in Nat /\ MaxRuns \in Nat
      /\ NoJob \notin Jobs /\ NoRow \notin Rows
  BY DEF TypeOK, OnboardingAssumption
<1>1. row' \in Rows /\ row'.run = row.run /\ Keeps(row, row')
  <2>1. 3 \in Phases
    BY DEF Phases
  <2>. QED
    BY <1>0, <2>1, RowUpdates DEF BlockOrders
<1>2. TypeOK'
  BY <1>0, <1>1 DEF BlockOrders, Event, Goto, TypeOK, Control, JobStatus, Waiting, Terminal
<1>3. Shape'
  BY <1>0, <1>1 DEF BlockOrders, Event, Goto, Shape, TypeOK
<1>4. Runs'
  BY <1>0, <1>1 DEF BlockOrders, Event, Goto, Runs, Undrawn, Shape, Waiting
<1>. QED
  BY <1>1, <1>2, <1>3, <1>4 DEF Keeps, Links

\* An uninstall cancels jobs and removes all links.
LEMMA UninstallResetSafe ==
  ASSUME OnboardingAssumption, Well, NEW S \in cancelling, UninstallReset(S) PROVE Safe
<1>. USE DEF Safe, Well, db, open, Actors
<1>0. /\ row \in Rows /\ job \in [Jobs -> JobStatus] /\ owner \in [Jobs -> Workers \cup {NoWorker}]
      /\ tries \in [Jobs -> Nat] /\ drawn \in 1 .. MaxRuns /\ pc \in [Actors -> Control]
      /\ held \in [Workers -> Jobs \cup {NoJob}] /\ seen \in [Actors -> Rows \cup {NoRow}]
      /\ found \in [Actors -> SUBSET Jobs] /\ cancelling \subseteq SUBSET Jobs
      /\ overtaken \subseteq Actors
      /\ events \in 0 .. MaxEvents /\ MaxEvents \in Nat /\ MaxRuns \in Nat
      /\ NoJob \notin Jobs /\ NoRow \notin Rows
  BY DEF TypeOK, OnboardingAssumption
<1>1. row' \in Rows /\ row'.run = row.run /\ Keeps(row, row')
  <2>1. 1 \in Phases
    BY DEF Phases
  <2>. QED
    BY <1>0, <2>1, RowUpdates DEF UninstallReset
<1>2. TypeOK'
  BY <1>0, <1>1 DEF UninstallReset, Overtake, TypeOK, Control, JobStatus, Waiting, Terminal
<1>3. Shape'
  BY <1>0, <1>1 DEF UninstallReset, Shape, TypeOK
<1>4. Runs'
  BY <1>0, <1>1 DEF UninstallReset, Runs, Undrawn, Shape
<1>. QED
  BY <1>1, <1>2, <1>3, <1>4 DEF Keeps, Links

\* advanceOnboarding commits a good transaction, or nothing.
LEMMA AdvanceWriteSafe ==
  ASSUME OnboardingAssumption, Well, NEW a \in Actors, AdvanceWrite(a)
  PROVE  Safe /\ Carries
<1>. USE DEF Safe, Well, db, open, Actors
<1>0. /\ row \in Rows /\ job \in [Jobs -> JobStatus] /\ owner \in [Jobs -> Workers \cup {NoWorker}]
      /\ tries \in [Jobs -> Nat] /\ drawn \in 1 .. MaxRuns /\ pc \in [Actors -> Control]
      /\ held \in [Workers -> Jobs \cup {NoJob}] /\ seen \in [Actors -> Rows \cup {NoRow}]
      /\ found \in [Actors -> SUBSET Jobs] /\ cancelling \subseteq SUBSET Jobs
      /\ overtaken \subseteq Actors
      /\ events \in 0 .. MaxEvents /\ MaxEvents \in Nat /\ MaxRuns \in Nat
      /\ NoJob \notin Jobs /\ NoRow \notin Rows
  BY DEF TypeOK, OnboardingAssumption
<1>. DEFINE b == Begin(seen[a])
            u == Advance(b)
<1>1. seen[a] \in Rows /\ seen[a].run <= drawn
  BY <1>0 DEF AdvanceWrite, Shape, Runs
<1>2. GoodTxn(b) /\ b.drawn = drawn /\ b.row = row /\ b.job = job
  BY <1>0, <1>1 DEF Begin, Txn, GoodTxn, Txns, Runs
<1>3. drawn + 4 <= MaxRuns
  BY DEF AdvanceWrite, RunsLeft
<1>. HIDE DEF b
<1>4. /\ GoodTxn(u) /\ u.drawn >= drawn /\ Links(row, u.row, u.job)
      /\ Adds(job, u.job)
  BY <1>2, <1>3, AdvanceGood
<1>5. Commit(u) \/ UNCHANGED <<row, job, drawn>>
  BY DEF AdvanceWrite, b
<1>. HIDE DEF u
<1>6. /\ row' \in Rows /\ job' \in [Jobs -> JobStatus] /\ drawn' \in 1 .. MaxRuns
      /\ row'.run <= drawn' /\ Undrawn(job', drawn')
      /\ \A x \in Actors : seen[x] # NoRow => seen[x].run <= drawn'
      /\ \A w \in Workers : held[w] # NoJob => job'[held[w]] # "none"
      /\ \A S \in cancelling : \A j \in S : job'[j] # "none"
      /\ Links(row, row', job') /\ Adds(job, job')
  <2>1. CASE Commit(u)
    BY <2>1, <1>4, CommitsWell DEF Commit, Adds
  <2>2. CASE UNCHANGED <<row, job, drawn>>
    BY <2>2, <1>0 DEF Runs, Shape, Links, Adds
  <2>. QED
    BY <2>1, <2>2, <1>5
<1>7. TypeOK'
  BY <1>0, <1>6 DEF AdvanceWrite, Overtake, Forget, Goto, TypeOK, Control
<1>8. Shape'
  BY <1>0, <1>6 DEF AdvanceWrite, Forget, Goto, Shape, TypeOK
<1>9. Runs'
  BY <1>0, <1>6 DEF AdvanceWrite, Forget, Goto, Runs
<1>. QED
  BY <1>6, <1>7, <1>8, <1>9 DEF Links, Adds, Carries, Live, Waiting

\* So does a phase that gets a new run.
LEMMA AdvanceRenewSafe ==
  ASSUME OnboardingAssumption, Well, NEW a \in Actors, AdvanceRenew(a)
  PROVE  Safe /\ Carries
<1>. USE DEF Safe, Well, db, open, Actors
<1>0. /\ row \in Rows /\ job \in [Jobs -> JobStatus] /\ owner \in [Jobs -> Workers \cup {NoWorker}]
      /\ tries \in [Jobs -> Nat] /\ drawn \in 1 .. MaxRuns /\ pc \in [Actors -> Control]
      /\ held \in [Workers -> Jobs \cup {NoJob}] /\ seen \in [Actors -> Rows \cup {NoRow}]
      /\ found \in [Actors -> SUBSET Jobs] /\ cancelling \subseteq SUBSET Jobs
      /\ overtaken \subseteq Actors
      /\ events \in 0 .. MaxEvents /\ MaxEvents \in Nat /\ MaxRuns \in Nat
      /\ NoJob \notin Jobs /\ NoRow \notin Rows
  BY DEF TypeOK, OnboardingAssumption
<1>. DEFINE b == Begin(seen[a])
            p == NextPhase(seen[a])
            u == EnqueueAndLink(b, p)
<1>1. seen[a] \in Rows /\ seen[a].run <= drawn /\ p \in Phases
  BY <1>0, NextIsPhase DEF AdvanceRenew, Shape, Runs
<1>2. GoodTxn(b) /\ b.drawn = drawn /\ b.row = row /\ b.job = job
  BY <1>0, <1>1 DEF Begin, Txn, GoodTxn, Txns, Runs
<1>3. drawn < MaxRuns
  BY <1>0 DEF AdvanceRenew, RunsLeft
<1>. HIDE DEF b, p
<1>4. /\ GoodTxn(u) /\ u.drawn >= drawn /\ Links(row, u.row, u.job)
      /\ Adds(job, u.job)
  BY <1>1, <1>2, <1>3, EnqueueGood
<1>5. Commit(u) \/ UNCHANGED <<row, job, drawn>>
  BY DEF AdvanceRenew, b, p
<1>. HIDE DEF u
<1>6. /\ row' \in Rows /\ job' \in [Jobs -> JobStatus] /\ drawn' \in 1 .. MaxRuns
      /\ row'.run <= drawn' /\ Undrawn(job', drawn')
      /\ \A x \in Actors : seen[x] # NoRow => seen[x].run <= drawn'
      /\ \A w \in Workers : held[w] # NoJob => job'[held[w]] # "none"
      /\ \A S \in cancelling : \A j \in S : job'[j] # "none"
      /\ Links(row, row', job') /\ Adds(job, job')
  <2>1. CASE Commit(u)
    BY <2>1, <1>4, CommitsWell DEF Commit, Adds
  <2>2. CASE UNCHANGED <<row, job, drawn>>
    BY <2>2, <1>0 DEF Runs, Shape, Links, Adds
  <2>. QED
    BY <2>1, <2>2, <1>5
<1>7. TypeOK'
  BY <1>0, <1>6 DEF AdvanceRenew, Overtake, Forget, Goto, TypeOK, Control
<1>8. Shape'
  BY <1>0, <1>6 DEF AdvanceRenew, Forget, Goto, Shape, TypeOK
<1>9. Runs'
  BY <1>0, <1>6 DEF AdvanceRenew, Forget, Goto, Runs
<1>. QED
  BY <1>6, <1>7, <1>8, <1>9 DEF Links, Adds, Carries, Live, Waiting

\* The phase an advance had found ready is linked to a job it creates, or to the
\* one it found: a live one, unless the advance was overtaken.
LEMMA AdvanceLinkSafe ==
  ASSUME OnboardingAssumption, Well, Founds, NEW a \in Actors, AdvanceLink(a)
  PROVE  Safe /\ Carries
<1>. USE DEF Safe, Well, db, open, Actors
<1>0. /\ row \in Rows /\ job \in [Jobs -> JobStatus] /\ owner \in [Jobs -> Workers \cup {NoWorker}]
      /\ tries \in [Jobs -> Nat] /\ drawn \in 1 .. MaxRuns /\ pc \in [Actors -> Control]
      /\ held \in [Workers -> Jobs \cup {NoJob}] /\ seen \in [Actors -> Rows \cup {NoRow}]
      /\ found \in [Actors -> SUBSET Jobs] /\ cancelling \subseteq SUBSET Jobs
      /\ overtaken \subseteq Actors
      /\ events \in 0 .. MaxEvents /\ MaxEvents \in Nat /\ MaxRuns \in Nat
      /\ NoJob \notin Jobs /\ NoRow \notin Rows
  BY DEF TypeOK, OnboardingAssumption
<1>. DEFINE p == NextPhase(seen[a])
            j == <<p, seen[a].run>>
            l == Link(row, p, j)
<1>1. /\ seen[a] \in Rows /\ seen[a].run <= drawn /\ seen[a].run \in 1 .. MaxRuns
      /\ p \in Phases /\ j \in Jobs
  <2>1. seen[a] \in Rows /\ seen[a].run <= drawn /\ p \in Phases
    BY <1>0, NextIsPhase DEF AdvanceLink, Shape, Runs
  <2>. QED
    BY <2>1, <1>0 DEF Rows, Jobs
<1>2. /\ pc[a] = "linking" /\ Forget(a) /\ Goto(a, "idle")
      /\ found' = [found EXCEPT ![a] = {}] /\ overtaken' = overtaken \ {a}
      /\ UNCHANGED <<owner, tries, drawn, held, cancelling, events>>
  BY DEF AdvanceLink
<1>3. \/ row' = row /\ job' = job
      \/ /\ found[a] = {} => job[j] = "none"
         /\ row' = row \/ (MayLink(row, p) /\ row' = l)
         /\ job' = [job EXCEPT ![j] = IF found[a] = {} THEN "queued" ELSE @]
  BY DEF AdvanceLink
<1>. HIDE DEF p
<1>4. /\ l \in Rows /\ l.run = row.run
      /\ \A q \in Phases : l.link[q] = IF q = p THEN j ELSE row.link[q]
      /\ \A q \in Phases : q # p => l.phase[q] = row.phase[q]
  BY <1>0, <1>1 DEF Link, Rows, PhaseStatus, Open
<1>5. /\ row' \in Rows /\ row'.run = row.run /\ job' \in [Jobs -> JobStatus]
      /\ \A k \in Jobs : job'[k] = "none" => job[k] = "none"
      /\ \A k \in Jobs : job'[k] # job[k] => k = j
  BY <1>0, <1>1, <1>3, <1>4 DEF JobStatus, Waiting
<1>6. TypeOK'
  BY <1>0, <1>2, <1>5 DEF Forget, Goto, TypeOK, Control
<1>7. Shape'
  BY <1>0, <1>2, <1>5 DEF Forget, Goto, Shape
<1>8. Runs'
  <2>1. Undrawn(job', drawn)
    BY <1>1, <1>5, <1>0 DEF Runs, Undrawn, Jobs
  <2>. QED
    BY <2>1, <1>0, <1>2, <1>5 DEF Forget, Runs
<1>9. ASSUME NEW q \in Phases, row'.link[q] \notin {row.link[q], NoJob}
      PROVE  /\ \/ job'[row'.link[q]] \in Live
                \/ \E x \in overtaken : pc[x] = "linking" /\ pc'[x] = "idle"
             /\ \A x \in Phases : x < q => row'.phase[x] \in Done
  <2>1. /\ MayLink(row, p) /\ row' = l /\ q = p /\ row'.link[q] = j
        /\ found[a] = {} => job[j] = "none"
        /\ job' = [job EXCEPT ![j] = IF found[a] = {} THEN "queued" ELSE @]
    BY <1>3, <1>4, <1>9
  <2>. HIDE DEF l
  <2>2. \A x \in Phases : x < q => row'.phase[x] \in Done
    <3>1. \A x \in Phases : x < p => x # p
      BY <1>1 DEF Phases
    <3>. QED
      BY <2>1, <3>1, <1>4 DEF MayLink
  <2>3. CASE found[a] = {}
    <3>1. job'[j] = "queued"
      BY <2>1, <2>3, <1>0, <1>1
    <3>. QED
      BY <3>1, <2>1, <2>2 DEF Live, Waiting
  <2>4. CASE found[a] # {}
    <3>1. PICK k \in found[a] : TRUE
      BY <2>4
    <3>2. k = j /\ (a \in overtaken \/ job[j] \in Live \/ row.phase[p] # "not_started")
      BY <3>1, <1>2, <1>1 DEF Founds, PhaseOf, p
    <3>3. a \in overtaken \/ job'[j] \in Live
      BY <3>2, <2>1, <2>4, <1>0, <1>1 DEF MayLink
    <3>4. pc'[a] = "idle"
      BY <1>0, <1>2 DEF Goto
    <3>. QED
      BY <3>3, <3>4, <2>1, <2>2, <1>2
  <2>. QED
    BY <2>3, <2>4
<1>10. Carries
  BY <1>0, <1>1, <1>3 DEF Carries, Live, Waiting
<1>. QED
  BY <1>6, <1>7, <1>8, <1>9, <1>10

\* The finalizers complete the job, mark the phase and advance in one
\* transaction, which is good.
LEMMA FinalizeWriteSafe ==
  ASSUME OnboardingAssumption, Well, NEW w \in Workers, FinalizeWrite(w)
  PROVE  Safe /\ Carries
<1>. USE DEF Safe, Well, db, open, Actors
<1>0. /\ row \in Rows /\ job \in [Jobs -> JobStatus] /\ owner \in [Jobs -> Workers \cup {NoWorker}]
      /\ tries \in [Jobs -> Nat] /\ drawn \in 1 .. MaxRuns /\ pc \in [Actors -> Control]
      /\ held \in [Workers -> Jobs \cup {NoJob}] /\ seen \in [Actors -> Rows \cup {NoRow}]
      /\ found \in [Actors -> SUBSET Jobs] /\ cancelling \subseteq SUBSET Jobs
      /\ overtaken \subseteq Actors
      /\ events \in 0 .. MaxEvents /\ MaxEvents \in Nat /\ MaxRuns \in Nat
      /\ NoJob \notin Jobs /\ NoRow \notin Rows
  BY DEF TypeOK, OnboardingAssumption
<1>. DEFINE p == PhaseOf(held[w])
            r == IF pc[w] = "completing" THEN MarkCompleted(row, p) ELSE MarkBlocked(row, p)
            b == Txn(r, r, [job EXCEPT ![held[w]] = "completed"], drawn)
            u == Finalized(w)
<1>1. held[w] \in Jobs /\ p \in Phases /\ job[held[w]] # "none" /\ held[w][2] \in 0 .. MaxRuns
  BY <1>0 DEF FinalizeWrite, Shape, PhaseOf, Jobs
<1>2. r \in Rows /\ r.run = row.run /\ Keeps(row, r)
  BY <1>0, <1>1, RowUpdates
<1>3. u = Advance(b)
  BY DEF Finalized
<1>. HIDE DEF r, p
<1>4. /\ [job EXCEPT ![held[w]] = "completed"] \in [Jobs -> JobStatus]
      /\ \A k \in Jobs : job[k] # "none" => [job EXCEPT ![held[w]] = "completed"][k] # "none"
  BY <1>0 DEF JobStatus, Terminal
<1>5. Undrawn([job EXCEPT ![held[w]] = "completed"], drawn)
  BY <1>0, <1>1 DEF Runs, Undrawn
<1>6. GoodTxn(b) /\ b.drawn = drawn /\ b.row = r /\ b.job = [job EXCEPT ![held[w]] = "completed"]
  <2>. DEFINE jobs == [job EXCEPT ![held[w]] = "completed"]
  <2>1. b = [seen |-> r, row |-> r, job |-> jobs, drawn |-> drawn, ok |-> TRUE]
    BY DEF Txn
  <2>2. jobs \in [Jobs -> JobStatus] /\ Undrawn(jobs, drawn)
    BY <1>4, <1>5
  <2>. HIDE DEF jobs, b
  <2>3. b \in Txns /\ b.seen = r /\ b.row = r /\ b.job = jobs /\ b.drawn = drawn
    BY <1>0, <1>2, <2>1, <2>2 DEF Txns
  <2>4. r.run <= drawn
    BY <1>2 DEF Runs
  <2>. QED
    BY <2>2, <2>3, <2>4 DEF GoodTxn, jobs
<1>7. drawn + 4 <= MaxRuns
  BY DEF FinalizeWrite, RunsLeft
<1>. HIDE DEF b, u
<1>8. /\ GoodTxn(u) /\ u.drawn >= drawn /\ Links(r, u.row, u.job)
      /\ Adds(b.job, u.job)
  BY <1>3, <1>6, <1>7, AdvanceGood
<1>9. Links(row, u.row, u.job)
  BY <1>2, <1>8 DEF Links, Keeps
<1>10. \A k \in Jobs : job[k] # "none" => u.job[k] # "none"
  BY <1>4, <1>6, <1>8 DEF Adds
<1>11. u.row.phase[p] \in Done
  <2>1. b.seen = r /\ r.phase[p] \in Done
    BY <1>0, <1>1 DEF b, r, p, Txn, MarkCompleted, MarkBlocked, Rows, Done
  <2>. QED
    BY <2>1, <1>1, <1>3, <1>6, <1>7, AdvanceStays
<1>12. ASSUME Commit(u) PROVE Carries
  <2>1. \A k \in Jobs : k # held[w] /\ job[k] # "none" => job'[k] = job[k]
    BY <1>0, <1>6, <1>8, <1>12 DEF Commit, Adds
  <2>2. row'.phase[PhaseOf(held[w])] \in Done
    BY <1>11, <1>12 DEF Commit, p
  <2>3. ASSUME NEW k \in Jobs, job[k] \in Live
        PROVE  job'[k] \in Live \/ row'.phase[PhaseOf(k)] # "not_started"
    BY <2>1, <2>2, <2>3 DEF Live, Waiting, Done
  <2>. QED
    BY <2>3 DEF Carries
<1>13. Commit(u) \/ UNCHANGED <<row, job, drawn>>
  BY DEF FinalizeWrite, u
<1>14. /\ row' \in Rows /\ job' \in [Jobs -> JobStatus] /\ drawn' \in 1 .. MaxRuns
       /\ row'.run <= drawn' /\ Undrawn(job', drawn')
       /\ \A x \in Actors : seen[x] # NoRow => seen[x].run <= drawn'
       /\ \A x \in Workers : held[x] # NoJob => job'[held[x]] # "none"
       /\ \A S \in cancelling : \A j \in S : job'[j] # "none"
       /\ Links(row, row', job')
  <2>1. CASE Commit(u)
    BY <2>1, <1>8, <1>9, <1>10, CommitsWell DEF Commit
  <2>2. CASE UNCHANGED <<row, job, drawn>>
    BY <2>2, <1>0 DEF Runs, Shape, Links
  <2>. QED
    BY <2>1, <2>2, <1>13
<1>15. TypeOK'
  BY <1>0, <1>14 DEF FinalizeWrite, Overtake, Event, Leave, Goto, TypeOK, Control
<1>16. Shape'
  BY <1>0, <1>1, <1>14 DEF FinalizeWrite, Leave, Goto, Shape, TypeOK
<1>17. Runs'
  BY <1>14 DEF FinalizeWrite, Runs
<1>18. Carries
  BY <1>13, <1>12 DEF Carries
<1>. QED
  BY <1>14, <1>15, <1>16, <1>17, <1>18 DEF Links

\* resumeOnboarding retries the first failed phase, or just resets the status.
LEMMA ResumeWriteSafe ==
  ASSUME OnboardingAssumption, Well, NEW c \in Clients, ResumeWrite(c)
  PROVE  Safe /\ Carries
<1>. USE DEF Safe, Well, db, open, Actors
<1>0. /\ row \in Rows /\ job \in [Jobs -> JobStatus] /\ owner \in [Jobs -> Workers \cup {NoWorker}]
      /\ tries \in [Jobs -> Nat] /\ drawn \in 1 .. MaxRuns /\ pc \in [Actors -> Control]
      /\ held \in [Workers -> Jobs \cup {NoJob}] /\ seen \in [Actors -> Rows \cup {NoRow}]
      /\ found \in [Actors -> SUBSET Jobs] /\ cancelling \subseteq SUBSET Jobs
      /\ overtaken \subseteq Actors
      /\ events \in 0 .. MaxEvents /\ MaxEvents \in Nat /\ MaxRuns \in Nat
      /\ NoJob \notin Jobs /\ NoRow \notin Rows
  BY DEF TypeOK, OnboardingAssumption
<1>. DEFINE failed == FailedPhases(seen[c])
            p == CHOOSE q \in failed : \A x \in failed : q <= x
            r == Relaunch(row, p, drawn + 1)
            b == Txn(r, r, job, drawn + 1)
            u == Retry(p)
<1>1. drawn + 4 <= MaxRuns
  BY DEF ResumeWrite, RunsLeft
<1>2. ASSUME failed # {}
      PROVE  /\ GoodTxn(u) /\ u.drawn >= drawn /\ Links(row, u.row, u.job)
             /\ Adds(job, u.job)
  <2>1. failed \in SUBSET Phases
    BY DEF FailedPhases
  <2>. HIDE DEF failed
  <2>2. p \in Phases
    BY <1>2, <2>1, FirstPhase
  <2>3. u = EnqueueAndLink(b, p)
    BY DEF Retry
  <2>. HIDE DEF p, u
  <2>0. drawn + 1 \in 1 .. MaxRuns
    BY <1>0, <1>1
  <2>4. r \in Rows /\ r.run = drawn + 1 /\ Keeps(row, r)
    BY <1>0, <2>0, <2>2, RowUpdates
  <2>. HIDE DEF r
  <2>5. b = [seen |-> r, row |-> r, job |-> job, drawn |-> drawn + 1, ok |-> TRUE]
    BY DEF Txn
  <2>. HIDE DEF b
  <2>6. Undrawn(job, drawn + 1)
    BY <1>0 DEF Runs, Undrawn, Jobs
  <2>7. GoodTxn(b) /\ b.drawn = drawn + 1 /\ b.row = r /\ b.job = job
    BY <1>0, <1>1, <2>4, <2>5, <2>6 DEF GoodTxn, Txns
  <2>8. /\ GoodTxn(u) /\ u.drawn >= drawn + 1 /\ Links(r, u.row, u.job)
        /\ Adds(job, u.job)
    BY <1>0, <1>1, <2>2, <2>3, <2>7, EnqueueGood
  <2>9. u.drawn >= drawn
    BY <1>0, <2>8 DEF GoodTxn, Txns
  <2>. QED
    BY <2>4, <2>8, <2>9 DEF Links, Keeps
<1>3. \/ failed # {} /\ Commit(u)
      \/ row' = [row EXCEPT !.status = "not_started"] /\ UNCHANGED <<job, drawn>>
      \/ UNCHANGED <<row, job, drawn>>
  BY DEF ResumeWrite
<1>. HIDE DEF failed, u
<1>4. /\ row' \in Rows /\ job' \in [Jobs -> JobStatus] /\ drawn' \in 1 .. MaxRuns
      /\ row'.run <= drawn' /\ Undrawn(job', drawn')
      /\ \A x \in Actors : seen[x] # NoRow => seen[x].run <= drawn'
      /\ \A w \in Workers : held[w] # NoJob => job'[held[w]] # "none"
      /\ \A S \in cancelling : \A j \in S : job'[j] # "none"
      /\ Links(row, row', job') /\ Adds(job, job')
  <2>1. CASE failed # {} /\ Commit(u)
    BY <2>1, <1>2, CommitsWell DEF Commit, Adds
  <2>2. CASE row' = [row EXCEPT !.status = "not_started"] /\ UNCHANGED <<job, drawn>>
    <3>1. row' \in Rows /\ row'.run = row.run /\ row'.link = row.link
      BY <2>2, <1>0 DEF Rows
    <3>. QED
      BY <3>1, <2>2, <1>0 DEF Runs, Shape, Links, Adds
  <2>3. CASE UNCHANGED <<row, job, drawn>>
    BY <2>3, <1>0 DEF Runs, Shape, Links, Adds
  <2>. QED
    BY <2>1, <2>2, <2>3, <1>3
<1>5. TypeOK'
  BY <1>0, <1>4 DEF ResumeWrite, Overtake, Forget, Goto, TypeOK, Control
<1>6. Shape'
  BY <1>0, <1>4 DEF ResumeWrite, Forget, Goto, Shape, TypeOK
<1>7. Runs'
  BY <1>0, <1>4 DEF ResumeWrite, Forget, Goto, Runs
<1>. QED
  BY <1>4, <1>5, <1>6, <1>7 DEF Links, Adds, Carries, Live, Waiting

-----------------------------------------------------------------------------
(* What an advance found                                                   *)

\* No job is cancelled and no phase started over.
Spares ==
  /\ \A j \in Jobs : job'[j] = "cancelled" => job[j] = "cancelled"
  /\ \A p \in Phases : row'.phase[p] = "not_started" => row.phase[p] = "not_started"

\* An advance about to link keeps what it found.
Waits ==
  \A a \in Actors :
    pc'[a] = "linking" =>
      /\ pc[a] = "linking" /\ found'[a] = found[a] /\ seen'[a] = seen[a]
      /\ a \in overtaken => a \in overtaken'

LEMMA FoundsKept ==
  ASSUME TypeOK, Founds, Carries, Waits, Spares \/ Overtake
  PROVE  Founds'
<1>. SUFFICES ASSUME NEW a \in Actors, pc'[a] = "linking", NEW j \in found'[a]
              PROVE  /\ j = <<NextPhase(seen'[a]), seen'[a].run>>
                     /\ \/ a \in overtaken'
                        \/ job'[j] \in Live
                        \/ row'.phase[PhaseOf(j)] # "not_started"
  BY DEF Founds
<1>1. /\ pc[a] = "linking" /\ found'[a] = found[a] /\ seen'[a] = seen[a]
      /\ a \in overtaken => a \in overtaken'
  BY DEF Waits
<1>2. j \in Jobs /\ PhaseOf(j) \in Phases
  BY <1>1 DEF TypeOK, PhaseOf, Jobs
<1>3. /\ j = <<NextPhase(seen[a]), seen[a].run>>
      /\ a \in overtaken \/ job[j] \in Live \/ row.phase[PhaseOf(j)] # "not_started"
  BY <1>1 DEF Founds
<1>4. CASE Spares
  BY <1>1, <1>2, <1>3, <1>4 DEF Carries, Spares, Live, Waiting
<1>5. CASE Overtake
  BY <1>1, <1>2, <1>3, <1>5 DEF Carries, Overtake
<1>. QED
  BY <1>4, <1>5

\* Every step keeps what advances rely on.
LEMMA FoundsSteps ==
  ASSUME OnboardingAssumption, IInv, Next
  PROVE  Founds'
<1>. USE DEF IInv, Well, db, open, Actors
<1>0. /\ row \in Rows /\ job \in [Jobs -> JobStatus] /\ pc \in [Actors -> Control]
      /\ held \in [Workers -> Jobs \cup {NoJob}] /\ seen \in [Actors -> Rows \cup {NoRow}]
      /\ found \in [Actors -> SUBSET Jobs] /\ TypeOK /\ Founds /\ OnboardingAssumption
  BY DEF TypeOK
<1>. DEFINE Ok == Carries /\ Waits /\ (Spares \/ Overtake)
<1>1. ASSUME NEW a \in Actors, AdvanceOnboarding(a) PROVE Ok \/ Founds'
  <2>1. CASE AdvanceRead(a) \/ AdvanceCheck(a)
    BY <1>0, <2>1 DEF AdvanceRead, AdvanceCheck, Read, Goto, Carries, Waits, Spares
  <2>2. CASE AdvanceFind(a)
    <3>. DEFINE j == <<NextPhase(seen[a]), seen[a].run>>
    <3>1. /\ job[j] \notin Terminal /\ UNCHANGED <<db, seen, overtaken>>
          /\ found' = [found EXCEPT ![a] = IF job[j] = "none" THEN {} ELSE {j}]
          /\ Goto(a, "linking")
      BY <2>2 DEF AdvanceFind, Ended, Begin, Txn
    <3>2. j \in Jobs
      <4>1. seen[a] \in Rows /\ NextPhase(seen[a]) \in Phases
        BY <1>0, <2>2, NextIsPhase DEF AdvanceFind, Shape
      <4>. QED
        BY <4>1 DEF Rows, Jobs
    <3>. HIDE DEF j
    <3>3. job[j] # "none" => job[j] \in Live
      BY <1>0, <3>1, <3>2 DEF JobStatus, Live
    <3>4. ASSUME NEW k \in found'[a]
          PROVE  k = <<NextPhase(seen'[a]), seen'[a].run>> /\ job'[k] \in Live
      BY <1>0, <3>1, <3>3, <3>4 DEF j
    <3>5. \A x \in Actors \ {a} : pc'[x] = pc[x] /\ found'[x] = found[x]
      BY <1>0, <3>1 DEF Goto
    <3>. QED
      BY <1>0, <3>1, <3>4, <3>5 DEF Founds
  <2>3. CASE AdvanceWrite(a)
    <3>1. Carries
      BY <2>3, <1>0, AdvanceWriteSafe
    <3>2. Waits
      BY <1>0, <2>3 DEF AdvanceWrite, Overtake, Forget, Goto, Waits
    <3>. QED
      BY <2>3, <3>1, <3>2 DEF AdvanceWrite
  <2>4. CASE AdvanceRenew(a)
    <3>1. Carries
      BY <2>4, <1>0, AdvanceRenewSafe
    <3>2. Waits
      BY <1>0, <2>4 DEF AdvanceRenew, Overtake, Forget, Goto, Waits
    <3>. QED
      BY <2>4, <3>1, <3>2 DEF AdvanceRenew
  <2>5. CASE AdvanceLink(a)
    <3>1. Carries
      BY <2>5, <1>0, AdvanceLinkSafe
    <3>2. Waits
      BY <1>0, <2>5 DEF AdvanceLink, Forget, Goto, Waits
    <3>3. Spares
      <4>1. \A p \in Phases, j \in Jobs : \A q \in Phases :
              Link(row, p, j).phase[q] = IF q = p THEN "queued" ELSE row.phase[q]
        BY <1>0 DEF Link, Rows
      <4>2. NextPhase(seen[a]) \in Phases /\ <<NextPhase(seen[a]), seen[a].run>> \in Jobs
        <5>1. seen[a] \in Rows /\ NextPhase(seen[a]) \in Phases
          BY <1>0, <2>5, NextIsPhase DEF AdvanceLink, Shape
        <5>. QED
          BY <5>1 DEF Rows, Jobs
      <4>. DEFINE p == NextPhase(seen[a])
                  j == <<p, seen[a].run>>
      <4>3. /\ row' = row \/ row' = Link(row, p, j)
            /\ job' = job \/ job' = [job EXCEPT ![j] = IF found[a] = {} THEN "queued" ELSE @]
        BY <2>5 DEF AdvanceLink
      <4>. HIDE DEF p, j
      <4>. QED
        BY <1>0, <4>1, <4>2, <4>3 DEF Spares, p, j
    <3>. QED
      BY <3>1, <3>2, <3>3
  <2>. QED
    BY <1>1, <2>1, <2>2, <2>3, <2>4, <2>5 DEF AdvanceOnboarding
<1>2. ASSUME NEW w \in Workers, ExecuteJob(w) PROVE Ok
  <2>1. Waits
    BY <1>0, <1>2 DEF ExecuteJob, Claim, StartRead, StartWrite, FinalizeRead, FinalizeWrite,
         HandlerThrows, FailRead, FailWrite, OwnershipConflict, Overtake, Read, Forget, Leave,
         Goto, Waits
  <2>2. CASE FinalizeWrite(w)
    <3>1. Carries
      BY <2>2, <1>0, FinalizeWriteSafe
    <3>. QED
      BY <2>1, <2>2, <3>1 DEF FinalizeWrite
  <2>3. CASE FailWrite(w)
    <3>1. held[w] \in Jobs /\ PhaseOf(held[w]) \in Phases
      BY <1>0, <2>3 DEF FailWrite, Shape, PhaseOf, Jobs
    <3>. DEFINE p == PhaseOf(held[w])
    <3>2. \/ row' = row /\ job' = [job EXCEPT ![held[w]] = "retrying"]
          \/ row' = MarkFailed(row, p) /\ job' = [job EXCEPT ![held[w]] = "dead_letter"]
      BY <2>3 DEF FailWrite, SetJob
    <3>3. \A q \in Phases : MarkFailed(row, p).phase[q] = IF q = p THEN "failed" ELSE row.phase[q]
      BY <1>0, <3>1 DEF MarkFailed, Rows
    <3>4. Carries /\ Spares
      BY <1>0, <3>1, <3>2, <3>3 DEF Carries, Spares, Live, Waiting
    <3>. QED
      BY <2>1, <3>4
  <2>4. CASE Claim(w) \/ HandlerThrows(w) \/ FinalizeRead(w) \/ FailRead(w) \/ StartRead(w)
    BY <1>0, <2>1, <2>4 DEF Claim, HandlerThrows, FinalizeRead, FailRead, StartRead, SetJob,
         Carries, Spares, Live, Waiting
  <2>5. CASE StartWrite(w) \/ OwnershipConflict(w)
    <3>1. job' = job /\ \A q \in Phases : row'.phase[q] \in {row.phase[q], "running"}
      <4>1. \A p \in Phases, j \in Jobs \cup {NoJob} : \A q \in Phases :
              [row EXCEPT !.status = "running", !.current = j,
                          !.phase[p] = "running"].phase[q] \in {row.phase[q], "running"}
        BY <1>0 DEF Rows
      <4>2. CASE StartWrite(w)
        <5>1. seen[w] \in Rows /\ PhaseOf(held[w]) \in Phases
          BY <1>0, <4>2 DEF StartWrite, Shape, PhaseOf, Jobs
        <5>2. seen[w].current \in Jobs \cup {NoJob}
          BY <5>1 DEF Rows
        <5>. QED
          BY <4>1, <4>2, <5>1, <5>2 DEF StartWrite
      <4>3. CASE OwnershipConflict(w)
        BY <1>0, <4>3 DEF OwnershipConflict, Rows
      <4>. QED
        BY <2>5, <4>2, <4>3
    <3>. QED
      BY <2>1, <3>1 DEF Carries, Spares
  <2>. QED
    BY <1>2, <2>2, <2>3, <2>4, <2>5 DEF ExecuteJob
<1>3. ASSUME NEW w \in Workers, Prepare(w) PROVE Ok
  <2>1. Waits
    BY <1>0, <1>3 DEF Prepare, RepairRead, RepairWrite, ReconcileRead, ReconcileWrite,
         Overtake, Read, Forget, Goto, Waits
  <2>2. Carries
    BY <1>0, <1>3 DEF Prepare, RepairRead, RepairWrite, ReconcileRead, ReconcileWrite, Carries
  <2>3. Spares \/ Overtake
    <3>1. CASE RepairWrite(w)
      BY <3>1 DEF RepairWrite
    <3>2. CASE RepairRead(w) \/ ReconcileRead(w) \/ ReconcileWrite(w)
      <4>1. /\ job' = job
            /\ \A q \in Phases : row'.phase[q] \in {row.phase[q], "completed", "failed"}
        <5>1. \A p \in Phases : \A q \in Phases :
                /\ MarkCompleted(row, p).phase[q] \in {row.phase[q], "completed"}
                /\ MarkFailed(row, p).phase[q] \in {row.phase[q], "failed"}
          BY <1>0 DEF MarkCompleted, MarkFailed, Rows
        <5>2. CASE ReconcileWrite(w)
          <6>1. PhaseOf(seen[w].current) \in Phases
            BY <1>0, <5>2 DEF ReconcileWrite, Shape, Rows, PhaseOf, Jobs
          <6>. QED
            BY <5>1, <5>2, <6>1 DEF ReconcileWrite
        <5>3. CASE RepairRead(w) \/ ReconcileRead(w)
          BY <1>0, <5>3 DEF RepairRead, ReconcileRead
        <5>. QED
          BY <3>2, <5>2, <5>3
      <4>. QED
        BY <4>1 DEF Spares
    <3>. QED
      BY <1>3, <3>1, <3>2 DEF Prepare
  <2>. QED
    BY <2>1, <2>2, <2>3
<1>4. ASSUME NEW w \in Workers, Crash(w) PROVE Ok
  BY <1>0, <1>4 DEF Crash, Forget, Leave, Goto, Carries, Waits, Spares
<1>5. ASSUME NEW j \in Jobs, Release(j) PROVE Ok
  BY <1>0, <1>5 DEF Release, SetJob, Carries, Waits, Spares, Live, Waiting
<1>6. ASSUME NEW p \in Phases, Backfill(p) PROVE Ok
  BY <1>0, <1>6 DEF Backfill, SetJob, Carries, Waits, Spares, Live, Waiting
<1>7. ASSUME NEW c \in Clients, Request(c) PROVE Ok
  <2>1. Waits
    BY <1>0, <1>7 DEF Request, Authenticate, BlockOrders, ResumeRead, ResumeWrite, Overtake,
         Read, Forget, Goto, Waits
  <2>2. CASE ResumeWrite(c)
    <3>1. Carries
      BY <2>2, <1>0, ResumeWriteSafe
    <3>. QED
      BY <2>1, <2>2, <3>1 DEF ResumeWrite
  <2>3. CASE Authenticate(c) \/ ResumeRead(c)
    BY <1>0, <2>1, <2>3 DEF Authenticate, ResumeRead, Carries, Spares
  <2>4. CASE BlockOrders(c)
    BY <1>0, <2>1, <2>4 DEF BlockOrders, MarkBlocked, Carries, Spares, Rows
  <2>. QED
    BY <1>7, <2>2, <2>3, <2>4 DEF Request
<1>8. ASSUME UninstallCancel PROVE Ok
  <2>1. UNCHANGED <<db, pc, seen, found, overtaken>>
    BY <1>8 DEF UninstallCancel
  <2>. QED
    BY <2>1 DEF Carries, Waits, Spares
<1>9. ASSUME NEW S \in cancelling, UninstallReset(S) PROVE Ok
  BY <1>0, <1>9 DEF UninstallReset, Overtake, Carries, Waits
<1>10. Ok => Founds'
  BY <1>0, FoundsKept
<1>. QED
  BY <1>1, <1>2, <1>3, <1>4, <1>5, <1>6, <1>7, <1>8, <1>9, <1>10 DEF Next

-----------------------------------------------------------------------------
(* The theorems                                                            *)

\* Every step keeps the invariant and links safely.
LEMMA StepsSafely ==
  ASSUME OnboardingAssumption, IInv, [Next]_vars
  PROVE  Safe /\ Founds'
<1>. USE DEF IInv
<1>1. CASE UNCHANGED vars
  <2>1. /\ UNCHANGED <<row, job, owner, tries, drawn, pc, held, seen>>
        /\ UNCHANGED <<found, cancelling, overtaken, events>>
    BY <1>1 DEF vars, db, open
  <2>2. TypeOK' /\ Shape' /\ Runs'
    BY <2>1 DEF Well, TypeOK, Shape, Runs, Undrawn
  <2>3. Founds'
    BY <2>1 DEF Founds
  <2>. QED
    BY <2>1, <2>2, <2>3 DEF Safe, Well
<1>2. ASSUME Quiet PROVE Safe
  BY <1>2, QuietSafe
<1>3. ASSUME NEW a \in Actors, AdvanceOnboarding(a) PROVE Safe \/ Quiet
  BY <1>3, AdvanceWriteSafe, AdvanceRenewSafe, AdvanceLinkSafe DEF AdvanceOnboarding, Quiet
<1>4. ASSUME NEW w \in Workers, ExecuteJob(w) PROVE Safe \/ Quiet
  BY <1>4, StartWriteSafe, FinalizeWriteSafe, FailWriteSafe, OwnershipConflictSafe
     DEF ExecuteJob, Quiet
<1>5. ASSUME NEW w \in Workers, Prepare(w) PROVE Safe \/ Quiet
  BY <1>5, RepairWriteSafe, ReconcileWriteSafe DEF Prepare, Quiet
<1>6. ASSUME NEW c \in Clients, Request(c) PROVE Safe \/ Quiet
  BY <1>6, BlockOrdersSafe, ResumeWriteSafe DEF Request, Quiet
<1>7. ASSUME NEW S \in cancelling, UninstallReset(S) PROVE Safe
  BY <1>7, UninstallResetSafe
<1>8. CASE Next
  BY <1>2, <1>3, <1>4, <1>5, <1>6, <1>7, <1>8, FoundsSteps DEF Next, Quiet
<1>. QED
  BY <1>1, <1>8

\* The invariant holds in every reachable state.
THEOREM OnboardingInvariant == Spec => []IInv
<1>1. Init => IInv
  BY OnboardingAssumption, StartsWell
<1>2. IInv /\ [Next]_vars => IInv'
  BY OnboardingAssumption, StepsSafely DEF Safe, IInv
<1>. QED
  BY <1>1, <1>2, PTL DEF Spec

\* Every reachable state of the onboarding is well typed.
THEOREM OnboardingTypeCorrect == Spec => []TypeOK
<1>1. IInv => TypeOK
  BY DEF IInv, Well
<1>. QED
  BY <1>1, OnboardingInvariant, PTL

\* A phase is linked to a job that has ended only by an advance whose job was
\* cancelled, or whose phase was started over, after it looked the job up: no
\* other stale row or uninstall makes the onboarding wait for nothing.
THEOREM LinksAreLive == Spec => LinkedJobIsLive
<1>1. ASSUME IInv, [Next]_vars
      PROVE  [\A p \in Phases :
                row'.link[p] \notin {row.link[p], NoJob} =>
                  \/ job'[row'.link[p]] \in Live
                  \/ \E a \in overtaken : pc[a] = "linking" /\ pc'[a] = "idle"]_vars
  BY <1>1, OnboardingAssumption, StepsSafely DEF Safe
<1>. QED
  BY <1>1, OnboardingInvariant, PTL DEF Spec, LinkedJobIsLive

\* A phase is queued only when all earlier phases are done, in the row as it
\* is committed and not only in the row that was read.
THEOREM QueuesInOrder == Spec => QueuedInOrder
<1>1. ASSUME IInv, [Next]_vars
      PROVE  [\A p, q \in Phases : row'.link[p] \notin {row.link[p], NoJob} /\ q < p =>
                                    row'.phase[q] \in Done]_vars
  BY <1>1, OnboardingAssumption, StepsSafely DEF Safe
<1>. QED
  BY <1>1, OnboardingInvariant, PTL DEF Spec, QueuedInOrder

-----------------------------------------------------------------------------
(* One live job                                                            *)

\* The setting: no job is lost, and a resume does not begin beside a request.
Calm == Kinds \subseteq {"crash", "auth", "quiet resume", "throw"}

\* The phases of a row are done in order; it has failed where one of them has, and
\* has completed only behind all of them.
InOrder(r) ==
  /\ ~r.pending
  /\ \A p, q \in Phases : q < p /\ r.phase[p] # "not_started" => r.phase[q] \in Done
  /\ r.status = "failed" <=> \E p \in Phases : r.phase[p] = "failed"
  /\ r.status = "completed" => \A p \in Phases : r.phase[p] \in Done

\* A live job is the one its phase is linked to, and an open phase has one.
Agrees(r, jobs) ==
  /\ InOrder(r)
  /\ \A p \in Phases : r.phase[p] \in Open => r.link[p] # NoJob /\ jobs[r.link[p]] \in Live
  /\ \A j \in Jobs : jobs[j] \in Live => r.link[j[1]] = j /\ r.phase[j[1]] \in Open
  /\ \A p \in Phases : r.link[p] # NoJob => jobs[r.link[p]] # "none"
  /\ r.current # NoJob => jobs[r.current] \in Live

\* What still holds of a row s that was read before: what was done is done, and
\* what was open is open with the same job, or has ended as the job has.
Known(s, r, jobs) ==
  /\ InOrder(s)
  /\ \A p \in Phases : s.phase[p] \in Done => r.phase[p] \in Done
  /\ \A p \in Phases :
       s.phase[p] \in Open =>
         /\ s.link[p] # NoJob
         /\ \/ jobs[s.link[p]] \in Live /\ r.phase[p] \in Open /\ r.link[p] = s.link[p]
            \/ jobs[s.link[p]] = "completed" /\ r.phase[p] \in Done
            \/ jobs[s.link[p]] = "dead_letter" /\ r.phase[p] = "failed"

\* The changes of row and jobs, from r and jobs to s and after, that a reader
\* survives.
Moves(r, jobs, s, after) ==
  /\ \A p \in Phases : r.phase[p] \in Done => s.phase[p] \in Done
  /\ \A p \in Phases : r.phase[p] = "failed" => s.phase[p] = "failed"
  /\ \A p \in Phases :
       r.phase[p] \in Open /\ r.link[p] # NoJob /\ jobs[r.link[p]] \in Live =>
         \/ after[r.link[p]] \in Live /\ s.phase[p] \in Open /\ s.link[p] = r.link[p]
         \/ after[r.link[p]] = "completed" /\ s.phase[p] \in Done
         \/ after[r.link[p]] = "dead_letter" /\ s.phase[p] = "failed"
  /\ \A j \in Jobs : jobs[j] \in {"completed", "dead_letter"} => after[j] = jobs[j]

\* A change that does no phase and fails none.
Same(r, s) ==
  /\ \A p \in Phases : s.phase[p] \in Done <=> r.phase[p] \in Done
  /\ s.status = "failed" <=> r.status = "failed"
  /\ r.status = "completed" => s.status = "completed"

\* A step does the open phase, fails it, retries one that has failed, or none of
\* these: the steps of the pipeline.
RowStep(r, s) ==
  \/ Same(r, s)
  \/ \E p \in Phases :
       /\ r.phase[p] \in Open /\ s.status # "failed"
       /\ \A q \in Phases : s.phase[q] \in Done <=> r.phase[q] \in Done \/ q = p
  \/ \E p \in Phases :
       /\ r.phase[p] \in Open /\ s.status = "failed"
       /\ \A q \in Phases : s.phase[q] \in Done <=> r.phase[q] \in Done
  \/ /\ r.status = "failed" /\ s.status \notin {"failed", "completed"}
     /\ \A q \in Phases : s.phase[q] \in Done <=> r.phase[q] \in Done

Busy == {"claimed", "starting", "working", "completing", "blocking", "failing", "failed"}

\* A worker owns the job it executes.
WorkersOwn ==
  \A w \in Workers :
    /\ pc[w] \in Busy \cup {"idle"}
    /\ pc[w] \in Busy => owner[held[w]] = w /\ job[held[w]] = "running"
    /\ pc[w] = "starting" => seen[w].current = held[w]

\* What an advance knows of the row it has read, and of the job it has found: its
\* phase has been started.
RequestsKnow ==
  \A c \in Clients :
    /\ pc[c] \in {"idle", "advance", "advancing", "looking", "linking", "resuming"}
    /\ pc[c] = "advancing" => Known(seen[c], row, job)
    /\ pc[c] = "linking" => \A j \in found[c] : row.phase[PhaseOf(j)] # "not_started"

\* Nothing changes a failed onboarding while it is about to be resumed.
ResumesKnow ==
  \A c \in Clients :
    pc[c] = "resuming" /\ seen[c].status = "failed" =>
      /\ row = seen[c]
      /\ \A d \in Clients : /\ pc[d] \notin {"looking", "linking"}
                            /\ pc[d] = "advancing" => seen[d] = seen[c]
                            /\ pc[d] = "resuming" => d = c

CalmInv == Agrees(row, job) /\ WorkersOwn /\ RequestsKnow /\ ResumesKnow

LEMMA KnownSelf == ASSUME NEW r, NEW jobs, Agrees(r, jobs) PROVE Known(r, r, jobs)
BY DEF Agrees, Known

LEMMA KnownMoves ==
  ASSUME NEW s \in Rows, NEW r, NEW jobs, NEW r2, NEW jobs2, NoJob \notin Jobs,
         Known(s, r, jobs), Moves(r, jobs, r2, jobs2)
  PROVE  Known(s, r2, jobs2)
<1>1. \A p \in Phases : s.link[p] \in Jobs \cup {NoJob}
  BY DEF Rows
<1>2. \A p \in Phases : s.phase[p] \in Done => r2.phase[p] \in Done
  BY DEF Known, Moves
<1>3. ASSUME NEW p \in Phases, s.phase[p] \in Open
      PROVE  /\ s.link[p] # NoJob
             /\ \/ jobs2[s.link[p]] \in Live /\ r2.phase[p] \in Open
                   /\ r2.link[p] = s.link[p]
                \/ jobs2[s.link[p]] = "completed" /\ r2.phase[p] \in Done
                \/ jobs2[s.link[p]] = "dead_letter" /\ r2.phase[p] = "failed"
  BY <1>1, <1>3 DEF Known, Moves
<1>. QED
  BY <1>2, <1>3 DEF Known

\* A phase that was started is not started over.
LEMMA MovesOn ==
  ASSUME NEW r \in Rows, NEW jobs, NEW s, NEW after, Agrees(r, jobs), Moves(r, jobs, s, after),
         NEW p \in Phases, r.phase[p] # "not_started"
  PROVE  s.phase[p] # "not_started"
<1>1. r.phase[p] \in Open \cup Done \cup {"failed"}
  BY DEF Rows, PhaseStatus
<1>2. CASE r.phase[p] \in Open
  BY <1>2 DEF Agrees, Moves, Open, Done
<1>3. CASE r.phase[p] \in Done \cup {"failed"}
  BY <1>3 DEF Moves, Done
<1>. QED
  BY <1>1, <1>2, <1>3

LEMMA MovesTwice ==
  ASSUME NEW r1 \in Rows, NEW j1, NEW r2, NEW j2, NEW r3, NEW j3, NoJob \notin Jobs,
         Moves(r1, j1, r2, j2), Moves(r2, j2, r3, j3)
  PROVE  Moves(r1, j1, r3, j3)
<1>1. \A p \in Phases : r1.link[p] \in Jobs \cup {NoJob}
  BY DEF Rows
<1>2. /\ \A p \in Phases : r1.phase[p] \in Done => r3.phase[p] \in Done
      /\ \A p \in Phases : r1.phase[p] = "failed" => r3.phase[p] = "failed"
      /\ \A j \in Jobs : j1[j] \in {"completed", "dead_letter"} => j3[j] = j1[j]
  BY DEF Moves
<1>3. ASSUME NEW p \in Phases, r1.phase[p] \in Open, r1.link[p] # NoJob,
             j1[r1.link[p]] \in Live
      PROVE  \/ j3[r1.link[p]] \in Live /\ r3.phase[p] \in Open /\ r3.link[p] = r1.link[p]
             \/ j3[r1.link[p]] = "completed" /\ r3.phase[p] \in Done
             \/ j3[r1.link[p]] = "dead_letter" /\ r3.phase[p] = "failed"
  BY <1>1, <1>3 DEF Moves
<1>. QED
  BY <1>2, <1>3 DEF Moves

LEMMA MovesSelf == ASSUME NEW r, NEW jobs PROVE Moves(r, jobs, r, jobs)
BY DEF Moves

\* The updates of the row, field by field.
LEMMA Fields ==
  ASSUME NEW r \in Rows, NEW p \in Phases
  PROVE  /\ LET c == MarkCompleted(r, p) IN
            /\ \A q \in Phases : c.phase[q] = IF q = p THEN "completed" ELSE r.phase[q]
            /\ c.link = r.link /\ c.status = r.status
            /\ c.current = NoJob /\ c.pending = r.pending
         /\ LET c == MarkBlocked(r, p) IN
            /\ \A q \in Phases : c.phase[q] = IF q = p THEN "blocked" ELSE r.phase[q]
            /\ c.link = r.link /\ c.status = r.status
            /\ c.current = NoJob /\ c.pending = r.pending
         /\ LET c == MarkFailed(r, p) IN
            /\ \A q \in Phases : c.phase[q] = IF q = p THEN "failed" ELSE r.phase[q]
            /\ \A q \in Phases : c.link[q] = IF q = p THEN NoJob ELSE r.link[q]
            /\ c.status = "failed" /\ c.current = NoJob /\ c.pending = r.pending
         /\ \A n \in 1 .. MaxRuns : LET c == Relaunch(r, p, n) IN
            /\ \A q \in Phases : c.phase[q] = IF q = p THEN "not_started" ELSE r.phase[q]
            /\ \A q \in Phases : c.link[q] = IF q = p THEN NoJob ELSE r.link[q]
            /\ c.status = "running" /\ c.current = NoJob /\ c.pending = r.pending
         /\ \A j \in Jobs : LET c == Link(r, p, j) IN
            /\ \A q \in Phases : c.phase[q] = IF q = p THEN "queued" ELSE r.phase[q]
            /\ \A q \in Phases : c.link[q] = IF q = p THEN j ELSE r.link[q]
            /\ c.status = "running" /\ c.current = j /\ c.pending = r.pending
<1>1. LET c == MarkCompleted(r, p) IN
            /\ \A q \in Phases : c.phase[q] = IF q = p THEN "completed" ELSE r.phase[q]
            /\ c.link = r.link /\ c.status = r.status
            /\ c.current = NoJob /\ c.pending = r.pending
  BY DEF Rows, MarkCompleted
<1>2. LET c == MarkBlocked(r, p) IN
            /\ \A q \in Phases : c.phase[q] = IF q = p THEN "blocked" ELSE r.phase[q]
            /\ c.link = r.link /\ c.status = r.status
            /\ c.current = NoJob /\ c.pending = r.pending
  BY DEF Rows, MarkBlocked
<1>3. LET c == MarkFailed(r, p) IN
            /\ \A q \in Phases : c.phase[q] = IF q = p THEN "failed" ELSE r.phase[q]
            /\ \A q \in Phases : c.link[q] = IF q = p THEN NoJob ELSE r.link[q]
            /\ c.status = "failed" /\ c.current = NoJob /\ c.pending = r.pending
  BY DEF Rows, MarkFailed
<1>4. ASSUME NEW n \in 1 .. MaxRuns
      PROVE LET c == Relaunch(r, p, n) IN
            /\ \A q \in Phases : c.phase[q] = IF q = p THEN "not_started" ELSE r.phase[q]
            /\ \A q \in Phases : c.link[q] = IF q = p THEN NoJob ELSE r.link[q]
            /\ c.status = "running" /\ c.current = NoJob /\ c.pending = r.pending
  BY DEF Rows, Relaunch
<1>5. ASSUME NEW j \in Jobs
      PROVE LET c == Link(r, p, j) IN
            /\ \A q \in Phases : c.phase[q] = IF q = p THEN "queued" ELSE r.phase[q]
            /\ \A q \in Phases : c.link[q] = IF q = p THEN j ELSE r.link[q]
            /\ c.status = "running" /\ c.current = j /\ c.pending = r.pending
  BY DEF Rows, Link
<1>. QED
  BY <1>1, <1>2, <1>3, <1>4, <1>5

\* Marking done again what is done, or failed again what has failed, is harmless.
LEMMA MarkedAgain ==
  ASSUME NEW r \in Rows, NEW jobs, Agrees(r, jobs), NEW p \in Phases, NEW s,
         \/ r.phase[p] \in Done /\ s = MarkCompleted(r, p)
         \/ r.phase[p] = "failed" /\ s = MarkFailed(r, p)
  PROVE  Agrees(s, jobs) /\ Moves(r, jobs, s, jobs) /\ Same(r, s)
<1>. USE DEF Agrees, InOrder, Moves, Same, Done, Open
<1>0. \A j \in Jobs : j[1] \in Phases
  BY DEF Jobs
<1>1. CASE r.phase[p] \in Done /\ s = MarkCompleted(r, p)
  <2>1. /\ \A q \in Phases : s.phase[q] = IF q = p THEN "completed" ELSE r.phase[q]
        /\ s.link = r.link /\ s.status = r.status
        /\ s.current = NoJob /\ s.pending = r.pending
    BY <1>1, Fields
  <2>2. InOrder(s)
    BY <1>1, <2>1
  <2>. QED
    BY <1>0, <1>1, <2>1, <2>2
<1>2. CASE r.phase[p] = "failed" /\ s = MarkFailed(r, p)
  <2>1. /\ \A q \in Phases : s.phase[q] = r.phase[q]
        /\ \A q \in Phases : s.link[q] = IF q = p THEN NoJob ELSE r.link[q]
        /\ s.status = "failed" /\ s.current = NoJob /\ s.pending = r.pending
    BY <1>2, Fields
  <2>2. InOrder(s)
    BY <1>2, <2>1
  <2>. QED
    BY <1>0, <1>2, <2>1, <2>2
<1>. QED
  BY <1>1, <1>2

LEMMA RepairMoves ==
  ASSUME NoJob \notin Jobs, NEW t \in Txns, NEW p \in Phases,
         Agrees(t.row, t.job), Known(t.seen, t.row, t.job)
  PROVE  LET u == Repair(t, p) IN
         /\ u \in Txns /\ u.job = t.job /\ u.drawn = t.drawn /\ u.ok = t.ok
         /\ Agrees(u.row, u.job) /\ Known(u.seen, u.row, u.job)
         /\ Moves(t.row, t.job, u.row, u.job) /\ Same(t.row, u.row)
<1>. DEFINE u == Repair(t, p)
            j == t.seen.link[p]
<1>0. t.seen \in Rows /\ t.row \in Rows
  BY DEF Txns
<1>1. CASE u = t
  BY <1>1, MovesSelf DEF Same
<1>2. ASSUME NEW s, \/ t.row.phase[p] \in Done /\ s = MarkCompleted(t.row, p)
                    \/ t.row.phase[p] = "failed" /\ s = MarkFailed(t.row, p),
             u = Update(t, s)
      PROVE  /\ u \in Txns /\ u.job = t.job /\ u.drawn = t.drawn /\ u.ok = t.ok
             /\ Agrees(u.row, u.job) /\ Known(u.seen, u.row, u.job)
             /\ Moves(t.row, t.job, u.row, u.job) /\ Same(t.row, u.row)
  <2>1. s \in Rows
    BY <1>0, <1>2, RowUpdates
  <2>2. Agrees(s, t.job) /\ Moves(t.row, t.job, s, t.job) /\ Same(t.row, s)
    BY <1>0, <1>2, MarkedAgain
  <2>3. /\ u \in Txns /\ u.job = t.job /\ u.drawn = t.drawn /\ u.ok = t.ok
        /\ u.row = s /\ u.seen = s
    BY <1>2, <2>1 DEF Update, Txns
  <2>. QED
    BY <2>2, <2>3, KnownSelf
<1>3. ASSUME t.seen.phase[p] \in Open, j # NoJob, t.job[j] \in {"completed", "dead_letter"}
      PROVE  \/ t.row.phase[p] \in Done /\ u = Update(t, MarkCompleted(t.row, p))
             \/ t.row.phase[p] = "failed" /\ u = Update(t, MarkFailed(t.row, p))
  BY <1>3 DEF Repair, Known, Live, Waiting
<1>4. ASSUME t.seen.phase[p] \in Open, j # NoJob, t.job[j] \notin {"completed", "dead_letter"}
      PROVE  u = t
  BY <1>4 DEF Repair, Known, Live, Waiting
<1>5. ASSUME t.seen.phase[p] \notin Open \/ j = NoJob
      PROVE  u = t
  BY <1>5 DEF Repair
<1>. QED
  BY <1>1, <1>2, <1>3, <1>4, <1>5

\* The row and the jobs after enqueueAndLinkPhaseJob of job j, field by field.
EnqueuesAs(t, p, u, j) ==
  /\ j[1] = p /\ t.job[j] \notin Terminal
  /\ u.job = [t.job EXCEPT ![j] = IF @ = "none" THEN "queued" ELSE @]
  /\ u.row.pending = t.row.pending
  /\ MayLink(t.row, p) =>
       /\ \A q \in Phases :
            /\ u.row.phase[q] = IF q = p THEN "queued" ELSE t.row.phase[q]
            /\ u.row.link[q] = IF q = p THEN j ELSE t.row.link[q]
       /\ u.row.status = "running" /\ u.row.current = j
       /\ u.ok = t.ok
  /\ ~MayLink(t.row, p) =>
       /\ u.row.phase = t.row.phase /\ u.row.link = t.row.link
       /\ u.row.status = t.row.status /\ u.row.current = t.row.current
       /\ u.ok = (t.row.link[p] = j \/ t.row.current = j)

LEMMA EnqueueFields ==
  ASSUME OnboardingAssumption, NEW t, GoodTxn(t), NEW p \in Phases, t.drawn < MaxRuns,
         NEW u, u = EnqueueAndLink(t, p)
  PROVE  \E j \in Jobs : EnqueuesAs(t, p, u, j)
<1>. DEFINE run == RunFor(t, p)
            j == <<p, run>>
            e == Enqueued(t, p)
<1>0. /\ t \in Txns /\ t.seen \in Rows /\ t.row \in Rows /\ t.drawn \in 1 .. MaxRuns
      /\ MaxRuns \in Nat /\ t.job \in [Jobs -> JobStatus] /\ t.ok \in BOOLEAN
      /\ t.seen.run \in 1 .. MaxRuns
  BY DEF GoodTxn, Txns, OnboardingAssumption, Rows
<1>1. /\ run \in 1 .. MaxRuns
      /\ Ended(t, p) => run = t.drawn + 1
  BY <1>0 DEF RunFor, GoodTxn
<1>2. j \in Jobs /\ j[1] = p /\ j[2] = run
  BY <1>1 DEF Jobs
<1>3. t.job[j] \notin Terminal
  <2>1. CASE Ended(t, p)
    BY <2>1, <1>0, <1>1, <1>2 DEF GoodTxn, Undrawn, Terminal
  <2>2. CASE ~Ended(t, p)
    BY <2>2 DEF RunFor, Ended
  <2>. QED
    BY <2>1, <2>2
<1>4. /\ e.job = [t.job EXCEPT ![j] = IF @ = "none" THEN "queued" ELSE @]
      /\ e.row = IF Ended(t, p) THEN [t.row EXCEPT !.run = run] ELSE t.row
      /\ e.ok = t.ok
      /\ e = [seen |-> e.seen, row |-> e.row, job |-> e.job, drawn |-> e.drawn,
              ok |-> e.ok]
  <2>. DEFINE newRow == IF Ended(t, p) THEN [t.row EXCEPT !.run = run] ELSE t.row
              newDrawn == IF Ended(t, p) THEN run ELSE t.drawn
              newJob == [t.job EXCEPT ![j] = IF @ = "none" THEN "queued" ELSE @]
  <2>1. e = [[[t EXCEPT !.row = newRow] EXCEPT !.drawn = newDrawn] EXCEPT !.job = newJob]
    BY <1>0 DEF Enqueued, Txns
  <2>. HIDE DEF e, newRow, newDrawn, newJob
  <2>2. /\ e.job = newJob /\ e.row = newRow /\ e.ok = t.ok
        /\ e = [seen |-> e.seen, row |-> e.row, job |-> e.job, drawn |-> e.drawn,
                ok |-> e.ok]
    BY <2>1, <1>0 DEF Txns
  <2>. QED
    BY <2>2 DEF newRow, newJob
<1>. HIDE DEF e
<1>5. /\ e.row \in Rows /\ e.row.link = t.row.link /\ e.row.phase = t.row.phase
      /\ e.row.status = t.row.status /\ e.row.current = t.row.current
      /\ e.row.pending = t.row.pending
  <2>1. [t.row EXCEPT !.run = run] \in Rows
    BY <1>0, <1>1 DEF Rows
  <2>2. /\ [t.row EXCEPT !.run = run].link = t.row.link
        /\ [t.row EXCEPT !.run = run].phase = t.row.phase
        /\ [t.row EXCEPT !.run = run].status = t.row.status
        /\ [t.row EXCEPT !.run = run].current = t.row.current
        /\ [t.row EXCEPT !.run = run].pending = t.row.pending
    BY <1>0 DEF Rows
  <2>. QED
    BY <2>1, <2>2, <1>0, <1>4
<1>6. CASE MayLink(t.row, p)
  <2>. DEFINE l == Link(e.row, p, j)
  <2>1. u = [e EXCEPT !.row = l]
    BY <1>6 DEF EnqueueAndLink, e
  <2>2. /\ \A q \in Phases : /\ l.phase[q] = IF q = p THEN "queued" ELSE t.row.phase[q]
                             /\ l.link[q] = IF q = p THEN j ELSE t.row.link[q]
        /\ l.status = "running" /\ l.current = j /\ l.pending = t.row.pending
    BY <1>2, <1>5, Fields
  <2>. HIDE DEF l, j
  <2>3. u.row = l /\ u.job = e.job /\ u.ok = t.ok
    BY <2>1, <1>4
  <2>4. EnqueuesAs(t, p, u, j)
    BY <1>2, <1>3, <1>4, <1>6, <2>2, <2>3 DEF EnqueuesAs
  <2>. QED
    BY <1>2, <2>4
<1>7. CASE ~MayLink(t.row, p)
  <2>. DEFINE b == (t.row.link[p] = j \/ t.row.current = j)
  <2>1. u = [e EXCEPT !.ok = b]
    BY <1>7 DEF EnqueueAndLink, e
  <2>. HIDE DEF b, j
  <2>2. u.row = e.row /\ u.job = e.job /\ u.ok = b
    BY <2>1, <1>4
  <2>3. EnqueuesAs(t, p, u, j)
    BY <1>2, <1>3, <1>4, <1>5, <1>7, <2>2 DEF b, EnqueuesAs
  <2>. QED
    BY <1>2, <2>3
<1>. QED
  BY <1>6, <1>7

LEMMA EnqueuesMove ==
  ASSUME OnboardingAssumption, NEW t, GoodTxn(t), NEW p \in Phases, Agrees(t.row, t.job),
         NEW u, u.ok, NEW j \in Jobs, EnqueuesAs(t, p, u, j)
  PROVE  /\ Agrees(u.row, u.job) /\ Moves(t.row, t.job, u.row, u.job)
         /\ Adds(t.job, u.job) /\ Same(t.row, u.row)
<1>0. t.job \in [Jobs -> JobStatus] /\ t.row \in Rows /\ NoJob \notin Jobs
  BY DEF GoodTxn, Txns, OnboardingAssumption
<1>1. EnqueuesAs(t, p, u, j)
  OBVIOUS
<1>2. u.ok
  OBVIOUS
<1>3. Adds(t.job, u.job)
  BY <1>0, <1>1 DEF Adds, EnqueuesAs
<1>4. \A k \in Jobs : k[1] \in Phases
  BY DEF Jobs
<1>5. \A q \in Phases : t.row.link[q] \in Jobs \cup {NoJob}
  BY <1>0 DEF Rows
<1>6. CASE MayLink(t.row, p)
  <2>1. \A q \in Phases : /\ q < p => t.row.phase[q] \in Done
                          /\ q = p \/ p < q => t.row.phase[q] = "not_started"
    BY <1>6 DEF MayLink, Agrees, InOrder, Done
  <2>2. \A q \in Phases : q < p \/ q = p \/ p < q
    BY DEF Phases
  <2>3. \A q \in Phases : t.row.phase[q] \notin Open /\ t.row.phase[q] # "failed"
    BY <2>1, <2>2 DEF Done, Open
  <2>4. \A k \in Jobs : t.job[k] \notin Live
    BY <1>4, <2>3 DEF Agrees
  <2>5. t.job[j] = "none"
    BY <1>0, <1>1, <2>4 DEF JobStatus, Live, Waiting, Terminal, EnqueuesAs
  <2>6. /\ \A k \in Jobs : u.job[k] = IF k = j THEN "queued" ELSE t.job[k]
        /\ \A q \in Phases : /\ u.row.phase[q] = IF q = p THEN "queued" ELSE t.row.phase[q]
                             /\ u.row.link[q] = IF q = p THEN j ELSE t.row.link[q]
        /\ u.row.status = "running" /\ u.row.current = j /\ u.row.pending = t.row.pending
    BY <1>0, <1>1, <1>6, <2>5 DEF EnqueuesAs
  <2>7. InOrder(u.row)
    <3>1. ~u.row.pending
      BY <2>6 DEF Agrees, InOrder
    <3>2. \A q, x \in Phases : x < q /\ u.row.phase[q] # "not_started"
                                 => u.row.phase[x] \in Done
      <4>. SUFFICES ASSUME NEW q \in Phases, NEW x \in Phases, x < q,
                           u.row.phase[q] # "not_started"
                    PROVE  u.row.phase[x] \in Done
        OBVIOUS
      <4>1. q = p \/ q < p
        BY <2>1, <2>2, <2>6
      <4>2. x < p
        BY <4>1 DEF Phases
      <4>3. x # p
        BY <4>2 DEF Phases
      <4>. QED
        BY <2>1, <2>6, <4>2, <4>3
    <3>3. \A q \in Phases : u.row.phase[q] # "failed"
      BY <2>3, <2>6
    <3>. QED
      BY <2>6, <3>1, <3>2, <3>3 DEF InOrder
  <2>8. Agrees(u.row, u.job)
    <3>1. \A q \in Phases : u.row.phase[q] \in Open => q = p
      BY <2>3, <2>6
    <3>2. \A k \in Jobs : u.job[k] \in Live => k = j
      BY <2>4, <2>6
    <3>3. \A q \in Phases : u.row.link[q] # NoJob => u.job[u.row.link[q]] # "none"
      BY <1>5, <2>6 DEF Agrees
    <3>4. u.job[j] \in Live /\ u.row.phase[p] \in Open /\ j # NoJob
      BY <1>0, <2>6 DEF Live, Waiting, Open
    <3>. QED
      BY <1>1, <2>6, <2>7, <3>1, <3>2, <3>3, <3>4 DEF Agrees, EnqueuesAs
  <2>9. Moves(t.row, t.job, u.row, u.job)
    <3>1. \A q \in Phases : t.row.phase[q] \in Done => q # p
      BY <2>1 DEF Done
    <3>. QED
      BY <2>3, <2>5, <2>6, <3>1 DEF Moves
  <2>10. Same(t.row, u.row)
    <3>1. \A q \in Phases : u.row.phase[q] \in Done <=> t.row.phase[q] \in Done
      BY <2>1, <2>6 DEF Done
    <3>2. t.row.status # "failed" /\ t.row.status # "completed"
      BY <2>1, <2>3 DEF Agrees, InOrder, Done
    <3>. QED
      BY <2>6, <3>1, <3>2 DEF Same
  <2>. QED
    BY <1>3, <2>8, <2>9, <2>10
<1>7. CASE ~MayLink(t.row, p)
  <2>0. t.row.link[p] = j \/ t.row.current = j
    BY <1>1, <1>2, <1>7 DEF EnqueuesAs
  <2>1. t.job[j] # "none"
    BY <1>0, <2>0 DEF Agrees, Live, Waiting
  <2>2. u.job = t.job
    BY <1>0, <1>1, <2>1 DEF EnqueuesAs
  <2>3. /\ u.row.phase = t.row.phase /\ u.row.link = t.row.link
        /\ u.row.status = t.row.status /\ u.row.current = t.row.current
        /\ u.row.pending = t.row.pending
    BY <1>1, <1>7 DEF EnqueuesAs
  <2>. QED
    BY <1>3, <2>2, <2>3 DEF Agrees, InOrder, Moves, Same
<1>. QED
  BY <1>6, <1>7

LEMMA EnqueueMoves ==
  ASSUME OnboardingAssumption, NEW t, GoodTxn(t), NEW p \in Phases, t.drawn < MaxRuns,
         Agrees(t.row, t.job), NEW u, u = EnqueueAndLink(t, p), u.ok
  PROVE  /\ Agrees(u.row, u.job) /\ Moves(t.row, t.job, u.row, u.job)
         /\ Adds(t.job, u.job) /\ Same(t.row, u.row)
<1>1. PICK j \in Jobs : EnqueuesAs(t, p, u, j)
  BY EnqueueFields
<1>. QED
  BY <1>1, EnqueuesMove

LEMMA AdvanceMoves ==
  ASSUME OnboardingAssumption, NEW t, GoodTxn(t), t.drawn + 4 <= MaxRuns,
         Agrees(t.row, t.job), Known(t.seen, t.row, t.job), Advance(t).ok
  PROVE  LET u == Advance(t) IN
         /\ Agrees(u.row, u.job) /\ Moves(t.row, t.job, u.row, u.job)
         /\ Adds(t.job, u.job) /\ Same(t.row, u.row)
<1>. DEFINE t1 == Repair(t, 1)
            t2 == Repair(t1, 2)
            t3 == Repair(t2, 3)
            r == t3.seen
            done == [t3.row EXCEPT !.status = "completed", !.current = NoJob]
            next == NextPhase(r)
<1>0. /\ t.drawn \in Nat /\ MaxRuns \in Nat /\ 1 \in Phases /\ 2 \in Phases /\ 3 \in Phases
      /\ NoJob \notin Jobs /\ t \in Txns /\ t.row \in Rows
  BY DEF GoodTxn, Txns, OnboardingAssumption, Phases
<1>1. /\ t1 \in Txns /\ t1.job = t.job /\ t1.drawn = t.drawn
      /\ Agrees(t1.row, t1.job) /\ Known(t1.seen, t1.row, t1.job)
      /\ Moves(t.row, t.job, t1.row, t1.job) /\ GoodTxn(t1)
      /\ Same(t.row, t1.row)
  BY <1>0, RepairMoves, RepairGood
<1>. HIDE DEF t1
<1>2. /\ t2 \in Txns /\ t2.job = t.job /\ t2.drawn = t.drawn
      /\ Agrees(t2.row, t2.job) /\ Known(t2.seen, t2.row, t2.job)
      /\ Moves(t1.row, t1.job, t2.row, t2.job) /\ GoodTxn(t2)
      /\ Same(t1.row, t2.row)
  <2>1. /\ t2 \in Txns /\ t2.job = t1.job /\ t2.drawn = t1.drawn
        /\ Agrees(t2.row, t2.job) /\ Known(t2.seen, t2.row, t2.job)
        /\ Moves(t1.row, t1.job, t2.row, t2.job) /\ Same(t1.row, t2.row)
    BY <1>0, <1>1, RepairMoves
  <2>2. t1.drawn < MaxRuns
    BY <1>0, <1>1
  <2>3. GoodTxn(t2)
    BY <1>0, <1>1, <2>2, RepairGood
  <2>. QED
    BY <1>1, <2>1, <2>3
<1>. HIDE DEF t2
<1>3. /\ t3 \in Txns /\ t3.job = t.job /\ t3.drawn = t.drawn
      /\ Agrees(t3.row, t3.job) /\ Known(t3.seen, t3.row, t3.job)
      /\ Moves(t2.row, t2.job, t3.row, t3.job) /\ GoodTxn(t3)
      /\ Same(t2.row, t3.row)
  <2>1. /\ t3 \in Txns /\ t3.job = t2.job /\ t3.drawn = t2.drawn
        /\ Agrees(t3.row, t3.job) /\ Known(t3.seen, t3.row, t3.job)
        /\ Moves(t2.row, t2.job, t3.row, t3.job) /\ Same(t2.row, t3.row)
    BY <1>0, <1>2, RepairMoves
  <2>2. t2.drawn < MaxRuns
    BY <1>0, <1>2
  <2>3. GoodTxn(t3)
    BY <1>0, <1>2, <2>2, RepairGood
  <2>. QED
    BY <1>1, <1>2, <2>1, <2>3
<1>. HIDE DEF t3
<1>4. Moves(t.row, t.job, t3.row, t3.job) /\ t3.drawn < MaxRuns /\ Same(t.row, t3.row)
  <2>1. t1.row \in Rows /\ t2.row \in Rows /\ t3.row \in Rows
    BY <1>1, <1>2, <1>3 DEF Txns
  <2>2. Moves(t.row, t.job, t2.row, t2.job)
    BY <1>0, <1>1, <1>2, <2>1, MovesTwice
  <2>3. Moves(t.row, t.job, t3.row, t3.job)
    BY <1>0, <1>3, <2>1, <2>2, MovesTwice
  <2>4. Same(t.row, t3.row)
    BY <1>1, <1>2, <1>3 DEF Same
  <2>. QED
    BY <1>0, <1>3, <2>3, <2>4
<1>5. \/ Advance(t) = t3
      \/ (\A p \in Phases : r.phase[p] \in Done) /\ Advance(t) = Update(t3, done)
      \/ Enqueues(r) /\ Advance(t) = EnqueueAndLink(t3, next)
  BY DEF Advance, Repaired, t1, t2, t3
<1>6. CASE Advance(t) = t3
  BY <1>3, <1>4, <1>6 DEF Adds
<1>7. CASE (\A p \in Phases : r.phase[p] \in Done) /\ Advance(t) = Update(t3, done)
  <2>1. \A p \in Phases : t3.row.phase[p] \in Done
    BY <1>3, <1>7 DEF Known
  <2>2. /\ done.phase = t3.row.phase /\ done.link = t3.row.link
        /\ done.status = "completed" /\ done.current = NoJob
        /\ done.pending = t3.row.pending
    BY <1>3 DEF Txns, Rows
  <2>. HIDE DEF done
  <2>3. Advance(t).row = done /\ Advance(t).job = t3.job
    BY <1>3, <1>7 DEF Update, Txns
  <2>4. InOrder(done)
    BY <1>3, <2>1, <2>2 DEF Agrees, InOrder, Done
  <2>5. Agrees(done, t3.job)
    BY <1>3, <2>1, <2>2, <2>4 DEF Agrees
  <2>6. Moves(t3.row, t3.job, done, t3.job)
    BY <2>2 DEF Moves
  <2>7. Moves(t.row, t.job, done, t3.job)
    <3>1. Moves(t.row, t.job, t3.row, t3.job)
      BY <1>4
    <3>. QED
      BY <2>2, <3>1 DEF Moves
  <2>8. Same(t.row, done)
    <3>1. \A p \in Phases : t3.row.phase[p] # "failed"
      BY <2>1 DEF Done
    <3>2. t3.row.status # "failed"
      BY <1>3, <3>1 DEF Agrees, InOrder
    <3>. QED
      BY <1>4, <2>2, <3>2 DEF Same
  <2>. QED
    BY <1>3, <2>3, <2>5, <2>7, <2>8 DEF Adds
<1>8. CASE Enqueues(r) /\ Advance(t) = EnqueueAndLink(t3, next)
  <2>2. next \in Phases
    BY <1>8, NextIsPhase
  <2>. HIDE DEF next
  <2>. DEFINE u == EnqueueAndLink(t3, next)
  <2>3. /\ Agrees(u.row, u.job) /\ Moves(t3.row, t3.job, u.row, u.job)
        /\ Adds(t3.job, u.job) /\ Same(t3.row, u.row)
    BY <1>3, <1>4, <1>8, <2>2, EnqueueMoves
  <2>. HIDE DEF u
  <2>4. t3.row \in Rows /\ t3.row.link \in [Phases -> Jobs \cup {NoJob}]
    BY <1>3 DEF Txns, Rows
  <2>5. Moves(t.row, t.job, u.row, u.job)
    <3>1. \A p \in Phases : t.row.link[p] \in Jobs \cup {NoJob}
      BY <1>0 DEF Rows
    <3>2. /\ \A p \in Phases : t.row.phase[p] \in Done => u.row.phase[p] \in Done
          /\ \A p \in Phases : t.row.phase[p] = "failed" => u.row.phase[p] = "failed"
          /\ \A j \in Jobs : t.job[j] \in {"completed", "dead_letter"} => u.job[j] = t.job[j]
      BY <1>4, <2>3 DEF Moves
    <3>3. ASSUME NEW p \in Phases, t.row.phase[p] \in Open, t.row.link[p] # NoJob,
                 t.job[t.row.link[p]] \in Live
          PROVE  \/ /\ u.job[t.row.link[p]] \in Live /\ u.row.phase[p] \in Open
                    /\ u.row.link[p] = t.row.link[p]
                 \/ u.job[t.row.link[p]] = "completed" /\ u.row.phase[p] \in Done
                 \/ u.job[t.row.link[p]] = "dead_letter" /\ u.row.phase[p] = "failed"
      BY <1>4, <2>3, <3>1, <3>3 DEF Moves
    <3>. QED
      BY <3>2, <3>3 DEF Moves
  <2>6. Advance(t) = u
    BY <1>8 DEF u
  <2>7. Same(t.row, u.row)
    BY <1>4, <2>3 DEF Same
  <2>. QED
    BY <1>3, <2>3, <2>5, <2>6, <2>7
<1>. QED
  BY <1>5, <1>6, <1>7, <1>8

\* One phase is open at a time, and none beside one that has failed.
LEMMA OneOpen ==
  ASSUME NEW r, InOrder(r), NEW p \in Phases, r.phase[p] \in Open, NEW q \in Phases
  PROVE  /\ r.phase[q] \in Open => q = p
         /\ q < p => r.phase[q] \in Done
         /\ p < q => r.phase[q] = "not_started"
         /\ r.phase[q] # "failed" /\ r.status # "failed"
<1>1. \A x, y \in Phases : x < y \/ x = y \/ y < x
  BY DEF Phases
<1>2. \A x \in Phases : x < p => r.phase[x] \in Done
  BY DEF InOrder, Open
<1>3. \A x \in Phases : p < x => r.phase[x] = "not_started"
  BY DEF InOrder, Open, Done
<1>4. \A x \in Phases : r.phase[x] # "failed"
  BY <1>1, <1>2, <1>3 DEF Open, Done
<1>5. r.status # "failed"
  BY <1>4 DEF InOrder
<1>. QED
  BY <1>1, <1>2, <1>3, <1>4, <1>5 DEF Open, Done

\* One phase fails at a time: those before it are done, those after it wait.
LEMMA OneFailed ==
  ASSUME NEW r, InOrder(r), NEW p \in Phases, r.phase[p] = "failed", NEW q \in Phases
  PROVE  /\ r.phase[q] \notin Open
         /\ q < p => r.phase[q] \in Done
         /\ p < q => r.phase[q] = "not_started"
<1>1. \A x, y \in Phases : x < y \/ x = y \/ y < x
  BY DEF Phases
<1>2. \A x \in Phases : x < p => r.phase[x] \in Done
  BY DEF InOrder
<1>3. \A x \in Phases : p < x => r.phase[x] = "not_started"
  BY DEF InOrder, Done
<1>. QED
  BY <1>1, <1>2, <1>3 DEF Open, Done

LEMMA OneLive ==
  ASSUME NEW r, NEW jobs, Agrees(r, jobs), NEW j \in Jobs, jobs[j] \in Live
  PROVE  /\ j[1] \in Phases /\ r.link[j[1]] = j /\ r.phase[j[1]] \in Open
         /\ r.status # "failed"
         /\ \A k \in Jobs : jobs[k] \in Live => k = j
<1>1. \A k \in Jobs : k[1] \in Phases
  BY DEF Jobs
<1>2. \A k \in Jobs : jobs[k] \in Live => r.link[k[1]] = k /\ r.phase[k[1]] \in Open
  BY DEF Agrees
<1>3. ASSUME NEW k \in Jobs, jobs[k] \in Live PROVE k = j
  <2>1. k[1] = j[1]
    BY <1>1, <1>2, <1>3, OneOpen DEF Agrees
  <2>. QED
    BY <1>2, <1>3, <2>1
<1>4. r.status # "failed"
  BY <1>1, <1>2, OneOpen DEF Agrees
<1>. QED
  BY <1>1, <1>2, <1>3, <1>4

\* An advance that works from a failed onboarding changes nothing.
LEMMA AdvanceFailed ==
  ASSUME NEW t, InOrder(t.seen), t.seen.status = "failed"
  PROVE  Advance(t) = t
<1>1. \A p \in Phases : t.seen.phase[p] \notin Open
  BY OneOpen
<1>2. \A p \in Phases : Repair(t, p) = t
  BY <1>1 DEF Repair
<1>3. 1 \in Phases /\ 2 \in Phases /\ 3 \in Phases
  BY DEF Phases
<1>4. Repair(Repair(Repair(t, 1), 2), 3) = t
  BY <1>2, <1>3
<1>. QED
  BY <1>4 DEF Advance, Repaired

\* A worker that executes a job is alone, and its phase is the open one.
LEMMA BusyAlone ==
  ASSUME IInv, CalmInv, NEW w \in Workers, pc[w] \in Busy
  PROVE  /\ held[w] \in Jobs /\ PhaseOf(held[w]) \in Phases
         /\ job[held[w]] = "running" /\ owner[held[w]] = w
         /\ row.link[PhaseOf(held[w])] = held[w] /\ row.phase[PhaseOf(held[w])] \in Open
         /\ row.status # "failed"
         /\ \A k \in Jobs : job[k] \in Live => k = held[w]
         /\ \A x \in Workers : pc[x] \in Busy => x = w
<1>1. \A x \in Workers : pc[x] \in Busy => held[x] \in Jobs
  BY DEF IInv, Well, TypeOK, Shape, Busy
<1>2. \A x \in Workers : pc[x] \in Busy => owner[held[x]] = x /\ job[held[x]] = "running"
  BY DEF CalmInv, WorkersOwn
<1>3. \A x \in Workers : pc[x] \in Busy => job[held[x]] \in Live
  BY <1>2 DEF Live
<1>4. /\ held[w][1] \in Phases /\ row.link[held[w][1]] = held[w]
      /\ row.phase[held[w][1]] \in Open /\ row.status # "failed"
      /\ \A k \in Jobs : job[k] \in Live => k = held[w]
  BY <1>1, <1>3, OneLive DEF CalmInv
<1>5. \A x \in Workers : pc[x] \in Busy => x = w
  <2>. SUFFICES ASSUME NEW x \in Workers, pc[x] \in Busy PROVE x = w
    OBVIOUS
  <2>1. held[x] = held[w]
    BY <1>1, <1>3, <1>4
  <2>. QED
    BY <1>2, <2>1
<1>. QED
  BY <1>1, <1>2, <1>4, <1>5 DEF PhaseOf

\* The phase of a job that was found stays started.
LEMMA LinksStay ==
  ASSUME OnboardingAssumption, IInv, CalmInv, Moves(row, job, row', job')
  PROVE  \A c \in Clients : pc[c] = "linking" =>
           \A j \in found[c] : row'.phase[PhaseOf(j)] # "not_started"
<1>. SUFFICES ASSUME NEW c \in Clients, pc[c] = "linking", NEW j \in found[c]
              PROVE  row'.phase[PhaseOf(j)] # "not_started"
  OBVIOUS
<1>1. row \in Rows /\ PhaseOf(j) \in Phases
  BY DEF IInv, Well, TypeOK, PhaseOf, Jobs, Actors
<1>2. row.phase[PhaseOf(j)] # "not_started" /\ Agrees(row, job)
  BY DEF CalmInv, RequestsKnow
<1>. QED
  BY <1>1, <1>2, MovesOn

\* What the requests rely on survives a step of a worker.
LEMMA RequestsStay ==
  ASSUME OnboardingAssumption, IInv, CalmInv, Moves(row, job, row', job'),
         \A c \in Clients : pc'[c] = pc[c] /\ seen'[c] = seen[c] /\ found'[c] = found[c],
         row' = row \/ row.status # "failed"
  PROVE  RequestsKnow' /\ ResumesKnow'
<1>1. RequestsKnow'
  <2>1. \A c \in Clients : pc[c] = "advancing" => seen[c] \in Rows
    BY DEF IInv, Well, TypeOK, Shape, Actors
  <2>2. \A c \in Clients : pc[c] = "advancing" => Known(seen[c], row', job')
    BY <2>1, KnownMoves DEF CalmInv, RequestsKnow, OnboardingAssumption
  <2>3. \A c \in Clients : pc[c] = "linking" =>
          \A j \in found[c] : row'.phase[PhaseOf(j)] # "not_started"
    BY LinksStay
  <2>. QED
    BY <2>2, <2>3 DEF CalmInv, RequestsKnow
<1>2. ResumesKnow'
  BY DEF CalmInv, ResumesKnow
<1>. QED
  BY <1>1, <1>2

\* The reads and the bookkeeping of workers.
LEMMA WorkersCalm ==
  ASSUME OnboardingAssumption, Calm, IInv, CalmInv,
         \/ \E w \in Workers : \/ Claim(w) \/ StartRead(w) \/ FinalizeRead(w)
                               \/ HandlerThrows(w) \/ FailRead(w) \/ Crash(w)
         \/ \E j \in Jobs : Release(j)
  PROVE  CalmInv'
<1>. USE DEF db, open, Actors
<1>0. /\ job \in [Jobs -> JobStatus] /\ owner \in [Jobs -> Workers \cup {NoWorker}]
      /\ pc \in [Actors -> Control] /\ held \in [Workers -> Jobs \cup {NoJob}]
      /\ seen \in [Actors -> Rows \cup {NoRow}] /\ found \in [Actors -> SUBSET Jobs]
      /\ NoJob \notin Jobs /\ NoWorker \notin Workers /\ Workers \cap Clients = {}
  BY DEF IInv, Well, TypeOK, OnboardingAssumption
<1>1. Agrees(row, job) /\ WorkersOwn
  BY DEF CalmInv
<1>2. ASSUME row' = row, job' = job, WorkersOwn',
             \A c \in Clients : pc'[c] = pc[c] /\ seen'[c] = seen[c] /\ found'[c] = found[c]
      PROVE  CalmInv'
  <2>1. Moves(row, job, row', job')
    BY <1>2, MovesSelf
  <2>. QED
    BY <1>1, <1>2, <2>1, RequestsStay DEF CalmInv
<1>3. ASSUME NEW w \in Workers, FinalizeRead(w) \/ HandlerThrows(w) \/ FailRead(w)
      PROVE  CalmInv'
  <2>1. /\ UNCHANGED <<row, job, owner, held, seen, found>> /\ pc[w] \in Busy \ {"starting"}
        /\ \E s \in {"completing", "blocking", "failing", "failed"} :
             pc' = [pc EXCEPT ![w] = s]
    BY <1>3 DEF FinalizeRead, HandlerThrows, FailRead, Goto, Busy
  <2>2. WorkersOwn'
    BY <1>0, <1>1, <2>1 DEF WorkersOwn, Busy
  <2>. QED
    BY <1>0, <1>2, <2>1, <2>2
<1>4. ASSUME NEW w \in Workers, StartRead(w) PROVE CalmInv'
  <2>1. pc[w] \in Busy
    BY <1>4 DEF StartRead, Busy
  <2>2. row.current # NoJob => row.current = held[w]
    <3>1. \A k \in Jobs : job[k] \in Live => k = held[w]
      BY <2>1, BusyAlone DEF CalmInv
    <3>2. row.current \in Jobs \cup {NoJob}
      BY DEF IInv, Well, TypeOK, Rows
    <3>. QED
      BY <1>1, <3>1, <3>2 DEF Agrees
  <2>3. /\ UNCHANGED <<row, job, owner, held, found>>
        /\ \/ pc' = [pc EXCEPT ![w] = "failing"] /\ seen' = seen
           \/ /\ pc' = [pc EXCEPT ![w] = "starting"] /\ seen' = [seen EXCEPT ![w] = row]
              /\ row.current # NoJob
    BY <1>4 DEF StartRead, Goto, Read
  <2>4. WorkersOwn'
    BY <1>0, <1>1, <2>1, <2>2, <2>3 DEF WorkersOwn, Busy
  <2>. QED
    BY <1>0, <1>2, <2>3, <2>4
<1>5. ASSUME NEW w \in Workers, Crash(w) PROVE CalmInv'
  <2>1. /\ owner' = [j \in Jobs |-> IF owner[j] = w THEN NoWorker ELSE owner[j]]
        /\ seen' = [seen EXCEPT ![w] = NoRow] /\ pc' = [pc EXCEPT ![w] = "idle"]
        /\ held' = [held EXCEPT ![w] = NoJob] /\ UNCHANGED <<row, job>>
        /\ found' = [found EXCEPT ![w] = {}]
    BY <1>5 DEF Crash, Forget, Leave, Goto
  <2>2. \A x \in Workers : pc[x] \in Busy => held[x] \in Jobs
    BY BusyAlone
  <2>3. WorkersOwn'
    BY <1>0, <1>1, <2>1, <2>2 DEF WorkersOwn, Busy
  <2>. QED
    BY <1>0, <1>2, <2>1, <2>3
<1>6. ASSUME NEW j \in Jobs, job[j] \in Live, job'[j] \in Live,
             row' = row, job' = [job EXCEPT ![j] = job'[j]], WorkersOwn',
             \A c \in Clients : pc'[c] = pc[c] /\ seen'[c] = seen[c] /\ found'[c] = found[c]
      PROVE  CalmInv'
  <2>1. \A k \in Jobs : /\ job'[k] = IF k = j THEN job'[j] ELSE job[k]
    BY <1>0, <1>6
  <2>2. \A k \in Jobs : job'[k] \in Live <=> job[k] \in Live
    BY <1>6, <2>1
  <2>3. \A k \in Jobs : job[k] \notin Live => job'[k] = job[k]
    BY <1>6, <2>1
  <2>4. \A p \in Phases : row.link[p] \in Jobs \cup {NoJob}
    BY DEF IInv, Well, TypeOK, Rows
  <2>5. row.current \in Jobs \cup {NoJob}
    BY DEF IInv, Well, TypeOK, Rows
  <2>6. Agrees(row', job')
    BY <1>1, <1>6, <2>2, <2>3, <2>4, <2>5 DEF Agrees, Live, Waiting
  <2>7. Moves(row, job, row', job')
    BY <1>6, <2>2, <2>3, <2>4 DEF Moves, Live, Waiting
  <2>. QED
    BY <1>6, <2>6, <2>7, RequestsStay DEF CalmInv
<1>7. ASSUME NEW w \in Workers, Claim(w) PROVE CalmInv'
  <2>1. PICK j \in Jobs : /\ job[j] \in Waiting /\ job' = [job EXCEPT ![j] = "running"]
                          /\ owner' = [owner EXCEPT ![j] = w]
                          /\ held' = [held EXCEPT ![w] = j]
    BY <1>7 DEF Claim, SetJob
  <2>2. pc' = [pc EXCEPT ![w] = "claimed"] /\ UNCHANGED <<row, seen, found>>
    BY <1>7 DEF Claim, Goto
  <2>3. \A x \in Workers : pc[x] = "idle"
    <3>1. \A x \in Workers : pc[x] \in Busy =>
                             /\ job[held[x]] = "running"
                             /\ \A k \in Jobs : job[k] \in Live => k = held[x]
      BY BusyAlone
    <3>2. job[j] \in Live /\ job[j] # "running"
      BY <2>1 DEF Live, Waiting
    <3>. QED
      BY <1>1, <3>1, <3>2 DEF WorkersOwn
  <2>4. WorkersOwn'
    BY <1>0, <2>1, <2>2, <2>3 DEF WorkersOwn, Busy
  <2>5. job[j] \in Live /\ job'[j] \in Live /\ job' = [job EXCEPT ![j] = job'[j]]
    BY <1>0, <2>1 DEF Live, Waiting
  <2>. QED
    BY <1>0, <1>6, <2>2, <2>4, <2>5
<1>8. ASSUME NEW j \in Jobs, Release(j) PROVE CalmInv'
  <2>1. /\ job[j] = "running" /\ job' = [job EXCEPT ![j] = "retrying"]
        /\ owner[j] = NoWorker /\ owner' = [owner EXCEPT ![j] = NoWorker]
        /\ UNCHANGED <<row, pc, held, seen, found>>
    BY <1>8 DEF Release, Event, SetJob, Calm
  <2>2. \A x \in Workers : pc[x] \in Busy => held[x] \in Jobs
    BY BusyAlone
  <2>3. WorkersOwn'
    BY <1>0, <1>1, <2>1, <2>2 DEF WorkersOwn
  <2>4. job[j] \in Live /\ job'[j] \in Live /\ job' = [job EXCEPT ![j] = job'[j]]
    BY <1>0, <2>1 DEF Live, Waiting
  <2>. QED
    BY <1>6, <2>1, <2>3, <2>4
<1>. QED
  BY <1>3, <1>4, <1>5, <1>7, <1>8

\* markPhaseStarted writes back the job it runs.
LEMMA StartWriteCalm ==
  ASSUME OnboardingAssumption, IInv, CalmInv, NEW w \in Workers, StartWrite(w)
  PROVE  CalmInv' /\ Same(row, row')
<1>. USE DEF db, open, Actors
<1>. DEFINE p == PhaseOf(held[w])
<1>0. /\ pc \in [Actors -> Control] /\ seen \in [Actors -> Rows \cup {NoRow}]
      /\ row \in Rows /\ Workers \cap Clients = {} /\ NoJob \notin Jobs
  BY DEF IInv, Well, TypeOK, OnboardingAssumption
<1>1. /\ pc[w] = "starting" /\ UNCHANGED <<job, owner, held, found>>
      /\ pc' = [pc EXCEPT ![w] = "working"] /\ seen' = [seen EXCEPT ![w] = NoRow]
      /\ row' = [row EXCEPT !.status = "running", !.current = seen[w].current,
                            !.phase[p] = "running"]
  BY DEF StartWrite, Forget, Goto
<1>2. /\ held[w] \in Jobs /\ p \in Phases /\ job[held[w]] = "running"
      /\ row.link[p] = held[w] /\ row.phase[p] \in Open /\ row.status # "failed"
      /\ \A k \in Jobs : job[k] \in Live => k = held[w]
      /\ \A x \in Workers : pc[x] \in Busy => x = w
  BY <1>1, BusyAlone DEF Busy
<1>3. seen[w].current = held[w]
  BY <1>1 DEF CalmInv, WorkersOwn
<1>. HIDE DEF p
<1>4. /\ \A q \in Phases : row'.phase[q] = IF q = p THEN "running" ELSE row.phase[q]
      /\ row'.link = row.link /\ row'.status = "running" /\ row'.current = held[w]
      /\ row'.pending = row.pending
  BY <1>0, <1>1, <1>2, <1>3 DEF Rows
<1>5. Agrees(row, job)
  BY DEF CalmInv
<1>6. \A q \in Phases : /\ row.phase[q] \in Open => q = p
                        /\ q < p => row.phase[q] \in Done
                        /\ p < q => row.phase[q] = "not_started"
                        /\ row.phase[q] # "failed"
  BY <1>2, <1>5, OneOpen DEF Agrees
<1>7. InOrder(row')
  <2>1. \A q, x \in Phases : x < q /\ row'.phase[q] # "not_started" => row'.phase[x] \in Done
    <3>. SUFFICES ASSUME NEW q \in Phases, NEW x \in Phases, x < q,
                         row'.phase[q] # "not_started"
                  PROVE  row'.phase[x] \in Done
      OBVIOUS
    <3>1. x < p /\ x # p
      BY <1>2, <1>4, <1>6 DEF Phases
    <3>. QED
      BY <1>4, <1>6, <3>1
  <2>2. \A q \in Phases : row'.phase[q] # "failed"
    BY <1>4, <1>6
  <2>3. ~row'.pending
    BY <1>4, <1>5 DEF Agrees, InOrder
  <2>. QED
    BY <1>4, <2>1, <2>2, <2>3 DEF InOrder
<1>8. Agrees(row', job')
  <2>1. row'.phase[p] \in Open /\ job[held[w]] \in Live /\ PhaseOf(held[w]) = p
    BY <1>2, <1>4 DEF Open, Live, p
  <2>2. \A q \in Phases : row'.phase[q] \in Open => q = p
    BY <1>4, <1>6
  <2>3. \A j \in Jobs : job'[j] \in Live => j = held[w]
    BY <1>1, <1>2
  <2>4. \A q \in Phases : row'.link[q] # NoJob => job'[row'.link[q]] # "none"
    BY <1>1, <1>4, <1>5 DEF Agrees
  <2>. QED
    BY <1>0, <1>1, <1>2, <1>4, <1>7, <2>1, <2>2, <2>3, <2>4 DEF Agrees, PhaseOf
<1>9. Moves(row, job, row', job')
  <2>1. row'.phase[p] \in Open /\ row.phase[p] \notin Done
    BY <1>2, <1>4 DEF Open, Done
  <2>. QED
    BY <1>1, <1>4, <1>6, <2>1 DEF Moves
<1>10. WorkersOwn'
  BY <1>0, <1>1, <1>2 DEF CalmInv, WorkersOwn, Busy
<1>11. \A c \in Clients : pc'[c] = pc[c] /\ seen'[c] = seen[c] /\ found'[c] = found[c]
  BY <1>0, <1>1
<1>12. Same(row, row')
  <2>1. row.status # "completed" /\ row.phase[p] \notin Done
    BY <1>2, <1>5 DEF Agrees, InOrder, Open, Done
  <2>. QED
    BY <1>2, <1>4, <2>1 DEF Same, Done
<1>. QED
  BY <1>12, <1>2, <1>8, <1>9, <1>10, <1>11, RequestsStay DEF CalmInv

\* A job that ends, and its phase with it.
LEMMA JobEnds ==
  ASSUME OnboardingAssumption, NEW r \in Rows, NEW jobs \in [Jobs -> JobStatus],
         Agrees(r, jobs), NEW j \in Jobs, jobs[j] \in Live, NEW p \in Phases, p = j[1],
         NEW s, NEW end,
         \/ end = "completed" /\ s \in {MarkCompleted(r, p), MarkBlocked(r, p)}
         \/ end = "dead_letter" /\ s = MarkFailed(r, p)
  PROVE  LET after == [jobs EXCEPT ![j] = end] IN
         Agrees(s, after) /\ Moves(r, jobs, s, after)
<1>. DEFINE after == [jobs EXCEPT ![j] = end]
<1>1. /\ r.link[p] = j /\ r.phase[p] \in Open /\ r.status # "failed"
      /\ \A k \in Jobs : jobs[k] \in Live => k = j
  BY OneLive
<1>2. /\ end \notin Live /\ end # "none"
      /\ \A k \in Jobs : after[k] = IF k = j THEN end ELSE jobs[k]
  BY DEF Live, Waiting
<1>. HIDE DEF after
<1>3. \A k \in Jobs : after[k] \notin Live
  BY <1>1, <1>2
<1>4. \A q \in Phases : /\ r.phase[q] \in Open => q = p
                        /\ q < p => r.phase[q] \in Done
                        /\ p < q => r.phase[q] = "not_started"
                        /\ r.phase[q] # "failed"
  BY <1>1, OneOpen DEF Agrees
<1>5. \A q \in Phases : q < p \/ q = p \/ p < q
  BY DEF Phases
<1>6. /\ s.current = NoJob /\ s.pending = r.pending
      /\ \A q \in Phases : q # p => s.phase[q] = r.phase[q]
      /\ \A q \in Phases : s.link[q] \in {r.link[q], NoJob}
      /\ \/ end = "completed" /\ s.phase[p] \in Done /\ s.status = r.status
         \/ end = "dead_letter" /\ s.phase[p] = "failed" /\ s.status = "failed"
  <2>1. CASE end = "completed" /\ s = MarkCompleted(r, p)
    BY <2>1, Fields DEF Done
  <2>2. CASE end = "completed" /\ s = MarkBlocked(r, p)
    BY <2>2, Fields DEF Done
  <2>3. CASE end = "dead_letter" /\ s = MarkFailed(r, p)
    BY <2>3, Fields
  <2>. QED
    BY <2>1, <2>2, <2>3
<1>7. \A q \in Phases : s.phase[q] \notin Open
  BY <1>4, <1>6 DEF Open, Done
<1>8. InOrder(s)
  <2>1. \A q, x \in Phases : x < q /\ s.phase[q] # "not_started" => s.phase[x] \in Done
    <3>. SUFFICES ASSUME NEW q \in Phases, NEW x \in Phases, x < q,
                         s.phase[q] # "not_started"
                  PROVE  s.phase[x] \in Done
      OBVIOUS
    <3>1. q = p \/ q < p
      BY <1>4, <1>5, <1>6
    <3>2. x < p /\ x # p
      BY <3>1 DEF Phases
    <3>. QED
      BY <1>4, <1>6, <3>2
  <2>2. s.status = "failed" <=> \E q \in Phases : s.phase[q] = "failed"
    BY <1>1, <1>4, <1>6 DEF Done
  <2>3. ~s.pending
    BY <1>6 DEF Agrees, InOrder
  <2>4. s.status # "completed"
    BY <1>1, <1>6 DEF Agrees, InOrder, Open, Done
  <2>. QED
    BY <2>1, <2>2, <2>3, <2>4 DEF InOrder
<1>9. \A q \in Phases : s.link[q] # NoJob => after[s.link[q]] # "none"
  <2>1. \A q \in Phases : r.link[q] \in Jobs \cup {NoJob}
    BY DEF Rows
  <2>. QED
    BY <1>2, <1>6, <2>1 DEF Agrees
<1>10. Agrees(s, after)
  BY <1>3, <1>6, <1>7, <1>8, <1>9 DEF Agrees
<1>11. Moves(r, jobs, s, after)
  <2>1. r.phase[p] \notin Done
    BY <1>1 DEF Open, Done
  <2>2. \A k \in Jobs : jobs[k] \in {"completed", "dead_letter"} => after[k] = jobs[k]
    BY <1>2 DEF Live, Waiting
  <2>. QED
    BY <1>1, <1>2, <1>4, <1>6, <2>1, <2>2 DEF Moves
<1>. QED
  BY <1>10, <1>11 DEF after

\* A failed job is retried, or fails its phase.
LEMMA FailWriteCalm ==
  ASSUME OnboardingAssumption, IInv, CalmInv, NEW w \in Workers, FailWrite(w)
  PROVE  CalmInv' /\ RowStep(row, row')
<1>. USE DEF db, open, Actors
<1>. DEFINE p == PhaseOf(held[w])
<1>0. /\ pc \in [Actors -> Control] /\ seen \in [Actors -> Rows \cup {NoRow}]
      /\ job \in [Jobs -> JobStatus] /\ owner \in [Jobs -> Workers \cup {NoWorker}]
      /\ held \in [Workers -> Jobs \cup {NoJob}]
      /\ row \in Rows /\ Workers \cap Clients = {} /\ NoJob \notin Jobs
      /\ Agrees(row, job)
  BY DEF IInv, Well, TypeOK, OnboardingAssumption, CalmInv
<1>1. /\ pc[w] = "failed" /\ UNCHANGED <<seen, found>>
      /\ pc' = [pc EXCEPT ![w] = "idle"] /\ held' = [held EXCEPT ![w] = NoJob]
      /\ owner' = [owner EXCEPT ![held[w]] = NoWorker]
      /\ \/ job' = [job EXCEPT ![held[w]] = "retrying"] /\ row' = row
         \/ job' = [job EXCEPT ![held[w]] = "dead_letter"] /\ row' = MarkFailed(row, p)
  BY DEF FailWrite, SetJob, Leave, Goto
<1>2. /\ held[w] \in Jobs /\ p \in Phases /\ job[held[w]] = "running"
      /\ row.status # "failed"
      /\ \A x \in Workers : pc[x] \in Busy => x = w
  BY <1>1, BusyAlone DEF Busy
<1>3. Agrees(row', job') /\ Moves(row, job, row', job')
  <2>1. CASE job' = [job EXCEPT ![held[w]] = "retrying"] /\ row' = row
    <3>1. \A k \in Jobs : job'[k] = IF k = held[w] THEN "retrying" ELSE job[k]
      BY <1>0, <1>2, <2>1
    <3>2. \A k \in Jobs : /\ job'[k] \in Live <=> job[k] \in Live
                          /\ job[k] \notin Live => job'[k] = job[k]
      BY <1>2, <3>1 DEF Live, Waiting
    <3>3. /\ \A q \in Phases : row.link[q] \in Jobs \cup {NoJob}
          /\ row.current \in Jobs \cup {NoJob}
      BY <1>0 DEF Rows
    <3>4. Agrees(row', job')
      BY <1>0, <2>1, <3>2, <3>3 DEF Agrees, Live, Waiting
    <3>5. Moves(row, job, row', job')
      BY <2>1, <3>2, <3>3 DEF Moves, Live, Waiting
    <3>. QED
      BY <3>4, <3>5
  <2>2. CASE job' = [job EXCEPT ![held[w]] = "dead_letter"] /\ row' = MarkFailed(row, p)
    <3>1. job[held[w]] \in Live /\ p = held[w][1]
      BY <1>2 DEF Live, PhaseOf
    <3>. HIDE DEF p
    <3>. QED
      BY <1>0, <1>2, <2>2, <3>1, JobEnds
  <2>. QED
    BY <1>1, <2>1, <2>2
<1>4. WorkersOwn'
  BY <1>0, <1>1, <1>2 DEF CalmInv, WorkersOwn, Busy
<1>5. \A c \in Clients : pc'[c] = pc[c] /\ seen'[c] = seen[c] /\ found'[c] = found[c]
  BY <1>0, <1>1
<1>6. RowStep(row, row')
  <2>1. CASE row' = row
    BY <2>1 DEF RowStep, Same
  <2>2. CASE row' = MarkFailed(row, p)
    <3>1. row.phase[p] \in Open
      BY <1>1, BusyAlone DEF Busy
    <3>. HIDE DEF p
    <3>2. /\ row'.status = "failed"
          /\ \A q \in Phases : row'.phase[q] = IF q = p THEN "failed" ELSE row.phase[q]
      BY <1>0, <1>2, <2>2, Fields
    <3>. QED
      BY <1>2, <3>1, <3>2 DEF RowStep, Open, Done
  <2>. QED
    BY <1>1, <2>1, <2>2
<1>. QED
  BY <1>2, <1>3, <1>4, <1>5, <1>6, RequestsStay DEF CalmInv

\* The finalizers end the job, its phase with it, and queue the next one.
LEMMA FinalizeWriteCalm ==
  ASSUME OnboardingAssumption, Calm, IInv, CalmInv, NEW w \in Workers, FinalizeWrite(w)
  PROVE  CalmInv' /\ RowStep(row, row')
<1>. USE DEF db, open, Actors
<1>. DEFINE p == PhaseOf(held[w])
            r == IF pc[w] = "completing" THEN MarkCompleted(row, p) ELSE MarkBlocked(row, p)
            jobs == [job EXCEPT ![held[w]] = "completed"]
            b == Txn(r, r, jobs, drawn)
            u == Finalized(w)
<1>0. /\ pc \in [Actors -> Control] /\ seen \in [Actors -> Rows \cup {NoRow}]
      /\ job \in [Jobs -> JobStatus] /\ owner \in [Jobs -> Workers \cup {NoWorker}]
      /\ held \in [Workers -> Jobs \cup {NoJob}] /\ drawn \in 1 .. MaxRuns
      /\ row \in Rows /\ Workers \cap Clients = {} /\ NoJob \notin Jobs
      /\ Agrees(row, job) /\ Undrawn(job, drawn) /\ row.run <= drawn
  BY DEF IInv, Well, TypeOK, OnboardingAssumption, CalmInv, Runs
<1>1. /\ pc[w] \in {"completing", "blocking"} /\ drawn + 4 <= MaxRuns
      /\ UNCHANGED <<seen, found>>
      /\ \/ /\ u.ok /\ Commit(u) /\ owner' = [owner EXCEPT ![held[w]] = NoWorker]
            /\ pc' = [pc EXCEPT ![w] = "idle"] /\ held' = [held EXCEPT ![w] = NoJob]
         \/ UNCHANGED <<row, job, owner, held>> /\ pc' = [pc EXCEPT ![w] = "failing"]
  BY DEF FinalizeWrite, RunsLeft, Event, Calm, Leave, Goto
<1>2. /\ held[w] \in Jobs /\ p \in Phases /\ p = held[w][1] /\ job[held[w]] = "running"
      /\ row.status # "failed"
      /\ \A x \in Workers : pc[x] \in Busy => x = w
  BY <1>1, BusyAlone DEF Busy, PhaseOf
<1>3. u = Advance(b)
  BY DEF Finalized
<1>4. r \in {MarkCompleted(row, p), MarkBlocked(row, p)}
  OBVIOUS
<1>. HIDE DEF r, p, u
<1>5. Agrees(r, jobs) /\ Moves(row, job, r, jobs)
  <2>1. job[held[w]] \in Live
    BY <1>2 DEF Live
  <2>. QED
    BY <1>0, <1>2, <1>4, <2>1, JobEnds
<1>6. r \in Rows /\ r.run = row.run /\ jobs \in [Jobs -> JobStatus]
  BY <1>0, <1>2, <1>4, RowUpdates DEF JobStatus, Terminal
<1>7. Undrawn(jobs, drawn)
  BY <1>0, <1>2 DEF Undrawn
<1>. HIDE DEF jobs
<1>8. b = [seen |-> r, row |-> r, job |-> jobs, drawn |-> drawn, ok |-> TRUE]
  BY DEF Txn
<1>. HIDE DEF b
<1>9. GoodTxn(b) /\ b.seen = r /\ b.row = r /\ b.job = jobs /\ b.drawn = drawn
  BY <1>0, <1>6, <1>7, <1>8 DEF GoodTxn, Txns
<1>10. \A c \in Clients : pc'[c] = pc[c] /\ seen'[c] = seen[c] /\ found'[c] = found[c]
  BY <1>0, <1>1
<1>11. CASE u.ok /\ Commit(u) /\ owner' = [owner EXCEPT ![held[w]] = NoWorker]
            /\ pc' = [pc EXCEPT ![w] = "idle"] /\ held' = [held EXCEPT ![w] = NoJob]
  <2>1. Agrees(u.row, u.job) /\ Moves(r, jobs, u.row, u.job) /\ Same(r, u.row)
    <3>1. Known(b.seen, b.row, b.job)
      BY <1>5, <1>9, KnownSelf
    <3>. QED
      BY <1>1, <1>3, <1>5, <1>9, <1>11, <3>1, AdvanceMoves
  <2>2. row' = u.row /\ job' = u.job
    BY <1>11 DEF Commit
  <2>3. Moves(row, job, row', job')
    BY <1>0, <1>5, <1>6, <2>1, <2>2, MovesTwice
  <2>4. WorkersOwn'
    BY <1>0, <1>2, <1>11 DEF CalmInv, WorkersOwn, Busy
  <2>5. RowStep(row, row')
    <3>1. row.phase[p] \in Open
      BY <1>1, BusyAlone DEF Busy, p
    <3>2. /\ r.status = row.status
          /\ \A q \in Phases : r.phase[q] \in Done <=> row.phase[q] \in Done \/ q = p
      <4>1. CASE r = MarkCompleted(row, p)
        BY <1>0, <1>2, <4>1, Fields DEF Done
      <4>2. CASE r = MarkBlocked(row, p)
        BY <1>0, <1>2, <4>2, Fields DEF Done
      <4>. QED
        BY <1>4, <4>1, <4>2
    <3>3. /\ row'.status # "failed"
          /\ \A q \in Phases : row'.phase[q] \in Done <=> row.phase[q] \in Done \/ q = p
      BY <1>2, <2>1, <2>2, <3>2 DEF Same
    <3>. QED
      BY <1>2, <3>1, <3>3 DEF RowStep
  <2>. QED
    BY <1>2, <1>10, <2>1, <2>2, <2>3, <2>4, <2>5, RequestsStay DEF CalmInv
<1>12. CASE UNCHANGED <<row, job, owner, held>> /\ pc' = [pc EXCEPT ![w] = "failing"]
  <2>1. Moves(row, job, row', job')
    BY <1>12, MovesSelf
  <2>2. WorkersOwn'
    BY <1>0, <1>1, <1>2, <1>12 DEF CalmInv, WorkersOwn, Busy
  <2>. QED
    BY <1>0, <1>10, <1>12, <2>1, <2>2, RequestsStay DEF CalmInv, RowStep, Same
<1>. QED
  BY <1>1, <1>11, <1>12

\* Workers stay as they are while a request changes no job that exists.
LEMMA WorkersStay ==
  ASSUME IInv, CalmInv, Adds(job, job'), UNCHANGED <<owner, held>>,
         \A w \in Workers : pc'[w] = pc[w] /\ seen'[w] = seen[w]
  PROVE  WorkersOwn'
<1>1. \A w \in Workers : pc[w] \in Busy => held[w] \in Jobs /\ job[held[w]] = "running"
  BY BusyAlone
<1>2. \A w \in Workers : pc[w] \in Busy => job'[held[w]] = job[held[w]]
  BY <1>1 DEF Adds
<1>. QED
  BY <1>1, <1>2 DEF CalmInv, WorkersOwn

\* The reads of requests.
LEMMA ReadsCalm ==
  ASSUME OnboardingAssumption, Calm, IInv, CalmInv,
         \E c \in Clients : \/ AdvanceRead(c) \/ AdvanceCheck(c) \/ AdvanceFind(c)
                          \/ Authenticate(c) \/ ResumeRead(c)
  PROVE  CalmInv'
<1>. USE DEF db, open, Actors
<1>0. /\ pc \in [Actors -> Control] /\ seen \in [Actors -> Rows \cup {NoRow}]
      /\ found \in [Actors -> SUBSET Jobs] /\ job \in [Jobs -> JobStatus]
      /\ Workers \cap Clients = {} /\ Agrees(row, job)
  BY DEF IInv, Well, TypeOK, OnboardingAssumption, CalmInv
<1>1. ASSUME UNCHANGED <<row, job, owner, held>>, RequestsKnow', ResumesKnow',
             \A w \in Workers : pc'[w] = pc[w] /\ seen'[w] = seen[w]
      PROVE  CalmInv'
  BY <1>0, <1>1, WorkersStay DEF CalmInv, Adds
<1>2. ASSUME NEW c \in Clients, AdvanceRead(c) PROVE CalmInv'
  <2>1. /\ pc[c] = "advance" /\ seen' = [seen EXCEPT ![c] = row]
        /\ pc' = [pc EXCEPT ![c] = "advancing"] /\ UNCHANGED <<row, job, owner, held, found>>
    BY <1>2 DEF AdvanceRead, Read, Goto
  <2>2. Known(row, row, job)
    BY <1>0, KnownSelf
  <2>3. RequestsKnow' /\ ResumesKnow'
    BY <1>0, <2>1, <2>2 DEF CalmInv, RequestsKnow, ResumesKnow
  <2>. QED
    BY <1>0, <1>1, <2>1, <2>3
<1>3. ASSUME NEW c \in Clients, Authenticate(c) PROVE CalmInv'
  <2>1. /\ pc[c] = "idle" /\ seen' = seen
        /\ pc' = [pc EXCEPT ![c] = "advance"] /\ UNCHANGED <<row, job, owner, held, found>>
    BY <1>3 DEF Authenticate, Goto
  <2>2. RequestsKnow' /\ ResumesKnow'
    BY <1>0, <2>1 DEF CalmInv, RequestsKnow, ResumesKnow
  <2>. QED
    BY <1>0, <1>1, <2>1, <2>2
<1>4. ASSUME NEW c \in Clients, ResumeRead(c) PROVE CalmInv'
  <2>1. /\ seen' = [seen EXCEPT ![c] = row] /\ \A d \in Clients : pc[d] = "idle"
        /\ pc' = [pc EXCEPT ![c] = "resuming"] /\ UNCHANGED <<row, job, owner, held, found>>
    BY <1>4 DEF ResumeRead, Event, Calm, Read, Goto
  <2>2. RequestsKnow' /\ ResumesKnow'
    BY <1>0, <2>1 DEF CalmInv, RequestsKnow, ResumesKnow
  <2>. QED
    BY <1>0, <1>1, <2>1, <2>2
<1>5. ASSUME NEW c \in Clients, AdvanceCheck(c) PROVE CalmInv'
  <2>1. /\ pc[c] = "advancing" /\ seen[c].status # "failed"
        /\ pc' = [pc EXCEPT ![c] = "looking"]
        /\ UNCHANGED <<row, job, owner, held, seen, found>>
    BY <1>5 DEF AdvanceCheck, Enqueues, Goto
  <2>2. RequestsKnow'
    BY <1>0, <2>1 DEF CalmInv, RequestsKnow
  <2>3. ResumesKnow'
    BY <1>0, <2>1 DEF CalmInv, ResumesKnow
  <2>. QED
    BY <1>0, <1>1, <2>1, <2>2, <2>3
<1>6. ASSUME NEW c \in Clients, AdvanceFind(c) PROVE CalmInv'
  <2>. DEFINE p == NextPhase(seen[c])
              j == <<p, seen[c].run>>
  <2>1. /\ pc[c] = "looking" /\ job[j] \notin Terminal
        /\ found' = [found EXCEPT ![c] = IF job[j] = "none" THEN {} ELSE {j}]
        /\ pc' = [pc EXCEPT ![c] = "linking"]
        /\ UNCHANGED <<row, job, owner, held, seen>>
    BY <1>6 DEF AdvanceFind, Ended, Begin, Txn, Goto
  <2>2. p \in Phases /\ j \in Jobs /\ j[1] = p
    <3>1. seen[c] \in Rows /\ p \in Phases
      BY <1>0, <2>1, NextIsPhase DEF IInv, Well, Shape
    <3>. QED
      BY <3>1 DEF Rows, Jobs
  <2>. HIDE DEF p, j
  <2>3. job[j] # "none" => row.phase[p] # "not_started"
    <3>1. job[j] # "none" => job[j] \in Live
      BY <1>0, <2>1, <2>2 DEF JobStatus, Live
    <3>. QED
      BY <1>0, <2>2, <3>1 DEF Agrees, Open
  <2>4. RequestsKnow'
    <3>1. \A k \in found'[c] : row'.phase[PhaseOf(k)] # "not_started"
      BY <1>0, <2>1, <2>2, <2>3 DEF PhaseOf
    <3>. QED
      BY <1>0, <2>1, <3>1 DEF CalmInv, RequestsKnow
  <2>5. ResumesKnow'
    BY <1>0, <2>1 DEF CalmInv, ResumesKnow
  <2>. QED
    BY <1>0, <1>1, <2>1, <2>4, <2>5
<1>. QED
  BY <1>2, <1>3, <1>4, <1>5, <1>6

\* An advance knows enough of the row it works from.
LEMMA AdvanceWriteCalm ==
  ASSUME OnboardingAssumption, IInv, CalmInv, NEW c \in Clients, AdvanceWrite(c)
  PROVE  CalmInv' /\ Same(row, row')
<1>. USE DEF db, open, Actors
<1>. DEFINE b == Begin(seen[c])
            u == Advance(b)
<1>0. /\ pc \in [Actors -> Control] /\ seen \in [Actors -> Rows \cup {NoRow}]
      /\ job \in [Jobs -> JobStatus] /\ drawn \in 1 .. MaxRuns /\ row \in Rows
      /\ Workers \cap Clients = {} /\ NoJob \notin Jobs /\ Agrees(row, job)
      /\ Undrawn(job, drawn) /\ row.run <= drawn
  BY DEF IInv, Well, TypeOK, OnboardingAssumption, CalmInv, Runs
<1>1. /\ pc[c] = "advancing" /\ drawn + 4 <= MaxRuns /\ UNCHANGED <<owner, held, found>>
      /\ seen' = [seen EXCEPT ![c] = NoRow] /\ pc' = [pc EXCEPT ![c] = "idle"]
      /\ (u.ok /\ Commit(u)) \/ UNCHANGED <<row, job>>
  BY DEF AdvanceWrite, RunsLeft, Forget, Goto
<1>2. seen[c] \in Rows /\ seen[c].run <= drawn /\ Known(seen[c], row, job)
  BY <1>0, <1>1 DEF IInv, Well, Shape, Runs, CalmInv, RequestsKnow
<1>3. /\ GoodTxn(b) /\ b.drawn = drawn /\ b.row = row /\ b.job = job /\ b.seen = seen[c]
  BY <1>0, <1>2 DEF Begin, Txn, GoodTxn, Txns
<1>. HIDE DEF b
<1>4. /\ Agrees(row', job') /\ Moves(row, job, row', job') /\ Adds(job, job')
      /\ Same(row, row')
  <2>1. CASE u.ok /\ Commit(u)
    <3>1. /\ Agrees(u.row, u.job) /\ Moves(row, job, u.row, u.job)
          /\ Adds(job, u.job) /\ Same(row, u.row)
      BY <1>0, <1>1, <1>2, <1>3, <2>1, AdvanceMoves
    <3>. QED
      BY <2>1, <3>1 DEF Commit
  <2>2. CASE UNCHANGED <<row, job>>
    BY <1>0, <2>2, MovesSelf DEF Adds, Same
  <2>. QED
    BY <1>1, <2>1, <2>2
<1>5. seen[c].status = "failed" => row' = row
  <2>. SUFFICES ASSUME seen[c].status = "failed" PROVE row' = row
    OBVIOUS
  <2>1. u = b
    BY <1>2, <1>3, AdvanceFailed DEF Known
  <2>. QED
    BY <1>1, <1>3, <2>1 DEF Commit
<1>. HIDE DEF u
<1>6. RequestsKnow'
  <2>1. \A d \in Clients : pc[d] = "advancing" => seen[d] \in Rows
    BY <1>0 DEF IInv, Well, Shape
  <2>2. \A d \in Clients : pc[d] = "advancing" => Known(seen[d], row', job')
    BY <1>0, <1>4, <2>1, KnownMoves DEF CalmInv, RequestsKnow
  <2>3. \A d \in Clients : pc[d] = "linking" =>
          \A j \in found[d] : row'.phase[PhaseOf(j)] # "not_started"
    BY <1>4, LinksStay
  <2>. QED
    BY <1>0, <1>1, <2>2, <2>3 DEF CalmInv, RequestsKnow
<1>7. ResumesKnow'
  BY <1>0, <1>1, <1>5 DEF CalmInv, ResumesKnow
<1>8. WorkersOwn'
  BY <1>0, <1>1, <1>4, WorkersStay
<1>. QED
  BY <1>4, <1>6, <1>7, <1>8 DEF CalmInv

\* So does an advance that gives a phase a new run, or links the job it found or
\* creates: no onboarding that has failed gets there.
LEMMA AdvanceLinkCalm ==
  ASSUME OnboardingAssumption, IInv, CalmInv, NEW c \in Clients,
         AdvanceRenew(c) \/ AdvanceLink(c)
  PROVE  CalmInv' /\ Same(row, row')
<1>. USE DEF db, open, Actors
<1>. DEFINE p == NextPhase(seen[c])
            b == Begin(seen[c])
<1>0. /\ pc \in [Actors -> Control] /\ seen \in [Actors -> Rows \cup {NoRow}]
      /\ found \in [Actors -> SUBSET Jobs]
      /\ job \in [Jobs -> JobStatus] /\ drawn \in 1 .. MaxRuns /\ row \in Rows
      /\ MaxRuns \in Nat /\ Workers \cap Clients = {} /\ NoJob \notin Jobs
      /\ Agrees(row, job) /\ Undrawn(job, drawn) /\ row.run <= drawn
  BY DEF IInv, Well, TypeOK, OnboardingAssumption, CalmInv, Runs
<1>1. /\ pc[c] \in {"looking", "linking"} /\ UNCHANGED <<owner, held>>
      /\ seen' = [seen EXCEPT ![c] = NoRow] /\ pc' = [pc EXCEPT ![c] = "idle"]
      /\ \A d \in Clients : d # c => found'[d] = found[d]
  BY <1>0 DEF AdvanceRenew, AdvanceLink, Forget, Goto
<1>2. seen[c] \in Rows /\ seen[c].run <= drawn /\ p \in Phases
  BY <1>0, <1>1, NextIsPhase DEF IInv, Well, Shape, Runs
<1>. HIDE DEF p
<1>3. /\ GoodTxn(b) /\ b.drawn = drawn /\ b.row = row /\ b.job = job /\ b.seen = seen[c]
  BY <1>0, <1>2 DEF Begin, Txn, GoodTxn, Txns, IInv, Well, Runs
<1>. HIDE DEF b
<1>4. /\ Agrees(row', job') /\ Moves(row, job, row', job') /\ Adds(job, job')
      /\ Same(row, row')
  <2>1. CASE UNCHANGED <<row, job>>
    BY <1>0, <2>1, MovesSelf DEF Adds, Same
  <2>2. CASE AdvanceRenew(c)
    <3>. DEFINE u == EnqueueAndLink(b, p)
    <3>1. (u.ok /\ Commit(u)) \/ UNCHANGED <<row, job>>
      BY <2>2 DEF AdvanceRenew, b, p
    <3>2. drawn < MaxRuns
      BY <1>0, <2>2 DEF AdvanceRenew, RunsLeft
    <3>3. CASE u.ok /\ Commit(u)
      <4>1. /\ Agrees(u.row, u.job) /\ Moves(row, job, u.row, u.job)
            /\ Adds(job, u.job) /\ Same(row, u.row)
        BY <1>0, <1>2, <1>3, <3>2, <3>3, EnqueueMoves
      <4>. QED
        BY <3>3, <4>1 DEF Commit
    <3>. QED
      BY <2>1, <3>1, <3>3
  <2>3. CASE AdvanceLink(c)
    <3>. DEFINE j == <<p, seen[c].run>>
    <3>1. j \in Jobs /\ j[1] = p
      BY <1>2 DEF Rows, Jobs
    <3>2. \/ UNCHANGED <<row, job>>
          \/ /\ found[c] = {} => job[j] = "none"
             /\ MayLink(row, p) \/ row.link[p] = j \/ row.current = j
             /\ row' = IF MayLink(row, p) THEN Link(row, p, j) ELSE row
             /\ job' = [job EXCEPT ![j] = IF found[c] = {} THEN "queued" ELSE @]
      BY <2>3 DEF AdvanceLink, p
    <3>3. CASE found[c] # {}
      <4>1. PICK k \in found[c] : TRUE
        BY <3>3
      <4>2. k = j
        BY <2>3, <4>1 DEF IInv, Founds, AdvanceLink, p
      <4>3. row.phase[p] # "not_started"
        BY <2>3, <3>1, <4>1, <4>2 DEF CalmInv, RequestsKnow, AdvanceLink, PhaseOf
      <4>4. row' = row /\ job' = job
        BY <1>0, <3>2, <3>3, <4>3 DEF MayLink
      <4>. QED
        BY <2>1, <4>4
    <3>4. CASE found[c] = {}
      <4>. DEFINE u == [row |-> row', job |-> job', ok |-> TRUE]
      <4>1. CASE UNCHANGED <<row, job>>
        BY <2>1, <4>1
      <4>2. ASSUME job[j] = "none", MayLink(row, p) \/ row.link[p] = j \/ row.current = j,
                   row' = IF MayLink(row, p) THEN Link(row, p, j) ELSE row,
                   job' = [job EXCEPT ![j] = "queued"]
            PROVE  EnqueuesAs(b, p, u, j)
        <5>1. b.ok = TRUE
          BY DEF b, Begin, Txn
        <5>2. job' = [job EXCEPT ![j] = IF @ = "none" THEN "queued" ELSE @]
          BY <1>0, <3>1, <4>2
        <5>3. /\ \A q \in Phases :
                    /\ Link(row, p, j).phase[q] = IF q = p THEN "queued" ELSE row.phase[q]
                    /\ Link(row, p, j).link[q] = IF q = p THEN j ELSE row.link[q]
              /\ Link(row, p, j).status = "running" /\ Link(row, p, j).current = j
              /\ Link(row, p, j).pending = row.pending
          BY <1>0, <1>2, <3>1, Fields
        <5>0. u.row = row' /\ u.job = job' /\ u.ok = TRUE
          OBVIOUS
        <5>. HIDE DEF j, u
        <5>4. MayLink(row, p) => row' = Link(row, p, j)
          BY <4>2
        <5>5. ~MayLink(row, p) => row' = row /\ (row.link[p] = j \/ row.current = j)
          BY <4>2
        <5>6. CASE MayLink(row, p)
          <6>. DEFINE l == Link(row, p, j)
          <6>1. row' = l
            BY <5>4, <5>6
          <6>2. /\ \A q \in Phases : /\ l.phase[q] = IF q = p THEN "queued" ELSE row.phase[q]
                                     /\ l.link[q] = IF q = p THEN j ELSE row.link[q]
                /\ l.status = "running" /\ l.current = j /\ l.pending = row.pending
            BY <5>3
          <6>. HIDE DEF l
          <6>3. j[1] = p /\ job[j] \notin Terminal
            BY <3>1, <4>2 DEF Terminal
          <6>4. MayLink(b.row, p)
            BY <1>3, <5>6
          <6>5. /\ u.job = [b.job EXCEPT ![j] = IF @ = "none" THEN "queued" ELSE @]
                /\ u.row.pending = b.row.pending /\ b.job[j] \notin Terminal
            BY <1>3, <5>0, <5>2, <6>1, <6>2, <6>3
          <6>6. /\ \A q \in Phases :
                     /\ u.row.phase[q] = IF q = p THEN "queued" ELSE b.row.phase[q]
                     /\ u.row.link[q] = IF q = p THEN j ELSE b.row.link[q]
                /\ u.row.status = "running" /\ u.row.current = j
            BY <1>3, <5>0, <6>1, <6>2
          <6>7. u.ok = b.ok
            BY <5>0, <5>1
          <6>. HIDE DEF b
          <6>. QED
            BY <6>3, <6>4, <6>5, <6>6, <6>7 DEF EnqueuesAs
        <5>7. CASE ~MayLink(row, p)
          BY <1>3, <3>1, <4>2, <5>0, <5>1, <5>2, <5>5, <5>7 DEF EnqueuesAs, Terminal
        <5>. QED
          BY <5>6, <5>7
      <4>3. u.row = row' /\ u.job = job' /\ u.ok
        OBVIOUS
      <4>4. EnqueuesAs(b, p, u, j) \/ UNCHANGED <<row, job>>
        BY <3>2, <3>4, <4>2
      <4>. HIDE DEF u, j
      <4>5. CASE EnqueuesAs(b, p, u, j)
        <5>1. /\ Agrees(u.row, u.job) /\ Moves(row, job, u.row, u.job)
              /\ Adds(job, u.job) /\ Same(row, u.row)
          BY <1>0, <1>2, <1>3, <3>1, <4>3, <4>5, EnqueuesMove
        <5>. QED
          BY <4>3, <5>1
      <4>. QED
        BY <2>1, <4>4, <4>5
    <3>. QED
      BY <3>3, <3>4
  <2>. QED
    BY <2>2, <2>3
<1>5. RequestsKnow'
  <2>1. \A d \in Clients : pc[d] = "advancing" => seen[d] \in Rows
    BY <1>0 DEF IInv, Well, Shape
  <2>2. \A d \in Clients : pc[d] = "advancing" => Known(seen[d], row', job')
    BY <1>0, <1>4, <2>1, KnownMoves DEF CalmInv, RequestsKnow
  <2>3. \A d \in Clients : pc[d] = "linking" =>
          \A j \in found[d] : row'.phase[PhaseOf(j)] # "not_started"
    BY <1>4, LinksStay
  <2>. QED
    BY <1>0, <1>1, <2>2, <2>3 DEF CalmInv, RequestsKnow
<1>6. ResumesKnow'
  <2>1. \A d \in Clients : ~(pc[d] = "resuming" /\ seen[d].status = "failed")
    BY <1>1 DEF CalmInv, ResumesKnow
  <2>. QED
    BY <1>0, <1>1, <2>1 DEF ResumesKnow
<1>7. WorkersOwn'
  BY <1>0, <1>1, <1>4, WorkersStay
<1>. QED
  BY <1>4, <1>5, <1>6, <1>7 DEF CalmInv

\* A failed phase waits again, and nothing else changes.
LEMMA RelaunchAgrees ==
  ASSUME OnboardingAssumption, NEW r \in Rows, NEW jobs, Agrees(r, jobs),
         NEW p \in Phases, r.phase[p] = "failed", NEW n \in 1 .. MaxRuns,
         NEW s, s = Relaunch(r, p, n)
  PROVE  /\ Agrees(s, jobs)
         /\ \A q \in Phases : s.phase[q] \in Done <=> r.phase[q] \in Done
         /\ s.status = "running" /\ s.phase[p] = "not_started"
         /\ \A q \in Phases : r.phase[q] \notin Open
<1>1. /\ \A q \in Phases : s.phase[q] = IF q = p THEN "not_started" ELSE r.phase[q]
      /\ \A q \in Phases : s.link[q] = IF q = p THEN NoJob ELSE r.link[q]
      /\ s.status = "running" /\ s.current = NoJob /\ s.pending = r.pending
  BY Fields
<1>2. \A q \in Phases : /\ r.phase[q] \notin Open
                        /\ q < p => r.phase[q] \in Done
                        /\ p < q => r.phase[q] = "not_started"
  BY OneFailed DEF Agrees
<1>3. \A q \in Phases : q < p \/ q = p \/ p < q
  BY DEF Phases
<1>4. \A q \in Phases : /\ s.phase[q] \in Done \cup {"not_started"}
                        /\ s.phase[q] # "not_started" => q < p
                        /\ q < p => s.phase[q] \in Done
  <2>. SUFFICES ASSUME NEW q \in Phases
                PROVE  /\ s.phase[q] \in Done \cup {"not_started"}
                       /\ s.phase[q] # "not_started" => q < p
                       /\ q < p => s.phase[q] \in Done
    OBVIOUS
  <2>1. CASE q = p
    BY <1>1, <2>1 DEF Phases
  <2>2. CASE q < p
    BY <1>1, <1>2, <2>2 DEF Phases
  <2>3. CASE p < q
    BY <1>1, <1>2, <2>3 DEF Phases
  <2>. QED
    BY <1>3, <2>1, <2>2, <2>3
<1>5. InOrder(s)
  <2>1. \A q, x \in Phases : x < q /\ q < p => x < p
    BY DEF Phases
  <2>. QED
    BY <1>1, <1>4, <2>1 DEF InOrder, Agrees, Done
<1>6. \A j \in Jobs : jobs[j] \notin Live
  BY <1>2 DEF Agrees, Jobs
<1>7. Agrees(s, jobs)
  BY <1>1, <1>4, <1>5, <1>6 DEF Agrees, Open, Done
<1>. QED
  BY <1>1, <1>2, <1>7 DEF Done

\* A resume that read a failed onboarding finds it as it was.
LEMMA ResumeWriteCalm ==
  ASSUME OnboardingAssumption, IInv, CalmInv, NEW c \in Clients, ResumeWrite(c)
  PROVE  CalmInv' /\ RowStep(row, row')
<1>. USE DEF db, open, Actors
<1>. DEFINE failed == FailedPhases(seen[c])
            p == CHOOSE q \in failed : \A x \in failed : q <= x
            r == Relaunch(row, p, drawn + 1)
            b == Txn(r, r, job, drawn + 1)
            u == Retry(p)
<1>0. /\ pc \in [Actors -> Control] /\ seen \in [Actors -> Rows \cup {NoRow}]
      /\ job \in [Jobs -> JobStatus] /\ drawn \in 1 .. MaxRuns /\ row \in Rows
      /\ MaxRuns \in Nat /\ Workers \cap Clients = {} /\ NoJob \notin Jobs
      /\ Agrees(row, job) /\ Undrawn(job, drawn) /\ row.run <= drawn
  BY DEF IInv, Well, TypeOK, OnboardingAssumption, CalmInv, Runs
<1>1. /\ pc[c] = "resuming" /\ drawn + 4 <= MaxRuns /\ UNCHANGED <<owner, held, found>>
      /\ seen' = [seen EXCEPT ![c] = NoRow]
      /\ \E x \in {"advance", "idle"} : pc' = [pc EXCEPT ![c] = x]
      /\ \/ seen[c].status = "failed" /\ failed # {} /\ u.ok /\ Commit(u)
         \/ seen[c].status = "failed" /\ failed = {}
         \/ UNCHANGED <<row, job>>
  BY DEF ResumeWrite, RunsLeft, Forget, Goto
<1>2. /\ \A w \in Workers : pc'[w] = pc[w] /\ seen'[w] = seen[w]
      /\ found' = found
      /\ \A d \in Clients : /\ d # c => pc'[d] = pc[d] /\ seen'[d] = seen[d]
                            /\ d = c => pc'[d] \in {"advance", "idle"}
  BY <1>0, <1>1
<1>3. CASE UNCHANGED <<row, job>>
  <2>1. RequestsKnow' /\ ResumesKnow'
    BY <1>2, <1>3 DEF CalmInv, RequestsKnow, ResumesKnow
  <2>2. WorkersOwn'
    BY <1>1, <1>2, <1>3, WorkersStay DEF Adds
  <2>. QED
    BY <1>0, <1>3, <2>1, <2>2 DEF CalmInv, RowStep, Same
<1>4. ASSUME seen[c].status = "failed"
      PROVE  /\ row = seen[c] /\ failed # {} /\ p \in Phases /\ row.phase[p] = "failed"
             /\ \A d \in Clients : /\ pc[d] \notin {"looking", "linking"}
                                   /\ pc[d] = "advancing" => seen[d] = row
                                   /\ pc[d] = "resuming" => d = c
  <2>1. /\ row = seen[c]
        /\ \A d \in Clients : /\ pc[d] \notin {"looking", "linking"}
                              /\ pc[d] = "advancing" => seen[d] = row
                              /\ pc[d] = "resuming" => d = c
    BY <1>1, <1>4 DEF CalmInv, ResumesKnow
  <2>2. failed # {} /\ failed \in SUBSET Phases /\ \A q \in failed : row.phase[q] = "failed"
    BY <1>0, <1>4, <2>1 DEF Agrees, InOrder, FailedPhases
  <2>. HIDE DEF failed
  <2>3. p \in failed
    BY <2>2, FirstPhase
  <2>. QED
    BY <2>1, <2>2, <2>3
<1>5. CASE seen[c].status = "failed" /\ u.ok /\ Commit(u)
  <2>1. u = EnqueueAndLink(b, p)
    BY DEF Retry
  <2>2. p \in Phases /\ row.phase[p] = "failed"
    BY <1>4, <1>5
  <2>. HIDE DEF failed, p, u
  <2>3. drawn + 1 \in 1 .. MaxRuns
    BY <1>0, <1>1
  <2>4. r \in Rows /\ r.run = drawn + 1
    BY <1>0, <2>2, <2>3, RowUpdates
  <2>5. /\ Agrees(r, job)
        /\ \A q \in Phases : r.phase[q] \in Done <=> row.phase[q] \in Done
        /\ r.status = "running" /\ r.phase[p] = "not_started"
        /\ \A q \in Phases : row.phase[q] \notin Open
    BY <1>0, <2>2, <2>3, RelaunchAgrees
  <2>. HIDE DEF r
  <2>6. b = [seen |-> r, row |-> r, job |-> job, drawn |-> drawn + 1, ok |-> TRUE]
    BY DEF Txn
  <2>. HIDE DEF b
  <2>7. Undrawn(job, drawn + 1)
    BY <1>0 DEF Undrawn, Jobs
  <2>8. GoodTxn(b) /\ b.row = r /\ b.job = job /\ b.drawn < MaxRuns
    BY <1>0, <1>1, <2>3, <2>4, <2>6, <2>7 DEF GoodTxn, Txns
  <2>9. /\ Agrees(u.row, u.job) /\ Moves(r, job, u.row, u.job) /\ Adds(job, u.job)
        /\ Same(r, u.row)
    BY <1>5, <2>1, <2>2, <2>5, <2>8, EnqueueMoves
  <2>10. row' = u.row /\ job' = u.job
    BY <1>5 DEF Commit
  <2>11. RequestsKnow'
    <3>1. Known(row, row', job')
      <4>1. \A q \in Phases : row.phase[q] \in Done => row'.phase[q] \in Done
        BY <2>5, <2>9, <2>10 DEF Moves
      <4>. QED
        BY <1>0, <2>5, <4>1 DEF Known, Agrees
    <3>2. \A d \in Clients : /\ pc[d] # "linking"
                             /\ pc[d] = "advancing" => seen[d] = row
      BY <1>4, <1>5
    <3>. QED
      BY <1>2, <3>1, <3>2 DEF CalmInv, RequestsKnow
  <2>12. ResumesKnow'
    <3>1. \A d \in Clients : pc[d] = "resuming" => d = c
      BY <1>4, <1>5
    <3>. QED
      BY <1>2, <3>1 DEF ResumesKnow
  <2>13. WorkersOwn'
    BY <1>1, <1>2, <2>9, <2>10, WorkersStay
  <2>14. RowStep(row, row')
    <3>1. row'.status # "failed" /\ \A q \in Phases : row'.phase[q] \in Done <=> row.phase[q] \in Done
      BY <2>5, <2>9, <2>10 DEF Same
    <3>2. row'.phase[p] \notin Done
      BY <2>2, <3>1 DEF Done
    <3>3. row'.status # "completed"
      BY <2>2, <2>9, <2>10, <3>2 DEF Agrees, InOrder
    <3>4. row.status = "failed"
      BY <2>2, <1>0 DEF Agrees, InOrder
    <3>. QED
      BY <3>1, <3>3, <3>4 DEF RowStep
  <2>. QED
    BY <2>9, <2>10, <2>11, <2>12, <2>13, <2>14 DEF CalmInv
<1>. QED
  BY <1>1, <1>3, <1>4, <1>5

\* Where nothing is lost, no owner changes under its worker and no row is repaired.
LEMMA CalmSteps ==
  ASSUME OnboardingAssumption, Calm, IInv, CalmInv, cancelling = {}, [Next]_vars
  PROVE  CalmInv' /\ RowStep(row, row')
<1>. DEFINE work == \/ \E w \in Workers : \/ Claim(w) \/ StartRead(w) \/ FinalizeRead(w)
                                          \/ HandlerThrows(w) \/ FailRead(w) \/ Crash(w)
                    \/ \E j \in Jobs : Release(j)
            read == \E c \in Clients : \/ AdvanceRead(c) \/ AdvanceCheck(c) \/ AdvanceFind(c)
                                      \/ Authenticate(c) \/ ResumeRead(c)
            good == CalmInv' /\ RowStep(row, row')
<1>0. row' = row => RowStep(row, row')
  BY DEF RowStep, Same
<1>1. CASE UNCHANGED vars
  <2>1. CalmInv'
    <3>1. UNCHANGED <<row, job, owner, held, pc, seen, found>>
      BY <1>1 DEF vars, db, open
    <3>. QED
      BY <3>1 DEF CalmInv, Agrees, InOrder, WorkersOwn, RequestsKnow, ResumesKnow, Known
  <2>. QED
    BY <1>0, <1>1, <2>1 DEF vars, db
<1>2. CASE work
  <2>1. row' = row
    BY <1>2 DEF Claim, StartRead, FinalizeRead, HandlerThrows, FailRead, Crash, Release, db
  <2>. QED
    BY <1>0, <1>2, <2>1, WorkersCalm
<1>3. CASE read
  <2>1. row' = row
    BY <1>3 DEF AdvanceRead, AdvanceCheck, AdvanceFind, Authenticate, ResumeRead, db
  <2>. QED
    BY <1>0, <1>3, <2>1, ReadsCalm
<1>4. \A w \in Workers : pc[w] \in Busy \cup {"idle"}
  BY DEF CalmInv, WorkersOwn
<1>5. ASSUME NEW a \in Actors, AdvanceOnboarding(a) PROVE good
  <2>1. a \in Clients
    BY <1>4, <1>5 DEF AdvanceOnboarding, AdvanceRead, AdvanceCheck, AdvanceWrite, AdvanceFind,
         AdvanceRenew, AdvanceLink, Actors, Busy
  <2>2. CASE AdvanceRead(a) \/ AdvanceCheck(a) \/ AdvanceFind(a)
    BY <1>3, <2>1, <2>2
  <2>3. CASE AdvanceWrite(a)
    BY <2>1, <2>3, AdvanceWriteCalm DEF RowStep
  <2>4. CASE AdvanceRenew(a) \/ AdvanceLink(a)
    BY <2>1, <2>4, AdvanceLinkCalm DEF RowStep
  <2>. QED
    BY <1>5, <2>2, <2>3, <2>4 DEF AdvanceOnboarding
<1>6. ASSUME NEW w \in Workers, ExecuteJob(w) PROVE good \/ work
  <2>1. ~OwnershipConflict(w)
    BY BusyAlone DEF OwnershipConflict, Owns, Busy
  <2>2. StartWrite(w) \/ FinalizeWrite(w) \/ FailWrite(w) => good
    BY StartWriteCalm, FinalizeWriteCalm, FailWriteCalm DEF RowStep
  <2>. HIDE DEF good
  <2>. QED
    BY <1>6, <2>1, <2>2 DEF ExecuteJob
<1>7. \A w \in Workers : ~Prepare(w)
  <2>1. ~row.pending
    BY DEF CalmInv, Agrees, InOrder
  <2>2. ~Mismatch(row)
    BY DEF CalmInv, Agrees, Mismatch, Live, Waiting, Terminal
  <2>. QED
    BY <1>4, <2>1, <2>2
       DEF Prepare, RepairRead, RepairWrite, ReconcileRead, ReconcileWrite, Busy
<1>8. ASSUME NEW c \in Clients, Request(c) PROVE good \/ read
  <2>1. ~BlockOrders(c)
    BY DEF BlockOrders, Event, Calm
  <2>2. ResumeWrite(c) => good
    BY ResumeWriteCalm
  <2>. HIDE DEF good
  <2>. QED
    BY <1>8, <2>1, <2>2 DEF Request
<1>9. ~UninstallCancel /\ \A p \in Phases : ~Backfill(p)
  BY DEF UninstallCancel, Backfill, Event, Calm
<1>. HIDE DEF work, read
<1>10. Next => good \/ work \/ read
  <2>. HIDE DEF good
  <2>1. \A w \in Workers : Crash(w) => work
    BY DEF work
  <2>2. \A j \in Jobs : Release(j) => work
    BY DEF work
  <2>. QED
    BY <1>5, <1>6, <1>7, <1>8, <1>9, <2>1, <2>2 DEF Next
<1>. QED
  BY <1>1, <1>2, <1>3, <1>10

LEMMA StartsCalm == OnboardingAssumption /\ Init => CalmInv
BY DEF Init, CalmInv, Agrees, InOrder, WorkersOwn, RequestsKnow, ResumesKnow,
       OnboardingAssumption, Actors, Open, Done, Live, Waiting, Busy, Jobs

\* Where no store is uninstalled, no uninstall is under way.
Installed == cancelling = {}

LEMMA StaysInstalled ==
  ASSUME Calm, Installed, [Next]_vars
  PROVE  Installed'
<1>. USE DEF open, Installed
<1>1. ASSUME NEW a \in Actors, AdvanceOnboarding(a) PROVE cancelling' = cancelling
  BY <1>1 DEF AdvanceOnboarding, AdvanceRead, AdvanceCheck, AdvanceWrite, AdvanceFind,
       AdvanceRenew, AdvanceLink
<1>2. ASSUME NEW w \in Workers, ExecuteJob(w) PROVE cancelling' = cancelling
  BY <1>2 DEF ExecuteJob, Claim, StartRead, StartWrite, FinalizeRead, FinalizeWrite,
       HandlerThrows, FailRead, FailWrite, OwnershipConflict
<1>3. ASSUME NEW w \in Workers, Prepare(w) \/ Crash(w) PROVE cancelling' = cancelling
  BY <1>3 DEF Prepare, RepairRead, RepairWrite, ReconcileRead, ReconcileWrite, Crash
<1>4. ASSUME NEW j \in Jobs, Release(j) PROVE cancelling' = cancelling
  BY <1>4 DEF Release
<1>5. ASSUME NEW p \in Phases, Backfill(p) PROVE cancelling' = cancelling
  BY <1>5 DEF Backfill
<1>6. ASSUME NEW c \in Clients, Request(c) PROVE cancelling' = cancelling
  BY <1>6 DEF Request, Authenticate, BlockOrders, ResumeRead, ResumeWrite
<1>7. ~UninstallCancel
  BY DEF UninstallCancel, Event, Calm
<1>8. CASE UNCHANGED vars
  BY <1>8 DEF vars
<1>. QED
  BY <1>1, <1>2, <1>3, <1>4, <1>5, <1>6, <1>7, <1>8 DEF Next

LEMMA AlwaysCalm == Calm /\ Spec => [](Calm /\ Installed /\ CalmInv)
<1>1. Init => CalmInv /\ Installed
  BY OnboardingAssumption, StartsCalm DEF Init, Installed
<1>2. Calm /\ IInv /\ CalmInv /\ Installed /\ [Next]_vars
        => CalmInv' /\ Installed'
  BY OnboardingAssumption, CalmSteps, StaysInstalled DEF Installed
<1>3. Calm => Calm'
  BY DEF Calm
<1>4. Calm => []Calm
  BY <1>3, PTL
<1>. QED
  BY <1>1, <1>2, <1>4, OnboardingInvariant, PTL DEF Spec

\* Two jobs of a store are never live together, however many workers and
\* requests there are and wherever they crash, as long as no lock expires under
\* its owner, no store is uninstalled or backfilled, and no resume begins beside
\* another request: the transactions of the finalizers and of advanceOnboarding
\* see enough of the row (onboarding.server.ts:802).
THEOREM JobsAreSingle == Calm /\ Spec => []OneLiveJob
<1>1. CalmInv => OneLiveJob
  BY OneLive DEF CalmInv, OneLiveJob
<1>. QED
  BY <1>1, AlwaysCalm, PTL

-----------------------------------------------------------------------------
(* The pipeline                                                            *)

DoneBefore(r) == {n \in 0 .. 3 : \A p \in 1 .. n : r.phase[p] \in Done}
Count(r) == CHOOSE n \in DoneBefore(r) : \A m \in DoneBefore(r) : m <= n
Outcome(r) == IF r.status \in {"completed", "failed"} THEN r.status ELSE "open"

\* Where the phases are done in order, their number is that of the first one that is not.
LEMMA CountIs ==
  ASSUME NEW r, NEW n \in 0 .. 3,
         \A p \in Phases : r.phase[p] \in Done <=> p <= n
  PROVE  Count(r) = n
<1>1. DoneBefore(r) = 0 .. n
  BY DEF DoneBefore, Phases
<1>2. \A m \in 0 .. n : (\A k \in 0 .. n : k <= m) <=> m = n
  OBVIOUS
<1>. QED
  BY <1>1, <1>2 DEF Count

\* The phases before an open one are done, and no others.
LEMMA OpenCounts ==
  ASSUME NEW r, InOrder(r), NEW p \in Phases, r.phase[p] \in Open
  PROVE  \A q \in Phases : r.phase[q] \in Done <=> q <= p - 1
<1>. SUFFICES ASSUME NEW q \in Phases PROVE r.phase[q] \in Done <=> q <= p - 1
  OBVIOUS
<1>1. /\ q < p => r.phase[q] \in Done
      /\ p < q => r.phase[q] = "not_started"
  BY OneOpen
<1>2. r.phase[p] \notin Done
  BY DEF Open, Done
<1>3. q = 1 \/ q = 2 \/ q = 3
  BY DEF Phases
<1>4. p = 1 \/ p = 2 \/ p = 3
  BY DEF Phases
<1>5. CASE q < p
  BY <1>1, <1>3, <1>4, <1>5
<1>6. CASE q = p
  BY <1>2, <1>4, <1>6
<1>7. CASE p < q
  BY <1>1, <1>3, <1>4, <1>7 DEF Done
<1>. QED
  BY <1>3, <1>4, <1>5, <1>6, <1>7

\* Whatever is done, done in order, is a number of phases.
LEMMA SameCounts ==
  ASSUME NEW r, NEW s, \A p \in Phases : s.phase[p] \in Done <=> r.phase[p] \in Done
  PROVE  Count(s) = Count(r)
<1>1. DoneBefore(s) = DoneBefore(r)
  BY DEF DoneBefore, Phases
<1>. QED
  BY <1>1 DEF Count

\* Each step of the onboarding is one of the pipeline, or none.
LEMMA RowStepCounts ==
  ASSUME NEW r, NEW s, InOrder(r), InOrder(s), RowStep(r, s)
  PROVE  \/ Count(s) = Count(r) /\ Outcome(s) = Outcome(r)
         \/ /\ Outcome(r) = "open" /\ Count(r) \in 0 .. 2 /\ Count(s) = Count(r) + 1
            /\ Outcome(s) = "open" \/ (Count(s) = 3 /\ Outcome(s) = "completed")
         \/ /\ Outcome(r) = "open" /\ Count(r) = 3
            /\ Outcome(s) = "completed" /\ Count(s) = Count(r)
         \/ /\ Outcome(r) = "open" /\ Count(r) \in 0 .. 2
            /\ Outcome(s) = "failed" /\ Count(s) = Count(r)
         \/ Outcome(r) = "failed" /\ Outcome(s) = "open" /\ Count(s) = Count(r)
<1>0. ASSUME NEW x, InOrder(x), x.status = "completed" PROVE Count(x) = 3
  <2>1. \A p \in Phases : x.phase[p] \in Done <=> p <= 3
    BY <1>0 DEF InOrder, Phases
  <2>. QED
    BY <2>1, CountIs
<1>1. ASSUME NEW p \in Phases, r.phase[p] \in Open
      PROVE  Outcome(r) = "open" /\ Count(r) = p - 1
  <2>1. r.status # "failed" /\ r.status # "completed"
    BY <1>1, OneOpen DEF InOrder, Open, Done
  <2>2. p - 1 \in 0 .. 3
    BY DEF Phases
  <2>. QED
    BY <1>1, <2>1, <2>2, CountIs, OpenCounts DEF Outcome
<1>2. CASE Same(r, s)
  <2>1. Count(s) = Count(r)
    BY <1>2, SameCounts DEF Same
  <2>2. s.status = "completed" => Count(r) = 3
    BY <1>0, <2>1
  <2>. QED
    BY <1>2, <2>1, <2>2 DEF Same, Outcome
<1>3. ASSUME NEW p \in Phases, r.phase[p] \in Open, s.status # "failed",
             \A q \in Phases : s.phase[q] \in Done <=> r.phase[q] \in Done \/ q = p
      PROVE  /\ Outcome(r) = "open" /\ Count(r) \in 0 .. 2 /\ Count(s) = Count(r) + 1
             /\ Outcome(s) = "open" \/ (Count(s) = 3 /\ Outcome(s) = "completed")
  <2>1. \A q \in Phases : r.phase[q] \in Done <=> q <= p - 1
    BY <1>3, OpenCounts
  <2>2. \A q \in Phases : s.phase[q] \in Done <=> q <= p
    BY <1>3, <2>1 DEF Phases
  <2>3. p \in 0 .. 3 /\ p - 1 \in 0 .. 2 /\ (p - 1) + 1 = p
    BY DEF Phases
  <2>4. Count(s) = p
    BY <2>2, <2>3, CountIs
  <2>5. s.status = "completed" => Count(s) = 3
    BY <1>0
  <2>. QED
    <3>1. Outcome(r) = "open" /\ Count(r) = p - 1
      BY <1>1, <1>3
    <3>2. Outcome(s) = "open" \/ (s.status = "completed" /\ Outcome(s) = "completed")
      BY <1>3 DEF Outcome
    <3>. QED
      BY <2>3, <2>4, <2>5, <3>1, <3>2
<1>4. ASSUME NEW p \in Phases, r.phase[p] \in Open, s.status = "failed",
             \A q \in Phases : s.phase[q] \in Done <=> r.phase[q] \in Done
      PROVE  /\ Outcome(r) = "open" /\ Count(r) \in 0 .. 2
             /\ Outcome(s) = "failed" /\ Count(s) = Count(r)
  <2>1. Count(s) = Count(r)
    BY <1>4, SameCounts
  <2>2. p - 1 \in 0 .. 2
    BY DEF Phases
  <2>. QED
    BY <1>1, <1>4, <2>1, <2>2 DEF Outcome
<1>5. ASSUME r.status = "failed", s.status \notin {"failed", "completed"},
             \A q \in Phases : s.phase[q] \in Done <=> r.phase[q] \in Done
      PROVE  Outcome(r) = "failed" /\ Outcome(s) = "open" /\ Count(s) = Count(r)
  BY <1>5, SameCounts DEF Outcome
<1>. QED
  BY <1>2, <1>3, <1>4, <1>5 DEF RowStep

\* The transactions of finalizers, requests and resumes, with crashes, retries and
\* errors between them, implement the pipeline (under the premise of
\* JobsAreSingle): no phase is done twice, skipped or undone, and a completed
\* onboarding stays completed (onboarding.server.ts:802).
THEOREM OnboardingImplementsPipeline == Calm /\ Spec => PipelineSpec
<1>1. Init => P!Init
  <2>. SUFFICES ASSUME Init PROVE P!Init
    OBVIOUS
  <2>1. \A p \in Phases : row.phase[p] \in Done <=> p <= 0
    BY DEF Init, Done, Phases
  <2>2. Count(row) = 0
    BY <2>1, CountIs
  <2>3. Outcome(row) = "open"
    BY DEF Init, Outcome
  <2>. QED
    BY <2>2, <2>3 DEF P!Init, Prefix, Count, DoneBefore, Outcome
<1>2. ASSUME Calm, IInv, CalmInv, Installed, [Next]_vars
      PROVE  [P!Next]_<<CHOOSE n \in Prefix : \A m \in Prefix : m <= n,
                        IF row.status \in {"completed", "failed"} THEN row.status
                                                                 ELSE "open">>
  <2>1. InOrder(row) /\ InOrder(row') /\ RowStep(row, row')
    BY <1>2, OnboardingAssumption, CalmSteps DEF CalmInv, Agrees, Installed
  <2>2. \/ Count(row') = Count(row) /\ Outcome(row') = Outcome(row)
        \/ /\ Outcome(row) = "open" /\ Count(row) \in 0 .. 2
           /\ Count(row') = Count(row) + 1
           /\ Outcome(row') = "open" \/ (Count(row') = 3 /\ Outcome(row') = "completed")
        \/ /\ Outcome(row) = "open" /\ Count(row) = 3
           /\ Outcome(row') = "completed" /\ Count(row') = Count(row)
        \/ /\ Outcome(row) = "open" /\ Count(row) \in 0 .. 2
           /\ Outcome(row') = "failed" /\ Count(row') = Count(row)
        \/ /\ Outcome(row) = "failed" /\ Outcome(row') = "open"
           /\ Count(row') = Count(row)
    BY <2>1, RowStepCounts
  <2>. DEFINE n == CHOOSE n \in Prefix : \A m \in Prefix : m <= n
              o == IF row.status \in {"completed", "failed"} THEN row.status ELSE "open"
  <2>3. n = Count(row) /\ n' = Count(row')
    BY DEF Prefix, Count, DoneBefore
  <2>4. o = Outcome(row) /\ o' = Outcome(row')
    BY DEF Outcome
  <2>. HIDE DEF n, o
  <2>5. \/ n' = n /\ o' = o
        \/ /\ o = "open" /\ n < 3 /\ n' = n + 1
           /\ o' = o \/ (n' = 3 /\ o' = "completed")
        \/ o = "open" /\ n = 3 /\ o' = "completed" /\ n' = n
        \/ o = "open" /\ n < 3 /\ o' = "failed" /\ n' = n
        \/ o = "failed" /\ o' = "open" /\ n' = n
    BY <2>2, <2>3, <2>4
  <2>. QED
    BY <2>5 DEF P!Next, P!Sync, P!Complete, P!Fail, P!Retry, n, o
<1>. QED
  BY <1>1, <1>2, AlwaysCalm, OnboardingInvariant, PTL DEF Spec, PipelineSpec, P!Spec
=============================================================================
