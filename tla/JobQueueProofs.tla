--------------------------- MODULE JobQueueProofs ---------------------------
(***************************************************************************)
(* What holds of the job queue for any jobs, workers, sweeps, operators,   *)
(* durations and bounds: its type, that only active jobs are locked, that  *)
(* no job is stranded, that dead letters are exhausted, and that it        *)
(* implements the fenced lease, hence that its generations fence; then     *)
(* that no sweep takes a job from a worker that keeps its heartbeat, that  *)
(* every attempt beyond the limit is paid for by a fault, an uninstall or  *)
(* an operator, and that only a fault brings a completed job back.         *)
(***************************************************************************)
EXTENDS JobQueue, FiniteSetTheorems, TLAPS

(* What the row updates and the worker's exit do to the types.             *)

LEMMA RefreshLockType ==
  ASSUME TypeOK, NEW j, NEW lock \in Int, RefreshLock(j, lock)
  PROVE  /\ leased' \in [Jobs -> BOOLEAN]
         /\ lockLeft' \in [Jobs -> Int]
         /\ beatAge' \in [Jobs -> Nat]
<1>1. leased' \in [Jobs -> BOOLEAN]
  BY DEF TypeOK, RefreshLock
<1>2. lockLeft' \in [Jobs -> Int]
  BY DEF TypeOK, RefreshLock
<1>3. beatAge' \in [Jobs -> Nat]
  BY DEF TypeOK, RefreshLock
<1>4. QED BY <1>1, <1>2, <1>3

LEMMA ClearLockType ==
  ASSUME TypeOK, NEW J, ClearLock(J)
  PROVE  /\ lockedBy' \in [Jobs -> Workers \cup {NoWorker}]
         /\ leased' \in [Jobs -> BOOLEAN]
         /\ lockLeft' \in [Jobs -> Int]
         /\ beatAge' \in [Jobs -> Nat]
  BY DEF TypeOK, ClearLock

LEMMA LeaveType ==
  ASSUME TypeOK, NEW w \in Workers, Leave(w)
  PROVE  /\ pc' \in [Workers -> Control]
         /\ held' \in [Workers -> Jobs \cup {NoJob}]
         /\ token' \in [Workers -> Nat]
         /\ beatDue' \in [Workers -> BOOLEAN]
         /\ beatFailed' \in [Workers -> BOOLEAN]
         /\ stalled' \in [Workers -> BOOLEAN]
  BY DEF TypeOK, Control, Leave

LEMMA ThrowType ==
  ASSUME TypeOK, NEW w \in Workers, Throw(w)
  PROVE  /\ pc' \in [Workers -> Control]
         /\ beatDue' \in [Workers -> BOOLEAN]
         /\ UNCHANGED <<held, token, beatFailed, stalled>>
  BY DEF TypeOK, Control, Throw

LEMMA RetryDelayType == ASSUME NEW n PROVE RetryDelay(n) \in Nat
  BY QueueAssumption DEF RetryDelay

(* Type correctness.                                                       *)
LEMMA TypeStep == ASSUME TypeOK, [Next]_vars PROVE TypeOK'
<1> USE QueueAssumption DEF TypeOK, Status, Waiting, Active, Terminal,
   Control, rowVars, workerVars, sweepVars, budgets
<1>1. CASE \E j \in Jobs : Enqueue(j)
  <2>1. Cardinality({k \in Jobs : status[k] # "none"}) \in Nat
    BY FS_Subset, FS_CardinalityType
  <2>2. QED BY <1>1, <2>1 DEF Enqueue
<1>2. CASE \E j \in Jobs : CancelJob(j)
  BY <1>2 DEF CancelJob, ClearLock
<1>3. CASE \E w \in Workers : Claim(w)
  BY <1>3 DEF Claim, Claimable, NextGeneration, RefreshLock
<1>4. CASE \E w \in Workers : BeginRead(w)
  BY <1>4 DEF BeginRead, OpenTx
<1>5. CASE \E w \in Workers : BeginWrite(w)
  <2>1. PICK w \in Workers : BeginWrite(w) BY <1>5
  <2>2. RefreshLock(held[w], LockDuration) /\ LockDuration \in Int
    BY <2>1 DEF BeginWrite, BeginLock
  <2>3. QED BY <2>1, <2>2, RefreshLockType DEF BeginWrite, CommitTx
<1>6. CASE \E w \in Workers : ExtendRead(w)
  BY <1>6 DEF ExtendRead, OpenTx
<1>7. CASE \E w \in Workers : ExtendWrite(w)
  <2>1. PICK w \in Workers : ExtendWrite(w) BY <1>7
  <2>2. RefreshLock(held[w], HeartbeatLock) /\ HeartbeatLock \in Int
    BY <2>1 DEF ExtendWrite
  <2>3. QED BY <2>1, <2>2, RefreshLockType DEF ExtendWrite, CommitTx
<1>8. CASE \E w \in Workers : BeatRead(w)
  <2>1. PICK w \in Workers : BeatRead(w) BY <1>8
  <2>2. CASE Owns(w) BY <2>1, <2>2 DEF BeatRead
  <2>3. CASE ~Owns(w) BY <2>1, <2>3 DEF BeatRead, LossRecorded
  <2>4. QED BY <2>2, <2>3
<1>9. CASE \E w \in Workers : BeatWrite(w)
  BY <1>9 DEF BeatWrite, BeatLock, RefreshLock
<1>10. CASE \E w \in Workers : CompleteRead(w)
  BY <1>10 DEF CompleteRead, OpenTx
<1>11. CASE \E w \in Workers : CompleteWrite(w)
  <2>1. PICK w \in Workers : CompleteWrite(w) BY <1>11
  <2>2. ClearLock({held[w]}) BY <2>1 DEF CompleteWrite
  <2>3. CASE Leave(w)
    BY <2>1, <2>2, <2>3, ClearLockType, LeaveType DEF CompleteWrite, CommitTx
  <2>4. CASE Throw(w)
    BY <2>1, <2>2, <2>4, ClearLockType, ThrowType DEF CompleteWrite, CommitTx
  <2>5. QED BY <2>1, <2>3, <2>4 DEF CompleteWrite
<1>12. CASE \E w \in Workers : HandlerThrows(w)
  BY <1>12 DEF HandlerThrows, Throw
<1>13. CASE \E w \in Workers : FailRead(w)
  <2>1. PICK w \in Workers : FailRead(w) BY <1>13
  <2>2. PICK jitter \in 0 .. MaxJitter :
          retryIn' = [retryIn EXCEPT ![w] =
                        IF ShouldRetry(held[w])
                          THEN RetryDelay(attempts[held[w]]) + jitter
                          ELSE NoRetry]
    BY <2>1 DEF FailRead
  <2>3. RetryDelay(attempts[held[w]]) + jitter \in Nat
    BY RetryDelayType
  <2>4. retryIn' \in [Workers -> Nat \cup {NoRetry}]
    BY <2>2, <2>3
  <2>5. QED BY <2>1, <2>4 DEF FailRead, OpenTx
<1>14. CASE \E w \in Workers : FailWrite(w)
  <2>1. PICK w \in Workers : FailWrite(w) BY <1>14
  <2>2. ClearLock({held[w]}) /\ Leave(w) BY <2>1 DEF FailWrite
  <2>3. delay' = [delay EXCEPT ![held[w]] =
                     IF retryIn[w] # NoRetry THEN retryIn[w] ELSE @]
    BY <2>1 DEF FailWrite
  <2>5. delay' \in [Jobs -> Nat]
    BY <2>3
  <2>6. status' \in [Jobs -> Status]
    BY <2>1 DEF FailWrite, AfterFailure
  <2>7. QED
    BY <2>1, <2>2, <2>5, <2>6, ClearLockType, LeaveType DEF FailWrite, CommitTx
<1>15. CASE \E w \in Workers : OwnershipConflict(w)
  <2>1. PICK w \in Workers : OwnershipConflict(w) BY <1>15
  <2>2. CASE Leave(w) BY <2>1, <2>2, LeaveType DEF OwnershipConflict
  <2>3. CASE Throw(w) BY <2>1, <2>3, ThrowType DEF OwnershipConflict
  <2>4. QED BY <2>1, <2>2, <2>3 DEF OwnershipConflict
<1>16. CASE \E w \in Workers : Crash(w)
  BY <1>16 DEF Crash, Fault, Gone
<1>17. CASE \E w \in Workers : BeatLost(w)
  BY <1>17 DEF BeatLost, Fault
<1>18. CASE \E w \in Workers : Abandon(w)
  BY <1>18 DEF Abandon, Fault, Gone
<1>19. CASE \E w \in Workers : Stall(w)
  BY <1>19 DEF Stall, Fault
<1>20. CASE \E s \in Sweepers : SweepScan(s)
  BY <1>20 DEF SweepScan
<1>21. CASE \E s \in Sweepers : ReleaseRead(s)
  BY <1>21 DEF ReleaseRead
<1>22. CASE \E s \in Sweepers : ReleaseWrite(s)
  BY <1>22 DEF ReleaseWrite, ClearLock
<1>23. CASE \E s \in Sweepers : SweepAbort(s)
  BY <1>23 DEF SweepAbort, Fault
<1>24. CASE \E s \in Stores : CancelStoreJobs(s)
  BY <1>24 DEF CancelStoreJobs, ClearLock
<1>25. CASE \E o \in Operators : RequeueRead(o)
  BY <1>25 DEF RequeueRead
<1>26. CASE \E o \in Operators : RequeueWrite(o)
  BY <1>26 DEF RequeueWrite, ClearLock
<1>27. CASE Tick
  BY <1>27 DEF Tick
<1>28. CASE UNCHANGED vars
  BY <1>28 DEF vars
<1>29. QED
  BY <1>1, <1>2, <1>3, <1>4, <1>5, <1>6, <1>7, <1>8, <1>9, <1>10, <1>11,
     <1>12, <1>13, <1>14, <1>15, <1>16, <1>17, <1>18, <1>19, <1>20, <1>21,
     <1>22, <1>23, <1>24, <1>25, <1>26, <1>27, <1>28 DEF Next, WorkerStep,
     WorkerFault, SweepStep

\* Every variable of the queue keeps its type.
THEOREM TypeCorrect == Spec => []TypeOK
<1>1. Init => TypeOK
  BY QueueAssumption DEF Init, TypeOK, Status, Control
<1>2. QED BY <1>1, TypeStep, PTL DEF Spec

(* A worker's main flow: it holds a job exactly while it executes one, and *)
(* a transaction it has open belongs to the step it is at.                 *)

Shape == \A w \in Workers :
  /\ pc[w] \in {"idle", "gone"} <=> held[w] = NoJob
  /\ tx[w] = "begin" => pc[w] = "claimed"
  /\ tx[w] = "extend" => pc[w] = "begun"
  /\ tx[w] = "complete" => pc[w] = "working"
  /\ tx[w] = "fail" => pc[w] = "failing"

LEMMA ShapeStep == ASSUME TypeOK, Shape, [Next]_vars PROVE Shape'
<1> USE QueueAssumption DEF TypeOK, Control, Shape, rowVars, workerVars,
   sweepVars, budgets
<1>1. CASE \E j \in Jobs : Enqueue(j)
  BY <1>1 DEF Enqueue
<1>2. CASE \E j \in Jobs : CancelJob(j)
  BY <1>2 DEF CancelJob, ClearLock
<1>3. CASE \E w \in Workers : Claim(w)
  BY <1>3 DEF Claim, Claimable, NextGeneration, RefreshLock
<1>4. CASE \E w \in Workers : BeginRead(w)
  BY <1>4 DEF BeginRead, OpenTx
<1>5. CASE \E w \in Workers : BeginWrite(w)
  BY <1>5 DEF BeginWrite, CommitTx, BeginLock, RefreshLock
<1>6. CASE \E w \in Workers : ExtendRead(w)
  BY <1>6 DEF ExtendRead, OpenTx
<1>7. CASE \E w \in Workers : ExtendWrite(w)
  BY <1>7 DEF ExtendWrite, CommitTx, RefreshLock
<1>8. CASE \E w \in Workers : BeatRead(w)
  BY <1>8 DEF BeatRead, LossRecorded
<1>9. CASE \E w \in Workers : BeatWrite(w)
  BY <1>9 DEF BeatWrite, BeatLock, RefreshLock
<1>10. CASE \E w \in Workers : CompleteRead(w)
  BY <1>10 DEF CompleteRead, OpenTx
<1>11. CASE \E w \in Workers : CompleteWrite(w)
  BY <1>11 DEF CompleteWrite, CommitTx, ClearLock, Leave, Throw
<1>12. CASE \E w \in Workers : HandlerThrows(w)
  BY <1>12 DEF HandlerThrows, Throw
<1>13. CASE \E w \in Workers : FailRead(w)
  BY <1>13 DEF FailRead, OpenTx, ShouldRetry
<1>14. CASE \E w \in Workers : FailWrite(w)
  BY <1>14 DEF FailWrite, CommitTx, ClearLock, Leave, AfterFailure
<1>15. CASE \E w \in Workers : OwnershipConflict(w)
  BY <1>15 DEF OwnershipConflict, Leave, Throw
<1>16. CASE \E w \in Workers : Crash(w)
  BY <1>16 DEF Crash, Fault, Gone
<1>17. CASE \E w \in Workers : BeatLost(w)
  BY <1>17 DEF BeatLost, Fault
<1>18. CASE \E w \in Workers : Abandon(w)
  BY <1>18 DEF Abandon, Fault, Gone
<1>19. CASE \E w \in Workers : Stall(w)
  BY <1>19 DEF Stall, Fault
<1>20. CASE \E s \in Sweepers : SweepScan(s)
  BY <1>20 DEF SweepScan
<1>21. CASE \E s \in Sweepers : ReleaseRead(s)
  BY <1>21 DEF ReleaseRead
<1>22. CASE \E s \in Sweepers : ReleaseWrite(s)
  BY <1>22 DEF ReleaseWrite, ClearLock
<1>23. CASE \E s \in Sweepers : SweepAbort(s)
  BY <1>23 DEF SweepAbort, Fault
<1>24. CASE \E s \in Stores : CancelStoreJobs(s)
  BY <1>24 DEF CancelStoreJobs, ClearLock
<1>25. CASE \E o \in Operators : RequeueRead(o)
  BY <1>25 DEF RequeueRead
<1>26. CASE \E o \in Operators : RequeueWrite(o)
  BY <1>26 DEF RequeueWrite, ClearLock
<1>27. CASE Tick
  BY <1>27 DEF Tick
<1>28. CASE UNCHANGED vars
  BY <1>28 DEF vars
<1>29. QED
  BY <1>1, <1>2, <1>3, <1>4, <1>5, <1>6, <1>7, <1>8, <1>9, <1>10, <1>11,
     <1>12, <1>13, <1>14, <1>15, <1>16, <1>17, <1>18, <1>19, <1>20, <1>21,
     <1>22, <1>23, <1>24, <1>25, <1>26, <1>27, <1>28 DEF Next, WorkerStep,
     WorkerFault, SweepStep

(* Only claimed and running rows carry an owner.                           *)

LEMMA LockedStep ==
  ASSUME TypeOK, Shape, OnlyActiveJobsLocked, [Next]_vars
  PROVE  OnlyActiveJobsLocked'
<1> USE QueueAssumption DEF TypeOK, Shape, OnlyActiveJobsLocked, Active,
   Waiting, rowVars, workerVars, sweepVars, budgets
<1>1. CASE \E j \in Jobs : Enqueue(j)
  BY <1>1 DEF Enqueue
<1>2. CASE \E j \in Jobs : CancelJob(j)
  BY <1>2 DEF CancelJob, ClearLock
<1>3. CASE \E w \in Workers : Claim(w)
  BY <1>3 DEF Claim, Claimable, NextGeneration, RefreshLock
<1>4. CASE \E w \in Workers : BeginRead(w)
  BY <1>4 DEF BeginRead, OpenTx
<1>5. CASE \E w \in Workers : BeginWrite(w)
  BY <1>5 DEF BeginWrite, CommitTx, BeginLock, RefreshLock
<1>6. CASE \E w \in Workers : ExtendRead(w)
  BY <1>6 DEF ExtendRead, OpenTx
<1>7. CASE \E w \in Workers : ExtendWrite(w)
  BY <1>7 DEF ExtendWrite, CommitTx, RefreshLock
<1>8. CASE \E w \in Workers : BeatRead(w)
  BY <1>8 DEF BeatRead, LossRecorded
<1>9. CASE \E w \in Workers : BeatWrite(w)
  BY <1>9 DEF BeatWrite, BeatLock, RefreshLock
<1>10. CASE \E w \in Workers : CompleteRead(w)
  BY <1>10 DEF CompleteRead, OpenTx
<1>11. CASE \E w \in Workers : CompleteWrite(w)
  BY <1>11 DEF CompleteWrite, CommitTx, ClearLock, Leave, Throw
<1>12. CASE \E w \in Workers : HandlerThrows(w)
  BY <1>12 DEF HandlerThrows, Throw
<1>13. CASE \E w \in Workers : FailRead(w)
  BY <1>13 DEF FailRead, OpenTx, ShouldRetry
<1>14. CASE \E w \in Workers : FailWrite(w)
  BY <1>14 DEF FailWrite, CommitTx, ClearLock, Leave, AfterFailure
<1>15. CASE \E w \in Workers : OwnershipConflict(w)
  BY <1>15 DEF OwnershipConflict, Leave, Throw
<1>16. CASE \E w \in Workers : Crash(w)
  BY <1>16 DEF Crash, Fault, Gone
<1>17. CASE \E w \in Workers : BeatLost(w)
  BY <1>17 DEF BeatLost, Fault
<1>18. CASE \E w \in Workers : Abandon(w)
  BY <1>18 DEF Abandon, Fault, Gone
<1>19. CASE \E w \in Workers : Stall(w)
  BY <1>19 DEF Stall, Fault
<1>20. CASE \E s \in Sweepers : SweepScan(s)
  BY <1>20 DEF SweepScan
<1>21. CASE \E s \in Sweepers : ReleaseRead(s)
  BY <1>21 DEF ReleaseRead
<1>22. CASE \E s \in Sweepers : ReleaseWrite(s)
  BY <1>22 DEF ReleaseWrite, ClearLock
<1>23. CASE \E s \in Sweepers : SweepAbort(s)
  BY <1>23 DEF SweepAbort, Fault
<1>24. CASE \E s \in Stores : CancelStoreJobs(s)
  BY <1>24 DEF CancelStoreJobs, ClearLock
<1>25. CASE \E o \in Operators : RequeueRead(o)
  BY <1>25 DEF RequeueRead
<1>26. CASE \E o \in Operators : RequeueWrite(o)
  BY <1>26 DEF RequeueWrite, ClearLock
<1>27. CASE Tick
  BY <1>27 DEF Tick
<1>28. CASE UNCHANGED vars
  BY <1>28 DEF vars
<1>29. QED
  BY <1>1, <1>2, <1>3, <1>4, <1>5, <1>6, <1>7, <1>8, <1>9, <1>10, <1>11,
     <1>12, <1>13, <1>14, <1>15, <1>16, <1>17, <1>18, <1>19, <1>20, <1>21,
     <1>22, <1>23, <1>24, <1>25, <1>26, <1>27, <1>28 DEF Next, WorkerStep,
     WorkerFault, SweepStep

(* Every claimed or running row is within the sweeps' sight.               *)

LEMMA StrandedStep ==
  ASSUME TypeOK, Shape, NoStrandedJob, [Next]_vars
  PROVE  NoStrandedJob'
<1> USE QueueAssumption DEF TypeOK, Shape, NoStrandedJob, Active, Waiting,
   rowVars, workerVars, sweepVars, budgets
<1>1. CASE \E j \in Jobs : Enqueue(j)
  BY <1>1 DEF Enqueue
<1>2. CASE \E j \in Jobs : CancelJob(j)
  BY <1>2 DEF CancelJob, ClearLock
<1>3. CASE \E w \in Workers : Claim(w)
  BY <1>3 DEF Claim, Claimable, NextGeneration, RefreshLock
<1>4. CASE \E w \in Workers : BeginRead(w)
  BY <1>4 DEF BeginRead, OpenTx
<1>5. CASE \E w \in Workers : BeginWrite(w)
  BY <1>5 DEF BeginWrite, CommitTx, BeginLock, RefreshLock
<1>6. CASE \E w \in Workers : ExtendRead(w)
  BY <1>6 DEF ExtendRead, OpenTx
<1>7. CASE \E w \in Workers : ExtendWrite(w)
  BY <1>7 DEF ExtendWrite, CommitTx, RefreshLock
<1>8. CASE \E w \in Workers : BeatRead(w)
  BY <1>8 DEF BeatRead, LossRecorded
<1>9. CASE \E w \in Workers : BeatWrite(w)
  BY <1>9 DEF BeatWrite, BeatLock, RefreshLock
<1>10. CASE \E w \in Workers : CompleteRead(w)
  BY <1>10 DEF CompleteRead, OpenTx
<1>11. CASE \E w \in Workers : CompleteWrite(w)
  BY <1>11 DEF CompleteWrite, CommitTx, ClearLock, Leave, Throw
<1>12. CASE \E w \in Workers : HandlerThrows(w)
  BY <1>12 DEF HandlerThrows, Throw
<1>13. CASE \E w \in Workers : FailRead(w)
  BY <1>13 DEF FailRead, OpenTx, ShouldRetry
<1>14. CASE \E w \in Workers : FailWrite(w)
  BY <1>14 DEF FailWrite, CommitTx, ClearLock, Leave, AfterFailure
<1>15. CASE \E w \in Workers : OwnershipConflict(w)
  BY <1>15 DEF OwnershipConflict, Leave, Throw
<1>16. CASE \E w \in Workers : Crash(w)
  BY <1>16 DEF Crash, Fault, Gone
<1>17. CASE \E w \in Workers : BeatLost(w)
  BY <1>17 DEF BeatLost, Fault
<1>18. CASE \E w \in Workers : Abandon(w)
  BY <1>18 DEF Abandon, Fault, Gone
<1>19. CASE \E w \in Workers : Stall(w)
  BY <1>19 DEF Stall, Fault
<1>20. CASE \E s \in Sweepers : SweepScan(s)
  BY <1>20 DEF SweepScan
<1>21. CASE \E s \in Sweepers : ReleaseRead(s)
  BY <1>21 DEF ReleaseRead
<1>22. CASE \E s \in Sweepers : ReleaseWrite(s)
  BY <1>22 DEF ReleaseWrite, ClearLock
<1>23. CASE \E s \in Sweepers : SweepAbort(s)
  BY <1>23 DEF SweepAbort, Fault
<1>24. CASE \E s \in Stores : CancelStoreJobs(s)
  BY <1>24 DEF CancelStoreJobs, ClearLock
<1>25. CASE \E o \in Operators : RequeueRead(o)
  BY <1>25 DEF RequeueRead
<1>26. CASE \E o \in Operators : RequeueWrite(o)
  BY <1>26 DEF RequeueWrite, ClearLock
<1>27. CASE Tick
  BY <1>27 DEF Tick
<1>28. CASE UNCHANGED vars
  BY <1>28 DEF vars
<1>29. QED
  BY <1>1, <1>2, <1>3, <1>4, <1>5, <1>6, <1>7, <1>8, <1>9, <1>10, <1>11,
     <1>12, <1>13, <1>14, <1>15, <1>16, <1>17, <1>18, <1>19, <1>20, <1>21,
     <1>22, <1>23, <1>24, <1>25, <1>26, <1>27, <1>28 DEF Next, WorkerStep,
     WorkerFault, SweepStep

(* A failure that was decided to be the last one stays the last one: the   *)
(* row's attempts never go down while the transaction is open.             *)

FailDecided == \A w \in Workers :
  tx[w] = "fail" /\ retryIn[w] = NoRetry
    => attempts[held[w]] >= MaxAttempts[held[w]]

LEMMA DeadLetterStep ==
  ASSUME TypeOK, Shape, FailDecided, DeadLetterExhausted, [Next]_vars
  PROVE  FailDecided' /\ DeadLetterExhausted'
<1> USE QueueAssumption DEF TypeOK, Shape, FailDecided, DeadLetterExhausted,
   Waiting, rowVars, workerVars, sweepVars, budgets
<1>1. CASE \E j \in Jobs : Enqueue(j)
  BY <1>1 DEF Enqueue
<1>2. CASE \E j \in Jobs : CancelJob(j)
  BY <1>2 DEF CancelJob, ClearLock
<1>3. CASE \E w \in Workers : Claim(w)
  BY <1>3 DEF Claim, Claimable, NextGeneration, RefreshLock
<1>4. CASE \E w \in Workers : BeginRead(w)
  BY <1>4 DEF BeginRead, OpenTx
<1>5. CASE \E w \in Workers : BeginWrite(w)
  BY <1>5 DEF BeginWrite, CommitTx, BeginLock, RefreshLock
<1>6. CASE \E w \in Workers : ExtendRead(w)
  BY <1>6 DEF ExtendRead, OpenTx
<1>7. CASE \E w \in Workers : ExtendWrite(w)
  BY <1>7 DEF ExtendWrite, CommitTx, RefreshLock
<1>8. CASE \E w \in Workers : BeatRead(w)
  BY <1>8 DEF BeatRead, LossRecorded
<1>9. CASE \E w \in Workers : BeatWrite(w)
  BY <1>9 DEF BeatWrite, BeatLock, RefreshLock
<1>10. CASE \E w \in Workers : CompleteRead(w)
  BY <1>10 DEF CompleteRead, OpenTx
<1>11. CASE \E w \in Workers : CompleteWrite(w)
  BY <1>11 DEF CompleteWrite, CommitTx, ClearLock, Leave, Throw
<1>12. CASE \E w \in Workers : HandlerThrows(w)
  BY <1>12 DEF HandlerThrows, Throw
<1>13. CASE \E w \in Workers : FailRead(w)
  <2>1. PICK w \in Workers : FailRead(w) BY <1>13
  <2>2. held[w] \in Jobs BY <2>1 DEF FailRead
  <2>3. UNCHANGED <<attempts, held, status>> BY <2>1 DEF FailRead, OpenTx
  <2>4. DeadLetterExhausted' BY <2>3
  <2>5. ASSUME NEW v \in Workers, tx'[v] = "fail", retryIn'[v] = NoRetry
        PROVE  attempts[held[v]] >= MaxAttempts[held[v]]
    <3>1. CASE v = w
      <4>1. PICK jitter \in 0 .. MaxJitter :
              retryIn' = [retryIn EXCEPT ![w] =
                            IF ShouldRetry(held[w])
                              THEN RetryDelay(attempts[held[w]]) + jitter
                              ELSE NoRetry]
        BY <2>1 DEF FailRead
      <4>2. ~ShouldRetry(held[w])
        <5>1. RetryDelay(attempts[held[w]]) + jitter # NoRetry
          BY RetryDelayType DEF NoRetry
        <5>2. QED BY <2>5, <3>1, <4>1, <5>1
      <4>3. QED BY <2>2, <3>1, <4>2 DEF ShouldRetry
    <3>2. CASE v # w
      BY <2>1, <2>5, <3>2 DEF FailRead, OpenTx
    <3>3. QED BY <3>1, <3>2
  <2>6. QED BY <2>3, <2>4, <2>5
<1>14. CASE \E w \in Workers : FailWrite(w)
  BY <1>14 DEF FailWrite, CommitTx, ClearLock, Leave, AfterFailure
<1>15. CASE \E w \in Workers : OwnershipConflict(w)
  BY <1>15 DEF OwnershipConflict, Leave, Throw
<1>16. CASE \E w \in Workers : Crash(w)
  BY <1>16 DEF Crash, Fault, Gone
<1>17. CASE \E w \in Workers : BeatLost(w)
  BY <1>17 DEF BeatLost, Fault
<1>18. CASE \E w \in Workers : Abandon(w)
  BY <1>18 DEF Abandon, Fault, Gone
<1>19. CASE \E w \in Workers : Stall(w)
  BY <1>19 DEF Stall, Fault
<1>20. CASE \E s \in Sweepers : SweepScan(s)
  BY <1>20 DEF SweepScan
<1>21. CASE \E s \in Sweepers : ReleaseRead(s)
  BY <1>21 DEF ReleaseRead
<1>22. CASE \E s \in Sweepers : ReleaseWrite(s)
  BY <1>22 DEF ReleaseWrite, ClearLock
<1>23. CASE \E s \in Sweepers : SweepAbort(s)
  BY <1>23 DEF SweepAbort, Fault
<1>24. CASE \E s \in Stores : CancelStoreJobs(s)
  BY <1>24 DEF CancelStoreJobs, ClearLock
<1>25. CASE \E o \in Operators : RequeueRead(o)
  BY <1>25 DEF RequeueRead
<1>26. CASE \E o \in Operators : RequeueWrite(o)
  BY <1>26 DEF RequeueWrite, ClearLock
<1>27. CASE Tick
  BY <1>27 DEF Tick
<1>28. CASE UNCHANGED vars
  BY <1>28 DEF vars
<1>29. QED
  BY <1>1, <1>2, <1>3, <1>4, <1>5, <1>6, <1>7, <1>8, <1>9, <1>10, <1>11,
     <1>12, <1>13, <1>14, <1>15, <1>16, <1>17, <1>18, <1>19, <1>20, <1>21,
     <1>22, <1>23, <1>24, <1>25, <1>26, <1>27, <1>28 DEF Next, WorkerStep,
     WorkerFault, SweepStep

(* The inductive invariant of the queue.                                   *)

IInv == /\ TypeOK
        /\ Shape
        /\ OnlyActiveJobsLocked
        /\ NoStrandedJob
        /\ FailDecided
        /\ DeadLetterExhausted

LEMMA InitIInv == Init => IInv
  BY QueueAssumption
  DEF Init, IInv, TypeOK, Status, Control, Shape, OnlyActiveJobsLocked,
      NoStrandedJob, FailDecided, DeadLetterExhausted, Active

LEMMA StepIInv == IInv /\ [Next]_vars => IInv'
  BY TypeStep, ShapeStep, LockedStep, StrandedStep, DeadLetterStep DEF IInv

THEOREM QueueInvariant == Spec => []IInv
  BY InitIInv, StepIInv, PTL DEF Spec

\* Only claimed and running jobs have an owner, in every interleaving.
THEOREM OwnersAreActive == Spec => []OnlyActiveJobsLocked
<1>1. IInv => OnlyActiveJobsLocked BY DEF IInv
<1>2. QED BY <1>1, QueueInvariant, PTL

\* Every claimed or running job has a lock expiry a sweep can find.
THEOREM NothingStranded == Spec => []NoStrandedJob
<1>1. IInv => NoStrandedJob BY DEF IInv
<1>2. QED BY <1>1, QueueInvariant, PTL

\* A dead-lettered job has used up its attempts.
THEOREM DeadLettersExhausted == Spec => []DeadLetterExhausted
<1>1. IInv => DeadLetterExhausted BY DEF IInv
<1>2. QED BY <1>1, QueueInvariant, PTL

(* The queue implements the fenced lease.                                  *)

\* An update that clears the locks of J and moves on the generations of G is a
\* revocation.
LEMMA Revocation ==
  ASSUME NEW J \in SUBSET Jobs, NEW G \in SUBSET J, ClearLock(J),
         gen' = [j \in Jobs |-> IF j \in G THEN gen[j] + 1 ELSE gen[j]]
  PROVE  Lease!Revoke(J)
<1>1. lockedBy' = [i \in Jobs |-> IF i \in J THEN NoWorker ELSE lockedBy[i]]
  BY DEF ClearLock
<1>2. G \in SUBSET J
  OBVIOUS
<1>3. QED BY <1>1, <1>2 DEF Lease!Revoke

\* The same when no generation moves.
LEMMA LockRelease ==
  ASSUME NEW J \in SUBSET Jobs, ClearLock(J), gen \in [Jobs -> Nat],
         UNCHANGED gen
  PROVE  Lease!Revoke(J)
<1>1. lockedBy' = [i \in Jobs |-> IF i \in J THEN NoWorker ELSE lockedBy[i]]
  BY DEF ClearLock
<1>2. gen' = [k \in Jobs |-> IF k \in {} THEN gen[k] + 1 ELSE gen[k]]
  OBVIOUS
<1>3. {} \in SUBSET J
  OBVIOUS
<1>4. QED BY <1>1, <1>2, <1>3 DEF Lease!Revoke

LEMMA LeaseStep ==
  ASSUME TypeOK, Shape, OnlyActiveJobsLocked, [Next]_vars
  PROVE  [Lease!Next]_(Lease!vars)
<1> USE QueueAssumption DEF TypeOK, Shape, rowVars, workerVars, sweepVars,
       budgets, Lease!vars
<1>1. CASE \E j \in Jobs : Enqueue(j)
  BY <1>1 DEF Enqueue
<1>2. CASE \E j \in Jobs : CancelJob(j)
  <2>1. PICK j \in Jobs : CancelJob(j) BY <1>2
  <2>2. ClearLock({j}) /\ UNCHANGED gen
    BY <2>1 DEF CancelJob
  <2>3. Lease!Revoke({j})
    BY <2>2, LockRelease
  <2>4. QED BY <2>1, <2>3 DEF CancelJob, Lease!Next
<1>3. CASE \E w \in Workers : Claim(w)
  <2>1. PICK w \in Workers : Claim(w) BY <1>3
  <2>2. held[w] = NoJob BY <2>1 DEF Claim
  <2>3. \A j \in Jobs : Claimable(j) => lockedBy[j] = NoWorker
    BY DEF Claimable, OnlyActiveJobsLocked, Waiting, Active
  <2>4. Lease!Acquire(w)
    BY <2>1, <2>2, <2>3 DEF Claim, NextGeneration, Lease!Acquire
  <2>5. QED BY <2>4 DEF Lease!Next
<1>4. CASE \E w \in Workers : BeginRead(w)
  BY <1>4 DEF BeginRead, OpenTx
<1>5. CASE \E w \in Workers : BeginWrite(w)
  BY <1>5 DEF BeginWrite, CommitTx, BeginLock, RefreshLock
<1>6. CASE \E w \in Workers : ExtendRead(w)
  BY <1>6 DEF ExtendRead, OpenTx
<1>7. CASE \E w \in Workers : ExtendWrite(w)
  BY <1>7 DEF ExtendWrite, CommitTx, RefreshLock
<1>8. CASE \E w \in Workers : BeatRead(w)
  BY <1>8 DEF BeatRead, LossRecorded
<1>9. CASE \E w \in Workers : BeatWrite(w)
  BY <1>9 DEF BeatWrite, BeatLock, RefreshLock
<1>10. CASE \E w \in Workers : CompleteRead(w)
  BY <1>10 DEF CompleteRead, OpenTx
<1>11. CASE \E w \in Workers : CompleteWrite(w)
  <2>1. PICK w \in Workers : CompleteWrite(w) BY <1>11
  <2>2. held[w] \in Jobs
    BY <2>1 DEF CompleteWrite, CommitTx
  <2>3. ClearLock({held[w]}) /\ UNCHANGED gen
    BY <2>1 DEF CompleteWrite, CommitTx
  <2>4. Lease!Revoke({held[w]})
    BY <2>2, <2>3, LockRelease
  <2>5. CASE Leave(w)
    BY <2>2, <2>4, <2>5 DEF Leave, Lease!Forget, Lease!Next
  <2>6. CASE Throw(w)
    BY <2>2, <2>4, <2>6 DEF Throw, Lease!Next
  <2>7. QED BY <2>1, <2>5, <2>6 DEF CompleteWrite
<1>12. CASE \E w \in Workers : HandlerThrows(w)
  BY <1>12 DEF HandlerThrows, Throw
<1>13. CASE \E w \in Workers : FailRead(w)
  BY <1>13 DEF FailRead, OpenTx, ShouldRetry
<1>14. CASE \E w \in Workers : FailWrite(w)
  <2>1. PICK w \in Workers : FailWrite(w) BY <1>14
  <2>2. held[w] \in Jobs
    BY <2>1 DEF FailWrite, CommitTx
  <2>3. ClearLock({held[w]}) /\ UNCHANGED gen
    BY <2>1 DEF FailWrite, CommitTx
  <2>4. Lease!Revoke({held[w]})
    BY <2>2, <2>3, LockRelease
  <2>5. Lease!Forget(w)
    BY <2>1 DEF FailWrite, Leave, Lease!Forget
  <2>6. QED BY <2>2, <2>4, <2>5 DEF Lease!Next
<1>15. CASE \E w \in Workers : OwnershipConflict(w)
  <2>1. PICK w \in Workers : OwnershipConflict(w) BY <1>15
  <2>2. CASE Leave(w)
    BY <2>1, <2>2 DEF OwnershipConflict, Leave, Lease!Forget, Lease!Next
  <2>3. CASE Throw(w)
    BY <2>1, <2>3 DEF OwnershipConflict, Throw
  <2>4. QED BY <2>1, <2>2, <2>3 DEF OwnershipConflict
<1>16. CASE \E w \in Workers : Crash(w)
  BY <1>16 DEF Crash, Gone, Lease!Forget, Lease!Next
<1>17. CASE \E w \in Workers : BeatLost(w)
  BY <1>17 DEF BeatLost, Fault
<1>18. CASE \E w \in Workers : Abandon(w)
  BY <1>18 DEF Abandon, Gone, Lease!Forget, Lease!Next
<1>19. CASE \E w \in Workers : Stall(w)
  BY <1>19 DEF Stall, Fault
<1>20. CASE \E s \in Sweepers : SweepScan(s)
  BY <1>20 DEF SweepScan
<1>21. CASE \E s \in Sweepers : ReleaseRead(s)
  BY <1>21 DEF ReleaseRead
<1>22. CASE \E s \in Sweepers : ReleaseWrite(s)
  <2>1. PICK s \in Sweepers : ReleaseWrite(s) BY <1>22
  <2> DEFINE J == {releasing[s]}
  <2>2. /\ J \in SUBSET Jobs
        /\ ClearLock(J)
        /\ gen' = [k \in Jobs |-> IF k \in J THEN gen[k] + 1 ELSE gen[k]]
    BY <2>1 DEF ReleaseWrite
  <2>3. Lease!Revoke(J)
    BY <2>2, Revocation
  <2>4. QED BY <2>1, <2>2, <2>3 DEF ReleaseWrite, Lease!Next
<1>23. CASE \E s \in Sweepers : SweepAbort(s)
  BY <1>23 DEF SweepAbort, Fault
<1>24. CASE \E s \in Stores : CancelStoreJobs(s)
  <2>1. PICK s \in Stores : CancelStoreJobs(s) BY <1>24
  <2> DEFINE J == {j \in Jobs : StoreOf[j] = s
                                  /\ status[j] \in Waiting \cup Active}
  <2>2. Lease!Revoke(J)
    BY <2>1, Revocation DEF CancelStoreJobs
  <2>3. QED BY <2>1, <2>2 DEF CancelStoreJobs, Lease!Next
<1>25. CASE \E o \in Operators : RequeueRead(o)
  BY <1>25 DEF RequeueRead
<1>26. CASE \E o \in Operators : RequeueWrite(o)
  <2>1. PICK o \in Operators : RequeueWrite(o) BY <1>26
  <2> DEFINE J == {requeuing[o]}
  <2>2. /\ J \in SUBSET Jobs
        /\ ClearLock(J)
        /\ gen' = [k \in Jobs |-> IF k \in J THEN gen[k] + 1 ELSE gen[k]]
    BY <2>1 DEF RequeueWrite
  <2>3. Lease!Revoke(J)
    BY <2>2, Revocation
  <2>4. QED BY <2>1, <2>2, <2>3 DEF RequeueWrite, Lease!Next
<1>27. CASE Tick
  BY <1>27 DEF Tick
<1>28. CASE UNCHANGED vars
  BY <1>28 DEF vars
<1>29. QED
  BY <1>1, <1>2, <1>3, <1>4, <1>5, <1>6, <1>7, <1>8, <1>9, <1>10, <1>11,
     <1>12, <1>13, <1>14, <1>15, <1>16, <1>17, <1>18, <1>19, <1>20, <1>21,
     <1>22, <1>23, <1>24, <1>25, <1>26, <1>27, <1>28 DEF Next, WorkerStep,
     WorkerFault, SweepStep

\* Every step of the queue acquires, revokes or forgets a lease, or leaves all
\* leases alone: the queue implements FencedLease.
THEOREM QueueImplementsLease == Spec => LeaseSpec
<1>1. Init => Lease!Init
  BY DEF Init, Lease!Init
<1>2. IInv /\ [Next]_vars => [Lease!Next]_(Lease!vars)
  BY LeaseStep DEF IInv
<1>3. QED
  BY <1>1, <1>2, QueueInvariant, PTL DEF Spec, LeaseSpec, Lease!Spec

LeaseTheory == INSTANCE FencedLeaseProofs
           WITH Items <- Jobs, Clients <- Workers,
                Nobody <- NoWorker, Nothing <- NoJob,
                holder <- lockedBy, epoch <- gen,
                item <- held, ticket <- token

\* No two workers act on the same claim of a job, and the row names as owner
\* of its current generation only the worker that drew it.
THEOREM GenerationsFence == Spec => []FencingTokens
<1>1. LeaseTheory!Spec => []LeaseTheory!Fenced
  BY QueueAssumption, LeaseTheory!LeaseSafe
<1>2. Lease!Init => LeaseTheory!Init
  BY DEF Lease!Init, LeaseTheory!Init
<1>3. [Lease!Next]_(Lease!vars) => [LeaseTheory!Next]_(LeaseTheory!vars)
  BY DEF Lease!Next, Lease!Acquire, Lease!Revoke, Lease!Forget, Lease!vars,
         LeaseTheory!Next, LeaseTheory!Acquire, LeaseTheory!Revoke,
         LeaseTheory!Forget, LeaseTheory!vars
<1>4. LeaseTheory!Fenced => Lease!Fenced
  BY DEF Lease!Fenced, Lease!Believes, LeaseTheory!Fenced, LeaseTheory!Believes
<1>5. QED
  BY <1>1, <1>2, <1>3, <1>4, QueueImplementsLease, PTL
     DEF LeaseSpec, FencingTokens, Lease!Spec, LeaseTheory!Spec
(* What every worker's execution keeps, whatever else commits.             *)

\* A worker that has neither stalled nor recorded the loss of a heartbeat.
Sound(w) == ~stalled[w] /\ ~beatFailed[w]

Holder(w) == held[w] \in Jobs /\ Owns(w)

Rested == \A w \in Workers :
  /\ pc[w] \in {"idle", "gone"} => Sound(w)
  /\ beatDue[w] => pc[w] = "working"

Current == \A w \in Workers : Holder(w) => token[w] = gen[held[w]]

LEMMA CurrentStep ==
  ASSUME IInv, Rested, Current, [Next]_vars
  PROVE  Rested' /\ Current'
<1> USE QueueAssumption DEF IInv, TypeOK, Control, Shape, Rested, Current,
   Sound, Holder, Owns, rowVars, workerVars, sweepVars, budgets
<1>1. CASE \E j \in Jobs : Enqueue(j)
  BY <1>1 DEF Enqueue
<1>2. CASE \E j \in Jobs : CancelJob(j)
  BY <1>2 DEF CancelJob, ClearLock
<1>3. CASE \E w \in Workers : Claim(w)
  BY <1>3 DEF Claim, Claimable, NextGeneration, RefreshLock
<1>4. CASE \E w \in Workers : BeginRead(w)
  BY <1>4 DEF BeginRead, OpenTx
<1>5. CASE \E w \in Workers : BeginWrite(w)
  BY <1>5 DEF BeginWrite, CommitTx, BeginLock, RefreshLock
<1>6. CASE \E w \in Workers : ExtendRead(w)
  BY <1>6 DEF ExtendRead, OpenTx
<1>7. CASE \E w \in Workers : ExtendWrite(w)
  BY <1>7 DEF ExtendWrite, CommitTx, RefreshLock
<1>8. CASE \E w \in Workers : BeatRead(w)
  BY <1>8 DEF BeatRead, LossRecorded
<1>9. CASE \E w \in Workers : BeatWrite(w)
  BY <1>9 DEF BeatWrite, BeatLock, RefreshLock
<1>10. CASE \E w \in Workers : CompleteRead(w)
  BY <1>10 DEF CompleteRead, OpenTx
<1>11. CASE \E w \in Workers : CompleteWrite(w)
  <2>1. PICK w \in Workers : CompleteWrite(w) BY <1>11
  <2>2. CASE Leave(w)
    BY <2>1, <2>2 DEF CompleteWrite, CommitTx, ClearLock, Leave
  <2>3. CASE Throw(w)
    BY <2>1, <2>3 DEF CompleteWrite, CommitTx, ClearLock, Throw
  <2>4. QED BY <2>1, <2>2, <2>3 DEF CompleteWrite
<1>12. CASE \E w \in Workers : HandlerThrows(w)
  BY <1>12 DEF HandlerThrows, Throw
<1>13. CASE \E w \in Workers : FailRead(w)
  BY <1>13 DEF FailRead, OpenTx, ShouldRetry
<1>14. CASE \E w \in Workers : FailWrite(w)
  BY <1>14 DEF FailWrite, CommitTx, ClearLock, Leave, AfterFailure
<1>15. CASE \E w \in Workers : OwnershipConflict(w)
  BY <1>15 DEF OwnershipConflict, Leave, Throw
<1>16. CASE \E w \in Workers : Crash(w)
  BY <1>16 DEF Crash, Fault, Gone
<1>17. CASE \E w \in Workers : BeatLost(w)
  BY <1>17 DEF BeatLost, Fault
<1>18. CASE \E w \in Workers : Abandon(w)
  BY <1>18 DEF Abandon, Fault, Gone
<1>19. CASE \E w \in Workers : Stall(w)
  BY <1>19 DEF Stall, Fault
<1>20. CASE \E s \in Sweepers : SweepScan(s)
  BY <1>20 DEF SweepScan
<1>21. CASE \E s \in Sweepers : ReleaseRead(s)
  BY <1>21 DEF ReleaseRead
<1>22. CASE \E s \in Sweepers : ReleaseWrite(s)
  BY <1>22 DEF ReleaseWrite, ClearLock
<1>23. CASE \E s \in Sweepers : SweepAbort(s)
  BY <1>23 DEF SweepAbort, Fault
<1>24. CASE \E s \in Stores : CancelStoreJobs(s)
  BY <1>24 DEF CancelStoreJobs, ClearLock
<1>25. CASE \E o \in Operators : RequeueRead(o)
  BY <1>25 DEF RequeueRead
<1>26. CASE \E o \in Operators : RequeueWrite(o)
  BY <1>26 DEF RequeueWrite, ClearLock
<1>27. CASE Tick
  BY <1>27 DEF Tick
<1>28. CASE UNCHANGED vars
  BY <1>28 DEF vars
<1>29. QED
  BY <1>1, <1>2, <1>3, <1>4, <1>5, <1>6, <1>7, <1>8, <1>9, <1>10, <1>11,
     <1>12, <1>13, <1>14, <1>15, <1>16, <1>17, <1>18, <1>19, <1>20, <1>21,
     <1>22, <1>23, <1>24, <1>25, <1>26, <1>27, <1>28 DEF Next, WorkerStep,
     WorkerFault, SweepStep
(* While its worker is sound, a job's lock does not run out: the interval  *)
(* elapses before the lock does, and no tick passes until the heartbeat it *)
(* asks for has committed.                                                 *)

Beating == \A w \in Workers : Holder(w) /\ Sound(w) =>
  /\ lockLeft[held[w]] >= 0
  /\ pc[w] = "working" =>
       lockLeft[held[w]] >= 1 \/ beatDue[w] \/ beatTx[w] = held[w]

LEMMA BeatingStep ==
  ASSUME IInv, Rested, Beating, [Next]_vars
  PROVE  Beating'
<1> USE QueueAssumption DEF IInv, TypeOK, Control, Shape, Rested, Beating,
   Sound, Holder, Owns, rowVars, workerVars, sweepVars, budgets
<1>1. CASE \E j \in Jobs : Enqueue(j)
  BY <1>1 DEF Enqueue
<1>2. CASE \E j \in Jobs : CancelJob(j)
  BY <1>2 DEF CancelJob, ClearLock
<1>3. CASE \E w \in Workers : Claim(w)
  BY <1>3 DEF Claim, Claimable, NextGeneration, RefreshLock
<1>4. CASE \E w \in Workers : BeginRead(w)
  BY <1>4 DEF BeginRead, OpenTx
<1>5. CASE \E w \in Workers : BeginWrite(w)
  BY <1>5 DEF BeginWrite, CommitTx, BeginLock, RefreshLock
<1>6. CASE \E w \in Workers : ExtendRead(w)
  BY <1>6 DEF ExtendRead, OpenTx
<1>7. CASE \E w \in Workers : ExtendWrite(w)
  BY <1>7 DEF ExtendWrite, CommitTx, RefreshLock
<1>8. CASE \E w \in Workers : BeatRead(w)
  BY <1>8 DEF BeatRead, LossRecorded
<1>9. CASE \E w \in Workers : BeatWrite(w)
  BY <1>9 DEF BeatWrite, BeatLock, RefreshLock
<1>10. CASE \E w \in Workers : CompleteRead(w)
  BY <1>10 DEF CompleteRead, OpenTx
<1>11. CASE \E w \in Workers : CompleteWrite(w)
  <2>1. PICK w \in Workers : CompleteWrite(w) BY <1>11
  <2>2. CASE Leave(w)
    BY <2>1, <2>2 DEF CompleteWrite, CommitTx, ClearLock, Leave
  <2>3. CASE Throw(w)
    BY <2>1, <2>3 DEF CompleteWrite, CommitTx, ClearLock, Throw
  <2>4. QED BY <2>1, <2>2, <2>3 DEF CompleteWrite
<1>12. CASE \E w \in Workers : HandlerThrows(w)
  BY <1>12 DEF HandlerThrows, Throw
<1>13. CASE \E w \in Workers : FailRead(w)
  BY <1>13 DEF FailRead, OpenTx, ShouldRetry
<1>14. CASE \E w \in Workers : FailWrite(w)
  BY <1>14 DEF FailWrite, CommitTx, ClearLock, Leave, AfterFailure
<1>15. CASE \E w \in Workers : OwnershipConflict(w)
  BY <1>15 DEF OwnershipConflict, Leave, Throw
<1>16. CASE \E w \in Workers : Crash(w)
  BY <1>16 DEF Crash, Fault, Gone
<1>17. CASE \E w \in Workers : BeatLost(w)
  BY <1>17 DEF BeatLost, Fault
<1>18. CASE \E w \in Workers : Abandon(w)
  BY <1>18 DEF Abandon, Fault, Gone
<1>19. CASE \E w \in Workers : Stall(w)
  BY <1>19 DEF Stall, Fault
<1>20. CASE \E s \in Sweepers : SweepScan(s)
  BY <1>20 DEF SweepScan
<1>21. CASE \E s \in Sweepers : ReleaseRead(s)
  BY <1>21 DEF ReleaseRead
<1>22. CASE \E s \in Sweepers : ReleaseWrite(s)
  BY <1>22 DEF ReleaseWrite, ClearLock
<1>23. CASE \E s \in Sweepers : SweepAbort(s)
  BY <1>23 DEF SweepAbort, Fault
<1>24. CASE \E s \in Stores : CancelStoreJobs(s)
  BY <1>24 DEF CancelStoreJobs, ClearLock
<1>25. CASE \E o \in Operators : RequeueRead(o)
  BY <1>25 DEF RequeueRead
<1>26. CASE \E o \in Operators : RequeueWrite(o)
  BY <1>26 DEF RequeueWrite, ClearLock
<1>27. CASE Tick
  BY <1>27 DEF Tick, NoTxOpen, Prompt
<1>28. CASE UNCHANGED vars
  BY <1>28 DEF vars
<1>29. QED
  BY <1>1, <1>2, <1>3, <1>4, <1>5, <1>6, <1>7, <1>8, <1>9, <1>10, <1>11,
     <1>12, <1>13, <1>14, <1>15, <1>16, <1>17, <1>18, <1>19, <1>20, <1>21,
     <1>22, <1>23, <1>24, <1>25, <1>26, <1>27, <1>28 DEF Next, WorkerStep,
     WorkerFault, SweepStep
(* A transaction that outlives its worker's ownership is young: the row    *)
(* lost its lock, or had it refreshed, within the tick.                    *)

Late(w) == tx[w] # "none" /\ held[w] \in Jobs /\ ~Owns(w)

LateFresh == \A w \in Workers : Late(w) => lockLeft[held[w]] >= 0

LEMMA LateFreshStep ==
  ASSUME IInv, LateFresh, [Next]_vars
  PROVE  LateFresh'
<1> USE QueueAssumption DEF IInv, TypeOK, Control, Shape, LateFresh, Late,
   Owns, rowVars, workerVars, sweepVars, budgets
<1>1. CASE \E j \in Jobs : Enqueue(j)
  BY <1>1 DEF Enqueue
<1>2. CASE \E j \in Jobs : CancelJob(j)
  BY <1>2 DEF CancelJob, ClearLock
<1>3. CASE \E w \in Workers : Claim(w)
  BY <1>3 DEF Claim, Claimable, NextGeneration, RefreshLock
<1>4. CASE \E w \in Workers : BeginRead(w)
  BY <1>4 DEF BeginRead, OpenTx, MayBegin, OwnsToken
<1>5. CASE \E w \in Workers : BeginWrite(w)
  BY <1>5 DEF BeginWrite, CommitTx, BeginLock, RefreshLock
<1>6. CASE \E w \in Workers : ExtendRead(w)
  BY <1>6 DEF ExtendRead, OpenTx
<1>7. CASE \E w \in Workers : ExtendWrite(w)
  BY <1>7 DEF ExtendWrite, CommitTx, RefreshLock
<1>8. CASE \E w \in Workers : BeatRead(w)
  BY <1>8 DEF BeatRead, LossRecorded
<1>9. CASE \E w \in Workers : BeatWrite(w)
  BY <1>9 DEF BeatWrite, BeatLock, RefreshLock
<1>10. CASE \E w \in Workers : CompleteRead(w)
  BY <1>10 DEF CompleteRead, OpenTx, MayComplete
<1>11. CASE \E w \in Workers : CompleteWrite(w)
  BY <1>11 DEF CompleteWrite, CommitTx, ClearLock, Leave, Throw
<1>12. CASE \E w \in Workers : HandlerThrows(w)
  BY <1>12 DEF HandlerThrows, Throw
<1>13. CASE \E w \in Workers : FailRead(w)
  BY <1>13 DEF FailRead, OpenTx, ShouldRetry
<1>14. CASE \E w \in Workers : FailWrite(w)
  BY <1>14 DEF FailWrite, CommitTx, ClearLock, Leave, AfterFailure
<1>15. CASE \E w \in Workers : OwnershipConflict(w)
  BY <1>15 DEF OwnershipConflict, Leave, Throw
<1>16. CASE \E w \in Workers : Crash(w)
  BY <1>16 DEF Crash, Fault, Gone
<1>17. CASE \E w \in Workers : BeatLost(w)
  BY <1>17 DEF BeatLost, Fault
<1>18. CASE \E w \in Workers : Abandon(w)
  BY <1>18 DEF Abandon, Fault, Gone
<1>19. CASE \E w \in Workers : Stall(w)
  BY <1>19 DEF Stall, Fault
<1>20. CASE \E s \in Sweepers : SweepScan(s)
  BY <1>20 DEF SweepScan
<1>21. CASE \E s \in Sweepers : ReleaseRead(s)
  BY <1>21 DEF ReleaseRead
<1>22. CASE \E s \in Sweepers : ReleaseWrite(s)
  BY <1>22 DEF ReleaseWrite, ClearLock
<1>23. CASE \E s \in Sweepers : SweepAbort(s)
  BY <1>23 DEF SweepAbort, Fault
<1>24. CASE \E s \in Stores : CancelStoreJobs(s)
  BY <1>24 DEF CancelStoreJobs, ClearLock
<1>25. CASE \E o \in Operators : RequeueRead(o)
  BY <1>25 DEF RequeueRead
<1>26. CASE \E o \in Operators : RequeueWrite(o)
  BY <1>26 DEF RequeueWrite, ClearLock
<1>27. CASE Tick
  BY <1>27 DEF Tick, NoTxOpen
<1>28. CASE UNCHANGED vars
  BY <1>28 DEF vars
<1>29. QED
  BY <1>1, <1>2, <1>3, <1>4, <1>5, <1>6, <1>7, <1>8, <1>9, <1>10, <1>11,
     <1>12, <1>13, <1>14, <1>15, <1>16, <1>17, <1>18, <1>19, <1>20, <1>21,
     <1>22, <1>23, <1>24, <1>25, <1>26, <1>27, <1>28 DEF Next, WorkerStep,
     WorkerFault, SweepStep
(* A failure that decided to retry, and still owns its row, has attempts   *)
(* left.                                                                   *)

Claimed == \A w \in Workers : held[w] \in Jobs => attempts[held[w]] >= 1

RetryAllowed == \A w \in Workers :
  tx[w] = "fail" /\ retryIn[w] # NoRetry /\ Holder(w)
    => attempts[held[w]] < MaxAttempts[held[w]]

LEMMA RetryAllowedStep ==
  ASSUME IInv, Claimed, RetryAllowed, [Next]_vars
  PROVE  Claimed' /\ RetryAllowed'
<1> USE QueueAssumption DEF IInv, TypeOK, Control, Shape, Claimed,
   RetryAllowed, Holder, Owns, rowVars, workerVars, sweepVars, budgets
<1>1. CASE \E j \in Jobs : Enqueue(j)
  BY <1>1 DEF Enqueue
<1>2. CASE \E j \in Jobs : CancelJob(j)
  BY <1>2 DEF CancelJob, ClearLock
<1>3. CASE \E w \in Workers : Claim(w)
  BY <1>3 DEF Claim, Claimable, NextGeneration, RefreshLock,
     OnlyActiveJobsLocked, Active, Waiting
<1>4. CASE \E w \in Workers : BeginRead(w)
  BY <1>4 DEF BeginRead, OpenTx
<1>5. CASE \E w \in Workers : BeginWrite(w)
  BY <1>5 DEF BeginWrite, CommitTx, BeginLock, RefreshLock
<1>6. CASE \E w \in Workers : ExtendRead(w)
  BY <1>6 DEF ExtendRead, OpenTx
<1>7. CASE \E w \in Workers : ExtendWrite(w)
  BY <1>7 DEF ExtendWrite, CommitTx, RefreshLock
<1>8. CASE \E w \in Workers : BeatRead(w)
  BY <1>8 DEF BeatRead, LossRecorded
<1>9. CASE \E w \in Workers : BeatWrite(w)
  BY <1>9 DEF BeatWrite, BeatLock, RefreshLock
<1>10. CASE \E w \in Workers : CompleteRead(w)
  BY <1>10 DEF CompleteRead, OpenTx
<1>11. CASE \E w \in Workers : CompleteWrite(w)
  <2>1. PICK w \in Workers : CompleteWrite(w) BY <1>11
  <2>2. UNCHANGED <<attempts, retryIn>> /\ tx' = [tx EXCEPT ![w] = "none"]
    BY <2>1 DEF CompleteWrite, CommitTx
  <2>3. \A v \in Workers : held'[v] \in Jobs => held'[v] = held[v]
    BY <2>1 DEF CompleteWrite, Leave, Throw
  <2>4. \A j \in Jobs, v \in Workers : lockedBy'[j] = v => lockedBy[j] = v
    BY <2>1 DEF CompleteWrite, ClearLock
  <2>5. QED BY <2>2, <2>3, <2>4
<1>12. CASE \E w \in Workers : HandlerThrows(w)
  BY <1>12 DEF HandlerThrows, Throw
<1>13. CASE \E w \in Workers : FailRead(w)
  BY <1>13 DEF FailRead, OpenTx, ShouldRetry
<1>14. CASE \E w \in Workers : FailWrite(w)
  BY <1>14 DEF FailWrite, CommitTx, ClearLock, Leave, AfterFailure
<1>15. CASE \E w \in Workers : OwnershipConflict(w)
  <2>1. PICK w \in Workers : OwnershipConflict(w) BY <1>15
  <2>2. UNCHANGED <<attempts, lockedBy, tx, retryIn>>
    BY <2>1 DEF OwnershipConflict
  <2>3. \A v \in Workers : held'[v] \in Jobs => held'[v] = held[v]
    BY <2>1 DEF OwnershipConflict, Leave, Throw
  <2>4. QED BY <2>2, <2>3
<1>16. CASE \E w \in Workers : Crash(w)
  BY <1>16 DEF Crash, Fault, Gone
<1>17. CASE \E w \in Workers : BeatLost(w)
  BY <1>17 DEF BeatLost, Fault
<1>18. CASE \E w \in Workers : Abandon(w)
  BY <1>18 DEF Abandon, Fault, Gone
<1>19. CASE \E w \in Workers : Stall(w)
  BY <1>19 DEF Stall, Fault
<1>20. CASE \E s \in Sweepers : SweepScan(s)
  BY <1>20 DEF SweepScan
<1>21. CASE \E s \in Sweepers : ReleaseRead(s)
  BY <1>21 DEF ReleaseRead
<1>22. CASE \E s \in Sweepers : ReleaseWrite(s)
  BY <1>22 DEF ReleaseWrite, ClearLock
<1>23. CASE \E s \in Sweepers : SweepAbort(s)
  BY <1>23 DEF SweepAbort, Fault
<1>24. CASE \E s \in Stores : CancelStoreJobs(s)
  BY <1>24 DEF CancelStoreJobs, ClearLock
<1>25. CASE \E o \in Operators : RequeueRead(o)
  BY <1>25 DEF RequeueRead
<1>26. CASE \E o \in Operators : RequeueWrite(o)
  BY <1>26 DEF RequeueWrite, ClearLock
<1>27. CASE Tick
  BY <1>27 DEF Tick
<1>28. CASE UNCHANGED vars
  BY <1>28 DEF vars
<1>29. QED
  BY <1>1, <1>2, <1>3, <1>4, <1>5, <1>6, <1>7, <1>8, <1>9, <1>10, <1>11,
     <1>12, <1>13, <1>14, <1>15, <1>16, <1>17, <1>18, <1>19, <1>20, <1>21,
     <1>22, <1>23, <1>24, <1>25, <1>26, <1>27, <1>28 DEF Next, WorkerStep,
     WorkerFault, SweepStep
(* Sweeps and healthy workers.                                             *)

\* No two sweeps have a transaction open that releases the same job.
OneRelease == \A s, t \in Sweepers :
  releasing[s] # NoJob /\ releasing[s] = releasing[t] => s = t

\* A retry waits longer than a transaction lasts.
RetryWaits == \A n \in Nat \ {0} : RetryDelay(n) >= 1

FailWaits == \A w \in Workers :
  tx[w] = "fail" /\ retryIn[w] # NoRetry => retryIn[w] >= 1

LEMMA FailWaitsStep ==
  ASSUME RetryWaits, IInv, Claimed, FailWaits, [Next]_vars
  PROVE  FailWaits'
<1> USE QueueAssumption DEF IInv, TypeOK, Shape, Claimed, FailWaits, rowVars,
   workerVars, sweepVars, budgets
<1>1. CASE \E j \in Jobs : Enqueue(j)
  BY <1>1 DEF Enqueue
<1>2. CASE \E j \in Jobs : CancelJob(j)
  BY <1>2 DEF CancelJob, ClearLock
<1>3. CASE \E w \in Workers : Claim(w)
  BY <1>3 DEF Claim, Claimable, NextGeneration, RefreshLock
<1>4. CASE \E w \in Workers : BeginRead(w)
  BY <1>4 DEF BeginRead, OpenTx
<1>5. CASE \E w \in Workers : BeginWrite(w)
  BY <1>5 DEF BeginWrite, CommitTx, BeginLock, RefreshLock
<1>6. CASE \E w \in Workers : ExtendRead(w)
  BY <1>6 DEF ExtendRead, OpenTx
<1>7. CASE \E w \in Workers : ExtendWrite(w)
  BY <1>7 DEF ExtendWrite, CommitTx, RefreshLock
<1>8. CASE \E w \in Workers : BeatRead(w)
  BY <1>8 DEF BeatRead, LossRecorded
<1>9. CASE \E w \in Workers : BeatWrite(w)
  BY <1>9 DEF BeatWrite, BeatLock, RefreshLock
<1>10. CASE \E w \in Workers : CompleteRead(w)
  BY <1>10 DEF CompleteRead, OpenTx
<1>11. CASE \E w \in Workers : CompleteWrite(w)
  BY <1>11 DEF CompleteWrite, CommitTx, ClearLock, Leave, Throw
<1>12. CASE \E w \in Workers : HandlerThrows(w)
  BY <1>12 DEF HandlerThrows, Throw
<1>13. CASE \E w \in Workers : FailRead(w)
  <2>1. PICK w \in Workers : FailRead(w) BY <1>13
  <2>2. PICK jitter \in 0 .. MaxJitter :
          retryIn' = [retryIn EXCEPT ![w] =
                        IF ShouldRetry(held[w])
                          THEN RetryDelay(attempts[held[w]]) + jitter
                          ELSE NoRetry]
    BY <2>1 DEF FailRead
  <2>3. held[w] \in Jobs
    BY <2>1 DEF FailRead
  <2>4. attempts[held[w]] \in Nat \ {0}
    BY <2>3
  <2>5. RetryDelay(attempts[held[w]]) + jitter >= 1
    BY <2>4, RetryDelayType DEF RetryWaits
  <2>6. QED BY <2>1, <2>2, <2>5 DEF FailRead, OpenTx
<1>14. CASE \E w \in Workers : FailWrite(w)
  BY <1>14 DEF FailWrite, CommitTx, ClearLock, Leave, AfterFailure
<1>15. CASE \E w \in Workers : OwnershipConflict(w)
  BY <1>15 DEF OwnershipConflict, Leave, Throw
<1>16. CASE \E w \in Workers : Crash(w)
  BY <1>16 DEF Crash, Fault, Gone
<1>17. CASE \E w \in Workers : BeatLost(w)
  BY <1>17 DEF BeatLost, Fault
<1>18. CASE \E w \in Workers : Abandon(w)
  BY <1>18 DEF Abandon, Fault, Gone
<1>19. CASE \E w \in Workers : Stall(w)
  BY <1>19 DEF Stall, Fault
<1>20. CASE \E s \in Sweepers : SweepScan(s)
  BY <1>20 DEF SweepScan
<1>21. CASE \E s \in Sweepers : ReleaseRead(s)
  BY <1>21 DEF ReleaseRead
<1>22. CASE \E s \in Sweepers : ReleaseWrite(s)
  BY <1>22 DEF ReleaseWrite, ClearLock
<1>23. CASE \E s \in Sweepers : SweepAbort(s)
  BY <1>23 DEF SweepAbort, Fault
<1>24. CASE \E s \in Stores : CancelStoreJobs(s)
  BY <1>24 DEF CancelStoreJobs, ClearLock
<1>25. CASE \E o \in Operators : RequeueRead(o)
  BY <1>25 DEF RequeueRead
<1>26. CASE \E o \in Operators : RequeueWrite(o)
  BY <1>26 DEF RequeueWrite, ClearLock
<1>27. CASE Tick
  BY <1>27 DEF Tick
<1>28. CASE UNCHANGED vars
  BY <1>28 DEF vars
<1>29. QED
  BY <1>1, <1>2, <1>3, <1>4, <1>5, <1>6, <1>7, <1>8, <1>9, <1>10, <1>11,
     <1>12, <1>13, <1>14, <1>15, <1>16, <1>17, <1>18, <1>19, <1>20, <1>21,
     <1>22, <1>23, <1>24, <1>25, <1>26, <1>27, <1>28 DEF Next, WorkerStep,
     WorkerFault, SweepStep
\* The row may be claimed before the clock ticks, or be enqueued to be.
Ready(j) == status[j] \in Waiting \cup {"none"} /\ delay[j] = 0

\* From the moment a sweep has decided to release a job to the moment it has,
\* no sound worker owns it and none can claim it.
Spared == manual = 0 =>
  /\ \A o \in Operators : requeuing[o] = NoJob
  /\ \A j \in Jobs, s \in Sweepers : releasing[s] = j =>
       /\ ~Ready(j)
       /\ \A w \in Workers : held[w] = j /\ Owns(w) => ~Sound(w)

LEMMA SparedStep ==
  ASSUME OneRelease, IInv, Beating, FailWaits, Spared, [Next]_vars
  PROVE  Spared'
<1> USE QueueAssumption DEF IInv, TypeOK, Control, Shape, FailWaits, Spared,
   Ready, Sound, Owns, Active, Waiting, Status, Terminal, rowVars, workerVars,
   sweepVars, budgets
<1>1. CASE \E j \in Jobs : Enqueue(j)
  BY <1>1 DEF Enqueue
<1>2. CASE \E j \in Jobs : CancelJob(j)
  BY <1>2 DEF CancelJob, ClearLock
<1>3. CASE \E w \in Workers : Claim(w)
  BY <1>3 DEF Claim, Claimable, NextGeneration, RefreshLock
<1>4. CASE \E w \in Workers : BeginRead(w)
  BY <1>4 DEF BeginRead, OpenTx
<1>5. CASE \E w \in Workers : BeginWrite(w)
  BY <1>5 DEF BeginWrite, CommitTx, BeginLock, RefreshLock
<1>6. CASE \E w \in Workers : ExtendRead(w)
  BY <1>6 DEF ExtendRead, OpenTx
<1>7. CASE \E w \in Workers : ExtendWrite(w)
  BY <1>7 DEF ExtendWrite, CommitTx, RefreshLock
<1>8. CASE \E w \in Workers : BeatRead(w)
  BY <1>8 DEF BeatRead, LossRecorded
<1>9. CASE \E w \in Workers : BeatWrite(w)
  BY <1>9 DEF BeatWrite, BeatLock, RefreshLock
<1>10. CASE \E w \in Workers : CompleteRead(w)
  BY <1>10 DEF CompleteRead, OpenTx
<1>11. CASE \E w \in Workers : CompleteWrite(w)
  <2>1. PICK w \in Workers : CompleteWrite(w) BY <1>11
  <2>2. CASE Leave(w)
    BY <2>1, <2>2 DEF CompleteWrite, CommitTx, ClearLock, Leave
  <2>3. CASE Throw(w)
    BY <2>1, <2>3 DEF CompleteWrite, CommitTx, ClearLock, Throw
  <2>4. QED BY <2>1, <2>2, <2>3 DEF CompleteWrite
<1>12. CASE \E w \in Workers : HandlerThrows(w)
  BY <1>12 DEF HandlerThrows, Throw
<1>13. CASE \E w \in Workers : FailRead(w)
  BY <1>13 DEF FailRead, OpenTx, ShouldRetry
<1>14. CASE \E w \in Workers : FailWrite(w)
  BY <1>14 DEF FailWrite, CommitTx, ClearLock, Leave, AfterFailure
<1>15. CASE \E w \in Workers : OwnershipConflict(w)
  BY <1>15 DEF OwnershipConflict, Leave, Throw
<1>16. CASE \E w \in Workers : Crash(w)
  BY <1>16 DEF Crash, Fault, Gone
<1>17. CASE \E w \in Workers : BeatLost(w)
  BY <1>17 DEF BeatLost, Fault
<1>18. CASE \E w \in Workers : Abandon(w)
  BY <1>18 DEF Abandon, Fault, Gone
<1>19. CASE \E w \in Workers : Stall(w)
  BY <1>19 DEF Stall, Fault
<1>20. CASE \E s \in Sweepers : SweepScan(s)
  BY <1>20 DEF SweepScan
<1>21. CASE \E s \in Sweepers : ReleaseRead(s)
  BY <1>21 DEF ReleaseRead, Eligible, Beating, Holder
<1>22. CASE \E s \in Sweepers : ReleaseWrite(s)
  BY <1>22 DEF ReleaseWrite, ClearLock, OneRelease
<1>23. CASE \E s \in Sweepers : SweepAbort(s)
  BY <1>23 DEF SweepAbort, Fault
<1>24. CASE \E s \in Stores : CancelStoreJobs(s)
  BY <1>24 DEF CancelStoreJobs, ClearLock
<1>25. CASE \E o \in Operators : RequeueRead(o)
  BY <1>25 DEF RequeueRead
<1>26. CASE \E o \in Operators : RequeueWrite(o)
  BY <1>26 DEF RequeueWrite, ClearLock
<1>27. CASE Tick
  BY <1>27 DEF Tick, NoTxOpen
<1>28. CASE UNCHANGED vars
  BY <1>28 DEF vars
<1>29. QED
  BY <1>1, <1>2, <1>3, <1>4, <1>5, <1>6, <1>7, <1>8, <1>9, <1>10, <1>11,
     <1>12, <1>13, <1>14, <1>15, <1>16, <1>17, <1>18, <1>19, <1>20, <1>21,
     <1>22, <1>23, <1>24, <1>25, <1>26, <1>27, <1>28 DEF Next, WorkerStep,
     WorkerFault, SweepStep
(* A queue whose workers do not fault.                                     *)

\* No two operators are about to requeue the same job.
OneRequeue == \A o, p \in Operators :
  requeuing[o] # NoJob /\ requeuing[o] = requeuing[p] => o = p

CalmWorkers == faults = 0 => \A w \in Workers :
  /\ ~stalled[w]
  /\ pc[w] # "gone"
  /\ beatFailed[w] => ~Holder(w)

\* No worker leaves a job it still owns.
CalmOwners == faults = 0 => \A j \in Jobs, w \in Workers :
  lockedBy[j] = w => held[w] = j

\* Only a cancellation takes a job from a worker that has a transaction open,
\* and no other worker has one on the same job.
CalmTx == faults = 0 =>
  /\ \A w \in Workers : Late(w) => status[held[w]] = "cancelled"
  /\ \A v, w \in Workers :
       tx[v] # "none" /\ tx[w] # "none" /\ held[v] = held[w] => v = w

Untouched(j) ==
  /\ lockedBy[j] = NoWorker
  /\ \A w \in Workers : held[w] = j => tx[w] = "none"

\* A sweep that is to write a job, and an operator that is to requeue one, are
\* the only ones who can.
CalmSweeps == faults = 0 => \A j \in Jobs, s \in Sweepers :
  releasing[s] = j =>
    /\ status[j] \in Active \cup {"cancelled"}
    /\ Untouched(j)
    /\ \A o \in Operators : requeuing[o] # j

CalmRequeues == faults = 0 => \A j \in Jobs, o \in Operators :
  requeuing[o] = j =>
    status[j] \in {"dead_letter", "cancelled"} /\ Untouched(j)

Calm == CalmWorkers /\ CalmOwners /\ CalmTx /\ CalmSweeps /\ CalmRequeues

LEMMA CalmWorkersStep ==
  ASSUME IInv, Rested, Calm, [Next]_vars
  PROVE  CalmWorkers'
<1> USE QueueAssumption DEF IInv, TypeOK, Control, Shape, Rested, Sound, Calm,
   CalmWorkers, Holder, Owns, rowVars, workerVars, sweepVars, budgets
<1>1. CASE \E j \in Jobs : Enqueue(j)
  BY <1>1 DEF Enqueue
<1>2. CASE \E j \in Jobs : CancelJob(j)
  BY <1>2 DEF CancelJob, ClearLock
<1>3. CASE \E w \in Workers : Claim(w)
  BY <1>3 DEF Claim, Claimable, NextGeneration, RefreshLock
<1>4. CASE \E w \in Workers : BeginRead(w)
  BY <1>4 DEF BeginRead, OpenTx
<1>5. CASE \E w \in Workers : BeginWrite(w)
  BY <1>5 DEF BeginWrite, CommitTx, BeginLock, RefreshLock
<1>6. CASE \E w \in Workers : ExtendRead(w)
  BY <1>6 DEF ExtendRead, OpenTx
<1>7. CASE \E w \in Workers : ExtendWrite(w)
  BY <1>7 DEF ExtendWrite, CommitTx, RefreshLock
<1>8. CASE \E w \in Workers : BeatRead(w)
  BY <1>8 DEF BeatRead, LossRecorded
<1>9. CASE \E w \in Workers : BeatWrite(w)
  BY <1>9 DEF BeatWrite, BeatLock, RefreshLock
<1>10. CASE \E w \in Workers : CompleteRead(w)
  BY <1>10 DEF CompleteRead, OpenTx
<1>11. CASE \E w \in Workers : CompleteWrite(w)
  <2>1. PICK w \in Workers : CompleteWrite(w) BY <1>11
  <2>2. CASE Leave(w)
    BY <2>1, <2>2 DEF CompleteWrite, CommitTx, ClearLock, Leave
  <2>3. CASE Throw(w)
    BY <2>1, <2>3 DEF CompleteWrite, CommitTx, ClearLock, Throw
  <2>4. QED BY <2>1, <2>2, <2>3 DEF CompleteWrite
<1>12. CASE \E w \in Workers : HandlerThrows(w)
  BY <1>12 DEF HandlerThrows, Throw
<1>13. CASE \E w \in Workers : FailRead(w)
  BY <1>13 DEF FailRead, OpenTx, ShouldRetry
<1>14. CASE \E w \in Workers : FailWrite(w)
  BY <1>14 DEF FailWrite, CommitTx, ClearLock, Leave, AfterFailure
<1>15. CASE \E w \in Workers : OwnershipConflict(w)
  BY <1>15 DEF OwnershipConflict, Leave, Throw
<1>16. CASE \E w \in Workers : Crash(w)
  BY <1>16 DEF Crash, Fault, Gone
<1>17. CASE \E w \in Workers : BeatLost(w)
  BY <1>17 DEF BeatLost, Fault
<1>18. CASE \E w \in Workers : Abandon(w)
  BY <1>18 DEF Abandon, Fault, Gone
<1>19. CASE \E w \in Workers : Stall(w)
  BY <1>19 DEF Stall, Fault
<1>20. CASE \E s \in Sweepers : SweepScan(s)
  BY <1>20 DEF SweepScan
<1>21. CASE \E s \in Sweepers : ReleaseRead(s)
  BY <1>21 DEF ReleaseRead
<1>22. CASE \E s \in Sweepers : ReleaseWrite(s)
  BY <1>22 DEF ReleaseWrite, ClearLock
<1>23. CASE \E s \in Sweepers : SweepAbort(s)
  BY <1>23 DEF SweepAbort, Fault
<1>24. CASE \E s \in Stores : CancelStoreJobs(s)
  BY <1>24 DEF CancelStoreJobs, ClearLock
<1>25. CASE \E o \in Operators : RequeueRead(o)
  BY <1>25 DEF RequeueRead
<1>26. CASE \E o \in Operators : RequeueWrite(o)
  BY <1>26 DEF RequeueWrite, ClearLock
<1>27. CASE Tick
  BY <1>27 DEF Tick
<1>28. CASE UNCHANGED vars
  BY <1>28 DEF vars
<1>29. QED
  BY <1>1, <1>2, <1>3, <1>4, <1>5, <1>6, <1>7, <1>8, <1>9, <1>10, <1>11,
     <1>12, <1>13, <1>14, <1>15, <1>16, <1>17, <1>18, <1>19, <1>20, <1>21,
     <1>22, <1>23, <1>24, <1>25, <1>26, <1>27, <1>28 DEF Next, WorkerStep,
     WorkerFault, SweepStep
LEMMA CalmOwnersStep ==
  ASSUME IInv, Current, Calm, [Next]_vars
  PROVE  CalmOwners'
<1> USE QueueAssumption DEF IInv, TypeOK, Control, Shape,
   OnlyActiveJobsLocked, Calm, CalmWorkers, CalmOwners, Current, Holder, Owns,
   rowVars, workerVars, sweepVars, budgets
<1>1. CASE \E j \in Jobs : Enqueue(j)
  BY <1>1 DEF Enqueue
<1>2. CASE \E j \in Jobs : CancelJob(j)
  BY <1>2 DEF CancelJob, ClearLock
<1>3. CASE \E w \in Workers : Claim(w)
  BY <1>3 DEF Claim, Claimable, NextGeneration, RefreshLock
<1>4. CASE \E w \in Workers : BeginRead(w)
  BY <1>4 DEF BeginRead, OpenTx
<1>5. CASE \E w \in Workers : BeginWrite(w)
  BY <1>5 DEF BeginWrite, CommitTx, BeginLock, RefreshLock
<1>6. CASE \E w \in Workers : ExtendRead(w)
  BY <1>6 DEF ExtendRead, OpenTx
<1>7. CASE \E w \in Workers : ExtendWrite(w)
  BY <1>7 DEF ExtendWrite, CommitTx, RefreshLock
<1>8. CASE \E w \in Workers : BeatRead(w)
  BY <1>8 DEF BeatRead, LossRecorded
<1>9. CASE \E w \in Workers : BeatWrite(w)
  BY <1>9 DEF BeatWrite, BeatLock, RefreshLock
<1>10. CASE \E w \in Workers : CompleteRead(w)
  BY <1>10 DEF CompleteRead, OpenTx
<1>11. CASE \E w \in Workers : CompleteWrite(w)
  <2>1. PICK w \in Workers : CompleteWrite(w) BY <1>11
  <2>2. CASE Leave(w)
    BY <2>1, <2>2 DEF CompleteWrite, CommitTx, ClearLock, Leave
  <2>3. CASE Throw(w)
    BY <2>1, <2>3 DEF CompleteWrite, CommitTx, ClearLock, Throw
  <2>4. QED BY <2>1, <2>2, <2>3 DEF CompleteWrite
<1>12. CASE \E w \in Workers : HandlerThrows(w)
  BY <1>12 DEF HandlerThrows, Throw
<1>13. CASE \E w \in Workers : FailRead(w)
  BY <1>13 DEF FailRead, OpenTx, ShouldRetry
<1>14. CASE \E w \in Workers : FailWrite(w)
  BY <1>14 DEF FailWrite, CommitTx, ClearLock, Leave, AfterFailure
<1>15. CASE \E w \in Workers : OwnershipConflict(w)
  BY <1>15 DEF OwnershipConflict, Leave, Throw, MayBegin, MayComplete,
     OwnsToken
<1>16. CASE \E w \in Workers : Crash(w)
  BY <1>16 DEF Crash, Fault, Gone
<1>17. CASE \E w \in Workers : BeatLost(w)
  BY <1>17 DEF BeatLost, Fault
<1>18. CASE \E w \in Workers : Abandon(w)
  BY <1>18 DEF Abandon, Fault, Gone
<1>19. CASE \E w \in Workers : Stall(w)
  BY <1>19 DEF Stall, Fault
<1>20. CASE \E s \in Sweepers : SweepScan(s)
  BY <1>20 DEF SweepScan
<1>21. CASE \E s \in Sweepers : ReleaseRead(s)
  BY <1>21 DEF ReleaseRead
<1>22. CASE \E s \in Sweepers : ReleaseWrite(s)
  BY <1>22 DEF ReleaseWrite, ClearLock
<1>23. CASE \E s \in Sweepers : SweepAbort(s)
  BY <1>23 DEF SweepAbort, Fault
<1>24. CASE \E s \in Stores : CancelStoreJobs(s)
  BY <1>24 DEF CancelStoreJobs, ClearLock
<1>25. CASE \E o \in Operators : RequeueRead(o)
  BY <1>25 DEF RequeueRead
<1>26. CASE \E o \in Operators : RequeueWrite(o)
  BY <1>26 DEF RequeueWrite, ClearLock
<1>27. CASE Tick
  BY <1>27 DEF Tick
<1>28. CASE UNCHANGED vars
  BY <1>28 DEF vars
<1>29. QED
  BY <1>1, <1>2, <1>3, <1>4, <1>5, <1>6, <1>7, <1>8, <1>9, <1>10, <1>11,
     <1>12, <1>13, <1>14, <1>15, <1>16, <1>17, <1>18, <1>19, <1>20, <1>21,
     <1>22, <1>23, <1>24, <1>25, <1>26, <1>27, <1>28 DEF Next, WorkerStep,
     WorkerFault, SweepStep
\* Besides the transaction of the owner, none is open on a job.
LEMMA SoleTx ==
  ASSUME IInv, Calm, faults = 0, NEW w \in Workers, Holder(w),
         NEW v \in Workers, tx[v] # "none", held[v] = held[w]
  PROVE  v = w
<1>1. status[held[w]] \in Active
  BY QueueAssumption DEF IInv, OnlyActiveJobsLocked, Holder, Owns
<1>2. ASSUME v # w PROVE FALSE
  <2>1. Late(v)
    BY <1>2 DEF Late, Holder, Owns
  <2>2. QED BY <1>1, <2>1 DEF Calm, CalmTx, Active
<1>3. QED BY <1>2

\* On a job that waits, or has ended otherwise than cancelled, none is.
LEMMA NoTx ==
  ASSUME IInv, Calm, faults = 0, NEW j \in Jobs,
         status[j] \notin Active \cup {"cancelled"},
         NEW v \in Workers, held[v] = j
  PROVE  tx[v] = "none"
<1>1. lockedBy[j] # v
  BY QueueAssumption DEF IInv, OnlyActiveJobsLocked
<1>2. ASSUME tx[v] # "none" PROVE FALSE
  <2>1. Late(v)
    BY <1>1, <1>2 DEF Late, Owns
  <2>2. QED BY <2>1 DEF Calm, CalmTx
<1>3. QED BY <1>2

LEMMA CalmTxStep ==
  ASSUME OneRelease, OneRequeue, IInv, Calm, [Next]_vars
  PROVE  CalmTx'
<1> USE QueueAssumption DEF IInv, TypeOK, Control, Shape,
   OnlyActiveJobsLocked, Calm, CalmTx, CalmSweeps, CalmRequeues, Untouched,
   Late, Owns, Active, Waiting, rowVars, workerVars, sweepVars, budgets
<1>1. CASE \E j \in Jobs : Enqueue(j)
  BY <1>1 DEF Enqueue
<1>2. CASE \E j \in Jobs : CancelJob(j)
  BY <1>2 DEF CancelJob, ClearLock
<1>3. CASE \E w \in Workers : Claim(w)
  <2>1. PICK w \in Workers : Claim(w) BY <1>3
  <2>2. PICK j \in Jobs : /\ Claimable(j)
                          /\ status' = [status EXCEPT ![j] = "claimed"]
                          /\ held' = [held EXCEPT ![w] = j]
                          /\ lockedBy' = [lockedBy EXCEPT ![j] = w]
    BY <2>1 DEF Claim
  <2>3. tx[w] = "none" /\ UNCHANGED <<tx, faults>>
    BY <2>1 DEF Claim
  <2>4. faults = 0 => \A v \in Workers : tx[v] # "none" => held[v] # j
    <3>1. status[j] \notin Active \cup {"cancelled"}
      BY <2>2 DEF Claimable
    <3>2. QED BY <3>1, NoTx
  <2>5. QED BY <2>2, <2>3, <2>4
<1>4. CASE \E w \in Workers : BeginRead(w)
  <2>1. PICK w \in Workers : BeginRead(w) BY <1>4
  <2>2. Holder(w)
    BY <2>1 DEF BeginRead, Holder, MayBegin, OwnsToken
  <2>3. faults = 0 => \A v \in Workers :
          tx[v] # "none" /\ held[v] = held[w] => v = w
    BY <2>2, SoleTx
  <2>4. tx' \in [Workers -> {"none", "begin", "extend", "complete", "fail"}]
        /\ \A v \in Workers : v # w => tx'[v] = tx[v]
    BY <2>1 DEF BeginRead, OpenTx
  <2>5. UNCHANGED <<faults, held, lockedBy, status>>
    BY <2>1 DEF BeginRead, OpenTx
  <2>6. QED BY <2>2, <2>3, <2>4, <2>5 DEF Holder
<1>5. CASE \E w \in Workers : BeginWrite(w)
  BY <1>5 DEF BeginWrite, CommitTx, BeginLock, RefreshLock
<1>6. CASE \E w \in Workers : ExtendRead(w)
  <2>1. PICK w \in Workers : ExtendRead(w) BY <1>6
  <2>2. Holder(w)
    BY <2>1 DEF ExtendRead, Holder
  <2>3. faults = 0 => \A v \in Workers :
          tx[v] # "none" /\ held[v] = held[w] => v = w
    BY <2>2, SoleTx
  <2>4. tx' \in [Workers -> {"none", "begin", "extend", "complete", "fail"}]
        /\ \A v \in Workers : v # w => tx'[v] = tx[v]
    BY <2>1 DEF ExtendRead, OpenTx
  <2>5. UNCHANGED <<faults, held, lockedBy, status>>
    BY <2>1 DEF ExtendRead, OpenTx
  <2>6. QED BY <2>2, <2>3, <2>4, <2>5 DEF Holder
<1>7. CASE \E w \in Workers : ExtendWrite(w)
  BY <1>7 DEF ExtendWrite, CommitTx, RefreshLock
<1>8. CASE \E w \in Workers : BeatRead(w)
  BY <1>8 DEF BeatRead, LossRecorded
<1>9. CASE \E w \in Workers : BeatWrite(w)
  BY <1>9 DEF BeatWrite, BeatLock, RefreshLock
<1>10. CASE \E w \in Workers : CompleteRead(w)
  <2>1. PICK w \in Workers : CompleteRead(w) BY <1>10
  <2>2. Holder(w)
    BY <2>1 DEF CompleteRead, Holder, MayComplete
  <2>3. faults = 0 => \A v \in Workers :
          tx[v] # "none" /\ held[v] = held[w] => v = w
    BY <2>2, SoleTx
  <2>4. tx' \in [Workers -> {"none", "begin", "extend", "complete", "fail"}]
        /\ \A v \in Workers : v # w => tx'[v] = tx[v]
    BY <2>1 DEF CompleteRead, OpenTx
  <2>5. UNCHANGED <<faults, held, lockedBy, status>>
    BY <2>1 DEF CompleteRead, OpenTx
  <2>6. QED BY <2>2, <2>3, <2>4, <2>5 DEF Holder
<1>11. CASE \E w \in Workers : CompleteWrite(w)
  <2>1. PICK w \in Workers : CompleteWrite(w) BY <1>11
  <2>2. CASE Leave(w)
    BY <2>1, <2>2 DEF CompleteWrite, CommitTx, ClearLock, Leave
  <2>3. CASE Throw(w)
    BY <2>1, <2>3 DEF CompleteWrite, CommitTx, ClearLock, Throw
  <2>4. QED BY <2>1, <2>2, <2>3 DEF CompleteWrite
<1>12. CASE \E w \in Workers : HandlerThrows(w)
  BY <1>12 DEF HandlerThrows, Throw
<1>13. CASE \E w \in Workers : FailRead(w)
  <2>1. PICK w \in Workers : FailRead(w) BY <1>13
  <2>2. Holder(w)
    BY <2>1 DEF FailRead, Holder
  <2>3. faults = 0 => \A v \in Workers :
          tx[v] # "none" /\ held[v] = held[w] => v = w
    BY <2>2, SoleTx
  <2>4. tx' \in [Workers -> {"none", "begin", "extend", "complete", "fail"}]
        /\ \A v \in Workers : v # w => tx'[v] = tx[v]
    BY <2>1 DEF FailRead, OpenTx
  <2>5. UNCHANGED <<faults, held, lockedBy, status>>
    BY <2>1 DEF FailRead, OpenTx
  <2>6. QED BY <2>2, <2>3, <2>4, <2>5 DEF Holder
<1>14. CASE \E w \in Workers : FailWrite(w)
  BY <1>14 DEF FailWrite, CommitTx, ClearLock, Leave, AfterFailure
<1>15. CASE \E w \in Workers : OwnershipConflict(w)
  <2>1. PICK w \in Workers : OwnershipConflict(w) BY <1>15
  <2>2. tx[w] = "none" /\ UNCHANGED <<faults, lockedBy, status, tx>>
    BY <2>1 DEF OwnershipConflict
  <2>3. Leave(w) \/ Throw(w)
    BY <2>1 DEF OwnershipConflict
  <2>4. \A v \in Workers : v # w => held'[v] = held[v]
    BY <2>3 DEF Leave, Throw
  <2>5. \A v \in Workers : Late(v)' => Late(v) /\ v # w
    BY <2>2, <2>4
  <2>6. \A v \in Workers : tx'[v] # "none" => tx[v] # "none" /\ v # w
    BY <2>2
  <2>7. faults' = 0 =>
          \A v \in Workers : Late(v)' => status'[held'[v]] = "cancelled"
    BY <2>2, <2>4, <2>5
  <2>8. faults' = 0 => \A u, v \in Workers :
          tx'[u] # "none" /\ tx'[v] # "none" /\ held'[u] = held'[v] => u = v
    BY <2>2, <2>4, <2>6
  <2>9. QED BY <2>7, <2>8
<1>16. CASE \E w \in Workers : Crash(w)
  BY <1>16 DEF Crash, Fault, Gone
<1>17. CASE \E w \in Workers : BeatLost(w)
  BY <1>17 DEF BeatLost, Fault
<1>18. CASE \E w \in Workers : Abandon(w)
  BY <1>18 DEF Abandon, Fault, Gone
<1>19. CASE \E w \in Workers : Stall(w)
  BY <1>19 DEF Stall, Fault
<1>20. CASE \E s \in Sweepers : SweepScan(s)
  BY <1>20 DEF SweepScan
<1>21. CASE \E s \in Sweepers : ReleaseRead(s)
  BY <1>21 DEF ReleaseRead
<1>22. CASE \E s \in Sweepers : ReleaseWrite(s)
  BY <1>22 DEF ReleaseWrite, ClearLock
<1>23. CASE \E s \in Sweepers : SweepAbort(s)
  BY <1>23 DEF SweepAbort, Fault
<1>24. CASE \E s \in Stores : CancelStoreJobs(s)
  BY <1>24 DEF CancelStoreJobs, ClearLock
<1>25. CASE \E o \in Operators : RequeueRead(o)
  BY <1>25 DEF RequeueRead
<1>26. CASE \E o \in Operators : RequeueWrite(o)
  BY <1>26 DEF RequeueWrite, ClearLock
<1>27. CASE Tick
  BY <1>27 DEF Tick
<1>28. CASE UNCHANGED vars
  BY <1>28 DEF vars
<1>29. QED
  BY <1>1, <1>2, <1>3, <1>4, <1>5, <1>6, <1>7, <1>8, <1>9, <1>10, <1>11,
     <1>12, <1>13, <1>14, <1>15, <1>16, <1>17, <1>18, <1>19, <1>20, <1>21,
     <1>22, <1>23, <1>24, <1>25, <1>26, <1>27, <1>28 DEF Next, WorkerStep,
     WorkerFault, SweepStep
LEMMA CalmSweepsStep ==
  ASSUME OneRelease, OneRequeue, IInv, Beating, LateFresh, Calm, [Next]_vars
  PROVE  CalmSweeps'
<1> USE QueueAssumption DEF IInv, TypeOK, Control, Shape,
   OnlyActiveJobsLocked, Calm, CalmTx, CalmSweeps, CalmRequeues, Untouched,
   Late, Owns, Active, Waiting, rowVars, workerVars, sweepVars, budgets
<1>1. CASE \E j \in Jobs : Enqueue(j)
  BY <1>1 DEF Enqueue
<1>2. CASE \E j \in Jobs : CancelJob(j)
  BY <1>2 DEF CancelJob, ClearLock
<1>3. CASE \E w \in Workers : Claim(w)
  BY <1>3 DEF Claim, Claimable, NextGeneration, RefreshLock
<1>4. CASE \E w \in Workers : BeginRead(w)
  BY <1>4 DEF BeginRead, OpenTx, MayBegin, OwnsToken
<1>5. CASE \E w \in Workers : BeginWrite(w)
  BY <1>5 DEF BeginWrite, CommitTx, BeginLock, RefreshLock
<1>6. CASE \E w \in Workers : ExtendRead(w)
  BY <1>6 DEF ExtendRead, OpenTx
<1>7. CASE \E w \in Workers : ExtendWrite(w)
  BY <1>7 DEF ExtendWrite, CommitTx, RefreshLock
<1>8. CASE \E w \in Workers : BeatRead(w)
  BY <1>8 DEF BeatRead, LossRecorded
<1>9. CASE \E w \in Workers : BeatWrite(w)
  BY <1>9 DEF BeatWrite, BeatLock, RefreshLock
<1>10. CASE \E w \in Workers : CompleteRead(w)
  BY <1>10 DEF CompleteRead, OpenTx, MayComplete
<1>11. CASE \E w \in Workers : CompleteWrite(w)
  <2>1. PICK w \in Workers : CompleteWrite(w) BY <1>11
  <2>2. CASE Leave(w)
    BY <2>1, <2>2 DEF CompleteWrite, CommitTx, ClearLock, Leave
  <2>3. CASE Throw(w)
    BY <2>1, <2>3 DEF CompleteWrite, CommitTx, ClearLock, Throw
  <2>4. QED BY <2>1, <2>2, <2>3 DEF CompleteWrite
<1>12. CASE \E w \in Workers : HandlerThrows(w)
  BY <1>12 DEF HandlerThrows, Throw
<1>13. CASE \E w \in Workers : FailRead(w)
  BY <1>13 DEF FailRead, OpenTx, ShouldRetry
<1>14. CASE \E w \in Workers : FailWrite(w)
  BY <1>14 DEF FailWrite, CommitTx, ClearLock, Leave, AfterFailure
<1>15. CASE \E w \in Workers : OwnershipConflict(w)
  BY <1>15 DEF OwnershipConflict, Leave, Throw
<1>16. CASE \E w \in Workers : Crash(w)
  BY <1>16 DEF Crash, Fault, Gone
<1>17. CASE \E w \in Workers : BeatLost(w)
  BY <1>17 DEF BeatLost, Fault
<1>18. CASE \E w \in Workers : Abandon(w)
  BY <1>18 DEF Abandon, Fault, Gone
<1>19. CASE \E w \in Workers : Stall(w)
  BY <1>19 DEF Stall, Fault
<1>20. CASE \E s \in Sweepers : SweepScan(s)
  BY <1>20 DEF SweepScan
<1>21. CASE \E s \in Sweepers : ReleaseRead(s)
  BY <1>21 DEF ReleaseRead, Eligible, Beating, LateFresh, Holder, Sound,
     CalmWorkers, CalmOwners
<1>22. CASE \E s \in Sweepers : ReleaseWrite(s)
  BY <1>22 DEF ReleaseWrite, ClearLock, OneRelease
<1>23. CASE \E s \in Sweepers : SweepAbort(s)
  BY <1>23 DEF SweepAbort, Fault
<1>24. CASE \E s \in Stores : CancelStoreJobs(s)
  BY <1>24 DEF CancelStoreJobs, ClearLock
<1>25. CASE \E o \in Operators : RequeueRead(o)
  BY <1>25 DEF RequeueRead, Requeueable
<1>26. CASE \E o \in Operators : RequeueWrite(o)
  BY <1>26 DEF RequeueWrite, ClearLock
<1>27. CASE Tick
  BY <1>27 DEF Tick
<1>28. CASE UNCHANGED vars
  BY <1>28 DEF vars
<1>29. QED
  BY <1>1, <1>2, <1>3, <1>4, <1>5, <1>6, <1>7, <1>8, <1>9, <1>10, <1>11,
     <1>12, <1>13, <1>14, <1>15, <1>16, <1>17, <1>18, <1>19, <1>20, <1>21,
     <1>22, <1>23, <1>24, <1>25, <1>26, <1>27, <1>28 DEF Next, WorkerStep,
     WorkerFault, SweepStep
LEMMA CalmRequeuesStep ==
  ASSUME OneRelease, OneRequeue, IInv, Calm, [Next]_vars
  PROVE  CalmRequeues'
<1> USE QueueAssumption DEF IInv, TypeOK, Control, Shape,
   OnlyActiveJobsLocked, Calm, CalmTx, CalmSweeps, CalmRequeues, Untouched,
   Late, Owns, Active, Waiting, rowVars, workerVars, sweepVars, budgets
<1>1. CASE \E j \in Jobs : Enqueue(j)
  BY <1>1 DEF Enqueue
<1>2. CASE \E j \in Jobs : CancelJob(j)
  BY <1>2 DEF CancelJob, ClearLock
<1>3. CASE \E w \in Workers : Claim(w)
  BY <1>3 DEF Claim, Claimable, NextGeneration, RefreshLock
<1>4. CASE \E w \in Workers : BeginRead(w)
  BY <1>4 DEF BeginRead, OpenTx, MayBegin, OwnsToken
<1>5. CASE \E w \in Workers : BeginWrite(w)
  BY <1>5 DEF BeginWrite, CommitTx, BeginLock, RefreshLock
<1>6. CASE \E w \in Workers : ExtendRead(w)
  BY <1>6 DEF ExtendRead, OpenTx
<1>7. CASE \E w \in Workers : ExtendWrite(w)
  BY <1>7 DEF ExtendWrite, CommitTx, RefreshLock
<1>8. CASE \E w \in Workers : BeatRead(w)
  BY <1>8 DEF BeatRead, LossRecorded
<1>9. CASE \E w \in Workers : BeatWrite(w)
  BY <1>9 DEF BeatWrite, BeatLock, RefreshLock
<1>10. CASE \E w \in Workers : CompleteRead(w)
  BY <1>10 DEF CompleteRead, OpenTx, MayComplete
<1>11. CASE \E w \in Workers : CompleteWrite(w)
  <2>1. PICK w \in Workers : CompleteWrite(w) BY <1>11
  <2>2. CASE Leave(w)
    BY <2>1, <2>2 DEF CompleteWrite, CommitTx, ClearLock, Leave
  <2>3. CASE Throw(w)
    BY <2>1, <2>3 DEF CompleteWrite, CommitTx, ClearLock, Throw
  <2>4. QED BY <2>1, <2>2, <2>3 DEF CompleteWrite
<1>12. CASE \E w \in Workers : HandlerThrows(w)
  BY <1>12 DEF HandlerThrows, Throw
<1>13. CASE \E w \in Workers : FailRead(w)
  BY <1>13 DEF FailRead, OpenTx, ShouldRetry
<1>14. CASE \E w \in Workers : FailWrite(w)
  BY <1>14 DEF FailWrite, CommitTx, ClearLock, Leave, AfterFailure
<1>15. CASE \E w \in Workers : OwnershipConflict(w)
  BY <1>15 DEF OwnershipConflict, Leave, Throw
<1>16. CASE \E w \in Workers : Crash(w)
  BY <1>16 DEF Crash, Fault, Gone
<1>17. CASE \E w \in Workers : BeatLost(w)
  BY <1>17 DEF BeatLost, Fault
<1>18. CASE \E w \in Workers : Abandon(w)
  BY <1>18 DEF Abandon, Fault, Gone
<1>19. CASE \E w \in Workers : Stall(w)
  BY <1>19 DEF Stall, Fault
<1>20. CASE \E s \in Sweepers : SweepScan(s)
  BY <1>20 DEF SweepScan
<1>21. CASE \E s \in Sweepers : ReleaseRead(s)
  BY <1>21 DEF ReleaseRead
<1>22. CASE \E s \in Sweepers : ReleaseWrite(s)
  BY <1>22 DEF ReleaseWrite, ClearLock
<1>23. CASE \E s \in Sweepers : SweepAbort(s)
  BY <1>23 DEF SweepAbort, Fault
<1>24. CASE \E s \in Stores : CancelStoreJobs(s)
  BY <1>24 DEF CancelStoreJobs, ClearLock
<1>25. CASE \E o \in Operators : RequeueRead(o)
  <2>1. PICK o \in Operators : RequeueRead(o) BY <1>25
  <2>2. PICK j \in Jobs : Requeueable(j)
                          /\ requeuing' = [requeuing EXCEPT ![o] = j]
    BY <2>1 DEF RequeueRead
  <2>3. UNCHANGED <<status, lockedBy, held, tx, faults>>
    BY <2>1 DEF RequeueRead
  <2>4. status[j] = "dead_letter" /\ lockedBy[j] = NoWorker
    BY <2>2 DEF Requeueable
  <2>5. faults = 0 => \A v \in Workers : held[v] = j => tx[v] = "none"
    BY <2>4, NoTx
  <2>6. QED BY <2>2, <2>3, <2>4, <2>5
<1>26. CASE \E o \in Operators : RequeueWrite(o)
  BY <1>26 DEF RequeueWrite, ClearLock, OneRequeue
<1>27. CASE Tick
  BY <1>27 DEF Tick
<1>28. CASE UNCHANGED vars
  BY <1>28 DEF vars
<1>29. QED
  BY <1>1, <1>2, <1>3, <1>4, <1>5, <1>6, <1>7, <1>8, <1>9, <1>10, <1>11,
     <1>12, <1>13, <1>14, <1>15, <1>16, <1>17, <1>18, <1>19, <1>20, <1>21,
     <1>22, <1>23, <1>24, <1>25, <1>26, <1>27, <1>28 DEF Next, WorkerStep,
     WorkerFault, SweepStep
\* Nothing is about to write a completed job.
LEMMA CompletedIsQuiet ==
  ASSUME IInv, Calm, faults = 0, NEW j \in Jobs, status[j] = "completed"
  PROVE  /\ \A w \in Workers : held[w] = j => tx[w] = "none"
         /\ \A s \in Sweepers : releasing[s] # j
         /\ \A o \in Operators : requeuing[o] # j
<1>1. \A w \in Workers : held[w] = j => tx[w] = "none"
  BY NoTx DEF Active
<1>2. QED
  BY <1>1 DEF Calm, CalmSweeps, CalmRequeues, Active

LEMMA FaultsCount ==
  ASSUME TypeOK, [Next]_vars
  PROVE  faults' \in {faults, faults + 1}
  BY DEF TypeOK, Next, WorkerStep, WorkerFault, SweepStep, vars, budgets,
     Enqueue, CancelJob, Claim, BeginRead, BeginWrite, ExtendRead, ExtendWrite,
     BeatRead, BeatWrite, CompleteRead, CompleteWrite, HandlerThrows, FailRead,
     FailWrite, OwnershipConflict, Crash, BeatLost, Abandon, Stall, Fault,
     SweepScan, ReleaseRead, ReleaseWrite, SweepAbort, CancelStoreJobs,
     RequeueRead, RequeueWrite, Tick, OpenTx, CommitTx

LEMMA CompletedStep ==
  ASSUME IInv, Calm, [Next]_vars, faults' = 0, NEW k \in Jobs,
         status[k] = "completed"
  PROVE  status'[k] \in {"completed", "cancelled"}
<1>a. faults = 0
  BY FaultsCount DEF IInv, TypeOK
<1>b. /\ \A w \in Workers : held[w] = k => tx[w] = "none"
      /\ \A s \in Sweepers : releasing[s] # k
      /\ \A o \in Operators : requeuing[o] # k
  BY <1>a, CompletedIsQuiet
<1> USE QueueAssumption, <1>b DEF IInv, TypeOK, Shape, Waiting,
   rowVars, workerVars, sweepVars, budgets
<1>1. CASE \E j \in Jobs : Enqueue(j)
  BY <1>1 DEF Enqueue
<1>2. CASE \E j \in Jobs : CancelJob(j)
  BY <1>2 DEF CancelJob, ClearLock
<1>3. CASE \E w \in Workers : Claim(w)
  BY <1>3 DEF Claim, Claimable, NextGeneration, RefreshLock
<1>4. CASE \E w \in Workers : BeginRead(w)
  BY <1>4 DEF BeginRead, OpenTx
<1>5. CASE \E w \in Workers : BeginWrite(w)
  BY <1>5 DEF BeginWrite, CommitTx, BeginLock, RefreshLock
<1>6. CASE \E w \in Workers : ExtendRead(w)
  BY <1>6 DEF ExtendRead, OpenTx
<1>7. CASE \E w \in Workers : ExtendWrite(w)
  BY <1>7 DEF ExtendWrite, CommitTx, RefreshLock
<1>8. CASE \E w \in Workers : BeatRead(w)
  BY <1>8 DEF BeatRead, LossRecorded
<1>9. CASE \E w \in Workers : BeatWrite(w)
  BY <1>9 DEF BeatWrite, BeatLock, RefreshLock
<1>10. CASE \E w \in Workers : CompleteRead(w)
  BY <1>10 DEF CompleteRead, OpenTx
<1>11. CASE \E w \in Workers : CompleteWrite(w)
  <2>1. PICK w \in Workers : CompleteWrite(w) BY <1>11
  <2>2. CASE Leave(w)
    BY <2>1, <2>2 DEF CompleteWrite, CommitTx, ClearLock, Leave
  <2>3. CASE Throw(w)
    BY <2>1, <2>3 DEF CompleteWrite, CommitTx, ClearLock, Throw
  <2>4. QED BY <2>1, <2>2, <2>3 DEF CompleteWrite
<1>12. CASE \E w \in Workers : HandlerThrows(w)
  BY <1>12 DEF HandlerThrows, Throw
<1>13. CASE \E w \in Workers : FailRead(w)
  BY <1>13 DEF FailRead, OpenTx, ShouldRetry
<1>14. CASE \E w \in Workers : FailWrite(w)
  BY <1>14 DEF FailWrite, CommitTx, ClearLock, Leave, AfterFailure
<1>15. CASE \E w \in Workers : OwnershipConflict(w)
  BY <1>15 DEF OwnershipConflict, Leave, Throw
<1>16. CASE \E w \in Workers : Crash(w)
  BY <1>16 DEF Crash, Fault, Gone
<1>17. CASE \E w \in Workers : BeatLost(w)
  BY <1>17 DEF BeatLost, Fault
<1>18. CASE \E w \in Workers : Abandon(w)
  BY <1>18 DEF Abandon, Fault, Gone
<1>19. CASE \E w \in Workers : Stall(w)
  BY <1>19 DEF Stall, Fault
<1>20. CASE \E s \in Sweepers : SweepScan(s)
  BY <1>20 DEF SweepScan
<1>21. CASE \E s \in Sweepers : ReleaseRead(s)
  BY <1>21 DEF ReleaseRead
<1>22. CASE \E s \in Sweepers : ReleaseWrite(s)
  BY <1>22 DEF ReleaseWrite, ClearLock
<1>23. CASE \E s \in Sweepers : SweepAbort(s)
  BY <1>23 DEF SweepAbort, Fault
<1>24. CASE \E s \in Stores : CancelStoreJobs(s)
  BY <1>24 DEF CancelStoreJobs, ClearLock
<1>25. CASE \E o \in Operators : RequeueRead(o)
  BY <1>25 DEF RequeueRead
<1>26. CASE \E o \in Operators : RequeueWrite(o)
  BY <1>26 DEF RequeueWrite, ClearLock
<1>27. CASE Tick
  BY <1>27 DEF Tick
<1>28. CASE UNCHANGED vars
  BY <1>28 DEF vars
<1>29. QED
  BY <1>1, <1>2, <1>3, <1>4, <1>5, <1>6, <1>7, <1>8, <1>9, <1>10, <1>11,
     <1>12, <1>13, <1>14, <1>15, <1>16, <1>17, <1>18, <1>19, <1>20, <1>21,
     <1>22, <1>23, <1>24, <1>25, <1>26, <1>27, <1>28 DEF Next, WorkerStep,
     WorkerFault, SweepStep

(* What every attempt beyond the limit is charged to.                      *)

\* Requeues that have found the job dead-lettered and not written it yet.
Pending(j) == {o \in Operators : requeuing[o] = j}

PendingPaid == \A j \in Jobs :
  IsFiniteSet(Pending(j)) /\ Cardinality(Pending(j)) <= manual

LEMMA RequeuingChanges ==
  ASSUME TypeOK, [Next]_vars
  PROVE  \/ \E o \in Operators : RequeueRead(o) \/ RequeueWrite(o)
         \/ UNCHANGED requeuing /\ manual' \in {manual, manual + 1}
  BY DEF TypeOK, Next, WorkerStep, WorkerFault, SweepStep, vars, budgets,
     Enqueue, CancelJob, Claim, BeginRead, BeginWrite, ExtendRead, ExtendWrite,
     BeatRead, BeatWrite, CompleteRead, CompleteWrite, HandlerThrows, FailRead,
     FailWrite, OwnershipConflict, Crash, BeatLost, Abandon, Gone, Stall,
     SweepScan, ReleaseRead, ReleaseWrite, SweepAbort, CancelStoreJobs, Tick,
     OpenTx, CommitTx

\* A job's pending requeues are charged to the operators' actions.
LEMMA PendingStep ==
  ASSUME TypeOK, PendingPaid, [Next]_vars
  PROVE  PendingPaid'
<1> SUFFICES ASSUME NEW j \in Jobs
             PROVE  /\ IsFiniteSet(Pending(j)')
                    /\ Cardinality(Pending(j)') <= manual'
  BY DEF PendingPaid
<1>1. /\ IsFiniteSet(Pending(j)) /\ Cardinality(Pending(j)) \in Nat
      /\ Cardinality(Pending(j)) <= manual /\ manual \in Nat
  BY FS_CardinalityType DEF PendingPaid, TypeOK
<1>2. CASE \E o \in Operators : RequeueRead(o)
  <2>1. PICK o \in Operators : RequeueRead(o) BY <1>2
  <2>2. manual' = manual + 1
    BY <2>1 DEF RequeueRead
  <2>3. CASE requeuing'[o] = j
    <3>1. Pending(j)' = Pending(j) \cup {o}
      BY <2>1, <2>3 DEF RequeueRead, Pending, TypeOK
    <3>2. o \notin Pending(j)
      BY <2>1, QueueAssumption DEF RequeueRead, Pending
    <3>3. /\ IsFiniteSet(Pending(j)')
          /\ Cardinality(Pending(j)') = Cardinality(Pending(j)) + 1
      BY <1>1, <3>1, <3>2, FS_AddElement
    <3>4. QED BY <1>1, <2>2, <3>3
  <2>4. CASE requeuing'[o] # j
    <3>1. Pending(j)' = Pending(j)
      BY <2>1, <2>4, QueueAssumption DEF RequeueRead, Pending, TypeOK
    <3>2. QED BY <1>1, <2>2, <3>1
  <2>5. QED BY <2>3, <2>4
<1>3. CASE \E o \in Operators : RequeueWrite(o)
  <2>1. PICK o \in Operators : RequeueWrite(o) BY <1>3
  <2>2. UNCHANGED manual
    BY <2>1 DEF RequeueWrite, budgets
  <2>3. Pending(j)' \subseteq Pending(j)
    BY <2>1, QueueAssumption DEF RequeueWrite, Pending, TypeOK
  <2>4. /\ IsFiniteSet(Pending(j)')
        /\ Cardinality(Pending(j)') <= Cardinality(Pending(j))
    BY <1>1, <2>3, FS_Subset
  <2>5. Cardinality(Pending(j)') \in Nat
    BY <2>4, FS_CardinalityType
  <2>6. QED BY <1>1, <2>2, <2>4, <2>5
<1>4. CASE UNCHANGED requeuing /\ manual' \in {manual, manual + 1}
  <2>1. Pending(j)' = Pending(j)
    BY <1>4 DEF Pending
  <2>2. QED BY <1>1, <1>4, <2>1
<1>5. QED BY <1>2, <1>3, <1>4, RequeuingChanges

Loose(j) == \E w \in Workers : Late(w) /\ held[w] = j

Live(j) == \E w \in Workers : lockedBy[j] = w /\ held[w] = j /\ Sound(w)

Releasing(j) == \E s \in Sweepers : releasing[s] = j

\* The claims a job may still get although nothing goes wrong any more and its
\* attempts are used up: one when it waits, when a sweep will find it or has
\* found it, or when a late transaction may bring it back to that; another
\* when a late transaction may follow the next claim; and a third when it may
\* be claimed before the sweep that is to release it has written.
OneMore(j) ==
  \/ status[j] \in Waiting \cup {"none"}
  \/ status[j] \in Active /\ ~Live(j)
  \/ Loose(j)
  \/ Releasing(j)

TwoMore(j) ==
  \/ Ready(j) /\ Loose(j)
  \/ lockedBy[j] # NoWorker /\ ~Live(j)
  \/ Releasing(j) /\ (Ready(j) \/ Loose(j) \/ lockedBy[j] # NoWorker)

ThreeMore(j) == Releasing(j) /\ Ready(j)

\* What faults, uninstalls and operators' actions have paid for and no claim or
\* pending requeue has used.
Credit(j) == MaxAttempts[j] + 2 * (faults + uninstalls + manual)
               - attempts[j] - 2 * Cardinality(Pending(j))

Covered(j) ==
  /\ Credit(j) >= 0
  /\ OneMore(j) => Credit(j) >= 1
  /\ TwoMore(j) => Credit(j) >= 2
  /\ ThreeMore(j) => Credit(j) >= 3

Accounted == \A j \in Jobs : Covered(j)

LEMMA CreditType ==
  ASSUME TypeOK, PendingPaid, NEW j \in Jobs
  PROVE  Credit(j) \in Int
<1>1. Cardinality(Pending(j)) \in Nat
  BY FS_CardinalityType DEF PendingPaid
<1>2. QED BY <1>1, QueueAssumption DEF Credit, TypeOK

\* A step that neither claims nor pays leaves the job covered when it opens no
\* new way to a claim.
LEMMA StillCovered ==
  ASSUME NEW j \in Jobs, Covered(j), Credit(j) \in Int,
         Credit(j)' \in Int, Credit(j)' >= Credit(j),
         OneMore(j)' => OneMore(j), TwoMore(j)' => TwoMore(j),
         ThreeMore(j)' => ThreeMore(j)
  PROVE  Covered(j)'
  BY DEF Covered

LEMMA QuietStep ==
  ASSUME OneRelease, IInv, Rested, Current, Beating, LateFresh, NEW j \in Jobs,
    \/ \E k \in Jobs : Enqueue(k)
    \/ \E w \in Workers :
         \/ BeginRead(w) \/ BeginWrite(w) \/ ExtendRead(w) \/ ExtendWrite(w)
         \/ BeatRead(w) \/ BeatWrite(w) \/ CompleteRead(w) \/ CompleteWrite(w)
         \/ HandlerThrows(w) \/ FailRead(w) \/ OwnershipConflict(w)
    \/ \E s \in Sweepers : SweepScan(s) \/ ReleaseRead(s) \/ ReleaseWrite(s)
    \/ Tick
  PROVE  /\ OneMore(j)' => OneMore(j)
         /\ TwoMore(j)' => TwoMore(j)
         /\ ThreeMore(j)' => ThreeMore(j)
<1> USE QueueAssumption DEF IInv, TypeOK, Shape, Control, Loose, Live,
   Releasing, Ready, OneMore, TwoMore, ThreeMore, Late, Owns, Sound, Active,
   Waiting, Status, Terminal, OnlyActiveJobsLocked, rowVars, workerVars,
   sweepVars, budgets
<1>1. CASE \E k \in Jobs : Enqueue(k)
  BY <1>1 DEF Enqueue
<1>2. CASE \E w \in Workers : BeginRead(w)
  BY <1>2 DEF BeginRead, OpenTx, MayBegin, OwnsToken
<1>3. CASE \E w \in Workers : BeginWrite(w)
  BY <1>3 DEF BeginWrite, CommitTx, BeginLock, RefreshLock
<1>4. CASE \E w \in Workers : ExtendRead(w)
  BY <1>4 DEF ExtendRead, OpenTx
<1>5. CASE \E w \in Workers : ExtendWrite(w)
  BY <1>5 DEF ExtendWrite, CommitTx, RefreshLock
<1>6. CASE \E w \in Workers : BeatRead(w)
  BY <1>6 DEF BeatRead, LossRecorded
<1>7. CASE \E w \in Workers : BeatWrite(w)
  BY <1>7 DEF BeatWrite, BeatLock, RefreshLock
<1>8. CASE \E w \in Workers : CompleteRead(w)
  BY <1>8 DEF CompleteRead, OpenTx, MayComplete
<1>9. CASE \E w \in Workers : CompleteWrite(w)
  <2>1. PICK w \in Workers : CompleteWrite(w) BY <1>9
  <2>2. /\ tx[w] = "complete" /\ tx' = [tx EXCEPT ![w] = "none"]
        /\ status' = [status EXCEPT ![held[w]] = "completed"]
        /\ lockedBy' = [lockedBy EXCEPT ![held[w]] = NoWorker]
        /\ held[w] \in Jobs
        /\ UNCHANGED <<delay, releasing>>
    BY <2>1 DEF CompleteWrite, CommitTx, ClearLock
  <2>3. \A v \in Workers : v # w => held'[v] = held[v]
    BY <2>1 DEF CompleteWrite, Leave, Throw
  <2>4. Loose(j)' => Loose(j)
    <3>1. ASSUME NEW v \in Workers, Late(v)', held'[v] = j
          PROVE  Late(v) \/ (Late(w) /\ held[w] = j)
      <4>1. v # w /\ held[v] = j /\ tx[v] # "none"
        BY <2>2, <2>3, <3>1
      <4>2. QED BY <2>2, <3>1, <4>1
    <3>2. QED BY <2>2, <2>3, <3>1
  <2>5. held[w] # j /\ Live(j) => Live(j)'
    BY <2>1, <2>2, <2>3 DEF CompleteWrite, Leave, Throw
  <2>6. CASE held[w] = j BY <2>2, <2>4, <2>6
  <2>7. CASE held[w] # j BY <2>2, <2>4, <2>5, <2>7
  <2>8. QED BY <2>6, <2>7
<1>10. CASE \E w \in Workers : HandlerThrows(w)
  BY <1>10 DEF HandlerThrows, Throw
<1>11. CASE \E w \in Workers : FailRead(w)
  BY <1>11 DEF FailRead, OpenTx, ShouldRetry
<1>12. CASE \E w \in Workers : OwnershipConflict(w)
  BY <1>12 DEF OwnershipConflict, Leave, Throw, MayBegin, MayComplete,
     OwnsToken, Current, Holder
<1>13. CASE \E s \in Sweepers : SweepScan(s)
  BY <1>13 DEF SweepScan
<1>14. CASE \E s \in Sweepers : ReleaseRead(s)
  BY <1>14 DEF ReleaseRead, Eligible, Beating, Holder, LateFresh
<1>15. CASE \E s \in Sweepers : ReleaseWrite(s)
  BY <1>15 DEF ReleaseWrite, ClearLock, OneRelease
<1>16. CASE Tick
  BY <1>16 DEF Tick, NoTxOpen
<1>17. QED
  BY <1>1, <1>2, <1>3, <1>4, <1>5, <1>6, <1>7, <1>8, <1>9, <1>10, <1>11,
     <1>12, <1>13, <1>14, <1>15, <1>16
\* A step that pays for two claims covers whatever it opens, when it starts no
\* release.
LEMMA PaidCovered ==
  ASSUME NEW j \in Jobs, Covered(j), Credit(j) \in Int,
         Credit(j)' = Credit(j) + 2, Releasing(j)' => Releasing(j)
  PROVE  Covered(j)'
  BY DEF Covered, OneMore, ThreeMore

\* Without a claim, a payment or a requeue the credit stays.
LEMMA CreditKept ==
  ASSUME NEW j \in Jobs, UNCHANGED <<attempts, requeuing, budgets>>
  PROVE  Credit(j)' = Credit(j)
<1>1. Pending(j)' = Pending(j)
  BY DEF Pending
<1>2. QED BY <1>1 DEF Credit, budgets

LEMMA PaidStep ==
  ASSUME TypeOK, PendingPaid, NEW j \in Jobs,
    \/ \E w \in Workers : Crash(w) \/ BeatLost(w) \/ Abandon(w) \/ Stall(w)
    \/ \E s \in Sweepers : SweepAbort(s)
    \/ \E s \in Stores : CancelStoreJobs(s)
    \/ \E k \in Jobs : CancelJob(k)
  PROVE  /\ Credit(j)' = Credit(j) + 2
         /\ Releasing(j)' => Releasing(j)
<1>1. /\ UNCHANGED <<attempts, requeuing>>
      /\ \/ faults' = faults + 1 /\ UNCHANGED <<uninstalls, manual>>
         \/ uninstalls' = uninstalls + 1 /\ UNCHANGED <<faults, manual>>
         \/ manual' = manual + 1 /\ UNCHANGED <<faults, uninstalls>>
  BY DEF Crash, BeatLost, Abandon, Stall, SweepAbort, Gone, Fault,
     CancelStoreJobs, CancelJob, rowVars, workerVars
<1>2. Pending(j)' = Pending(j)
  BY <1>1 DEF Pending
<1>3. Cardinality(Pending(j)) \in Nat
  BY FS_CardinalityType DEF PendingPaid
<1>4. Credit(j)' = Credit(j) + 2
  BY <1>1, <1>2, <1>3, QueueAssumption DEF Credit, TypeOK
<1>5. Releasing(j)' => Releasing(j)
  BY QueueAssumption DEF TypeOK, Releasing, Crash, BeatLost, Abandon, Stall,
     SweepAbort, Gone, CancelStoreJobs, CancelJob, rowVars, workerVars,
     sweepVars
<1>6. QED BY <1>4, <1>5

LEMMA ClaimCovered ==
  ASSUME IInv, Rested, PendingPaid, NEW j \in Jobs, Covered(j),
         NEW w \in Workers, Claim(w)
  PROVE  Covered(j)'
<1>1. PICK k \in Jobs :
        /\ Claimable(k)
        /\ status' = [status EXCEPT ![k] = "claimed"]
        /\ attempts' = [attempts EXCEPT ![k] = @ + 1]
        /\ lockedBy' = [lockedBy EXCEPT ![k] = w]
        /\ held' = [held EXCEPT ![w] = k]
  BY DEF Claim
<1>2. /\ pc[w] = "idle" /\ held[w] = NoJob /\ tx[w] = "none" /\ Sound(w)
      /\ UNCHANGED <<delay, tx, beatFailed, stalled, releasing, requeuing,
                     faults, uninstalls, manual>>
  BY DEF Claim, IInv, TypeOK, Shape, Rested, sweepVars, budgets
<1> USE QueueAssumption DEF IInv, TypeOK, OnlyActiveJobsLocked, Loose, Live,
   Late, Releasing, Ready, Owns, Sound, Active, Waiting
<1>3. Pending(j)' = Pending(j)
  BY <1>2 DEF Pending
<1>4. Cardinality(Pending(j)) \in Nat
  BY FS_CardinalityType DEF PendingPaid
<1>5. Credit(j) \in Int
  BY CreditType
<1>6. CASE k = j
  <2>1. Credit(j)' = Credit(j) - 1
    BY <1>1, <1>2, <1>3, <1>4, <1>6 DEF Credit
  <2>2. Ready(j) /\ OneMore(j) /\ ~Ready(j)'
    BY <1>1, <1>2, <1>6 DEF Claimable, OneMore
  <2>3. Loose(j)' => Loose(j)
    BY <1>1, <1>2, <1>6 DEF Claimable
  <2>4. Live(j)'
    BY <1>1, <1>2, <1>6
  <2>5. Releasing(j)' => Releasing(j)
    BY <1>2
  <2>6. OneMore(j)' => TwoMore(j)
    BY <1>1, <1>6, <2>2, <2>3, <2>4, <2>5 DEF OneMore, TwoMore
  <2>7. (TwoMore(j)' => ThreeMore(j)) /\ ~ThreeMore(j)'
    BY <2>2, <2>4, <2>5 DEF TwoMore, ThreeMore
  <2>8. QED
    BY <1>5, <2>1, <2>2, <2>6, <2>7 DEF Covered
<1>7. CASE k # j
  <2>1. Credit(j)' = Credit(j)
    BY <1>1, <1>2, <1>3, <1>7 DEF Credit
  <2>2. /\ OneMore(j)' => OneMore(j)
        /\ TwoMore(j)' => TwoMore(j)
        /\ ThreeMore(j)' => ThreeMore(j)
    BY <1>1, <1>2, <1>7 DEF OneMore, TwoMore, ThreeMore
  <2>3. QED
    BY <1>5, <2>1, <2>2, StillCovered
<1>8. QED BY <1>6, <1>7

LEMMA FailCovered ==
  ASSUME IInv, FailWaits, RetryAllowed, PendingPaid, NEW j \in Jobs,
         Covered(j), NEW w \in Workers, FailWrite(w)
  PROVE  Covered(j)'
<1> DEFINE retry == retryIn[w] # NoRetry
<1> USE QueueAssumption DEF IInv, TypeOK, Shape, OnlyActiveJobsLocked, Loose,
   Live, Late, Releasing, Ready, Owns, Sound, Active, Waiting
<1>1. /\ tx[w] = "fail" /\ tx' = [tx EXCEPT ![w] = "none"]
      /\ status' = [status EXCEPT ![held[w]] = AfterFailure(retry)]
      /\ delay' = [delay EXCEPT ![held[w]] = IF retry THEN retryIn[w] ELSE @]
      /\ lockedBy' = [lockedBy EXCEPT ![held[w]] = NoWorker]
      /\ held' = [held EXCEPT ![w] = NoJob]
      /\ held[w] \in Jobs
      /\ UNCHANGED <<attempts, releasing, requeuing, budgets>>
      /\ \A v \in Workers : v # w => UNCHANGED <<stalled[v], beatFailed[v]>>
  BY DEF FailWrite, CommitTx, ClearLock, Leave, sweepVars
<1>2. Credit(j)' = Credit(j) /\ Credit(j) \in Int
  BY <1>1, CreditKept, CreditType
<1>3. CASE held[w] # j
  <2>1. Loose(j)' => Loose(j)
    BY <1>1, <1>3
  <2>2. Live(j) => Live(j)'
    BY <1>1, <1>3
  <2>3. QED
    BY <1>1, <1>2, <1>3, <2>1, <2>2, StillCovered
    DEF OneMore, TwoMore, ThreeMore
<1>4. CASE held[w] = j
  <2>1. Loose(j)' => Loose(j)
    <3>1. ASSUME NEW v \in Workers, Late(v)', held'[v] = j
          PROVE  Late(v) \/ (Late(w) /\ held[w] = j)
      <4>1. v # w /\ held[v] = j /\ tx[v] # "none"
        BY <1>1, <3>1
      <4>2. QED BY <1>1, <1>4, <3>1, <4>1
    <3>2. QED BY <1>1, <3>1
  <2>2. ~Ready(j)'
    BY <1>1, <1>4 DEF AfterFailure, FailWaits
  <2>3. (TwoMore(j)' => TwoMore(j)) /\ ~ThreeMore(j)'
    BY <1>1, <1>4, <2>1, <2>2 DEF TwoMore, ThreeMore
  <2>4. CASE OneMore(j)
    BY <1>2, <2>3, <2>4 DEF Covered
  <2>5. CASE ~OneMore(j)
    <3>1. Holder(w)
      BY <1>1, <1>4, <2>5 DEF OneMore, Holder
    <3>2. CASE retry
      <4>1. attempts[j] < MaxAttempts[j]
        BY <1>1, <1>4, <3>1, <3>2 DEF RetryAllowed
      <4>2. /\ Cardinality(Pending(j)) \in Nat
            /\ Cardinality(Pending(j)) <= manual
        BY FS_CardinalityType DEF PendingPaid
      <4>3. Credit(j) >= 1
        BY <4>1, <4>2 DEF Credit
      <4>4. QED BY <1>2, <2>3, <4>3 DEF Covered
    <3>3. CASE ~retry
      <4>1. OneMore(j)' => OneMore(j)
        BY <1>1, <1>4, <2>1, <3>3 DEF OneMore, AfterFailure
      <4>2. QED BY <1>2, <2>3, <4>1 DEF Covered
    <3>4. QED BY <3>2, <3>3
  <2>6. QED BY <2>4, <2>5
<1>5. QED BY <1>3, <1>4

LEMMA RequeueReadCovered ==
  ASSUME IInv, PendingPaid, NEW j \in Jobs, Covered(j),
         NEW o \in Operators, RequeueRead(o)
  PROVE  Covered(j)'
<1>1. /\ requeuing[o] = NoJob /\ manual' = manual + 1
      /\ UNCHANGED <<rowVars, workerVars, sweepVars, faults, uninstalls>>
  BY DEF RequeueRead
<1>2. /\ IsFiniteSet(Pending(j)) /\ Cardinality(Pending(j)) \in Nat
      /\ faults \in Nat /\ uninstalls \in Nat /\ manual \in Nat
      /\ attempts[j] \in Nat /\ MaxAttempts[j] \in Nat
  BY FS_CardinalityType, QueueAssumption DEF PendingPaid, IInv, TypeOK
<1>3. /\ Cardinality(Pending(j)') \in Nat
      /\ Cardinality(Pending(j)') <= Cardinality(Pending(j)) + 1
  <2>1. CASE requeuing'[o] = j
    <3>1. Pending(j)' = Pending(j) \cup {o} /\ o \notin Pending(j)
      BY <2>1, QueueAssumption DEF RequeueRead, Pending, IInv, TypeOK
    <3>2. Cardinality(Pending(j)') = Cardinality(Pending(j)) + 1
      BY <1>2, <3>1, FS_AddElement
    <3>3. QED BY <1>2, <3>2
  <2>2. CASE requeuing'[o] # j
    <3>1. Pending(j)' = Pending(j)
      BY <2>2, QueueAssumption DEF RequeueRead, Pending, IInv, TypeOK
    <3>2. QED BY <1>2, <3>1
  <2>3. QED BY <2>1, <2>2
<1>4. Credit(j)' >= Credit(j) /\ Credit(j) \in Int /\ Credit(j)' \in Int
  BY <1>1, <1>2, <1>3 DEF Credit, rowVars
<1>5. /\ OneMore(j)' = OneMore(j)
      /\ TwoMore(j)' = TwoMore(j)
      /\ ThreeMore(j)' = ThreeMore(j)
  BY <1>1 DEF OneMore, TwoMore, ThreeMore, Loose, Live, Late, Releasing, Ready,
     Owns, Sound, rowVars, workerVars, sweepVars
<1>6. QED BY <1>4, <1>5, StillCovered

LEMMA RequeueWriteCovered ==
  ASSUME IInv, PendingPaid, NEW j \in Jobs, Covered(j),
         NEW o \in Operators, RequeueWrite(o)
  PROVE  Covered(j)'
<1>1. /\ requeuing[o] \in Jobs
      /\ requeuing' = [requeuing EXCEPT ![o] = NoJob]
      /\ UNCHANGED <<attempts, created, workerVars, sweepVars, budgets>>
  BY DEF RequeueWrite, IInv, TypeOK
<1>2. /\ IsFiniteSet(Pending(j)) /\ Cardinality(Pending(j)) \in Nat
      /\ faults \in Nat /\ uninstalls \in Nat /\ manual \in Nat
      /\ attempts[j] \in Nat /\ MaxAttempts[j] \in Nat
  BY FS_CardinalityType, QueueAssumption DEF PendingPaid, IInv, TypeOK
<1>3. Credit(j) \in Int
  BY CreditType DEF IInv
<1>4. CASE requeuing[o] = j
  <2>1. Pending(j)' = Pending(j) \ {o} /\ o \in Pending(j)
    BY <1>1, <1>4, QueueAssumption DEF Pending, IInv, TypeOK
  <2>2. Cardinality(Pending(j)') = Cardinality(Pending(j)) - 1
    BY <1>2, <2>1, FS_RemoveElement
  <2>3. Credit(j)' = Credit(j) + 2
    BY <1>1, <1>2, <2>2 DEF Credit, budgets
  <2>4. Releasing(j)' => Releasing(j)
    BY <1>1 DEF Releasing, sweepVars
  <2>5. QED BY <1>3, <2>3, <2>4, PaidCovered
<1>5. CASE requeuing[o] # j
  <2>1. Pending(j)' = Pending(j)
    BY <1>1, <1>5, QueueAssumption DEF Pending, IInv, TypeOK
  <2>2. Credit(j)' = Credit(j)
    BY <1>1, <2>1 DEF Credit, budgets
  <2>3. UNCHANGED <<status[j], delay[j], lockedBy[j]>>
    BY <1>1, <1>5 DEF RequeueWrite, ClearLock, IInv, TypeOK
  <2>4. /\ OneMore(j)' => OneMore(j)
        /\ TwoMore(j)' => TwoMore(j)
        /\ ThreeMore(j)' => ThreeMore(j)
    BY <1>1, <2>3 DEF OneMore, TwoMore, ThreeMore, Loose, Live, Late,
       Releasing, Ready, Owns, Sound, workerVars, sweepVars
  <2>5. QED BY <1>3, <2>2, <2>4, StillCovered
<1>6. QED BY <1>4, <1>5
LEMMA AccountedStep ==
  ASSUME OneRelease, IInv, Rested, Current, Beating, LateFresh, RetryAllowed,
         FailWaits, PendingPaid, PendingPaid', Accounted, [Next]_vars
  PROVE  Accounted'
<1> SUFFICES ASSUME NEW i \in Jobs PROVE Covered(i)'
  BY DEF Accounted
<1>1. Covered(i)
  BY DEF Accounted
<1>2. Credit(i) \in Int
  BY CreditType DEF IInv
<1>3. CASE \/ \E j \in Jobs : Enqueue(j)
           \/ \E w \in Workers :
                \/ BeginRead(w) \/ BeginWrite(w) \/ ExtendRead(w)
                \/ ExtendWrite(w) \/ BeatRead(w) \/ BeatWrite(w)
                \/ CompleteRead(w) \/ CompleteWrite(w) \/ HandlerThrows(w)
                \/ FailRead(w) \/ OwnershipConflict(w)
           \/ \E s \in Sweepers :
                SweepScan(s) \/ ReleaseRead(s) \/ ReleaseWrite(s)
           \/ Tick
  <2>1. UNCHANGED <<attempts, requeuing, budgets>>
    BY <1>3 DEF Enqueue, BeginRead, BeginWrite, ExtendRead, ExtendWrite,
       BeatRead, BeatWrite, CompleteRead, CompleteWrite, HandlerThrows,
       FailRead, OwnershipConflict, SweepScan, ReleaseRead, ReleaseWrite,
       Tick, OpenTx, CommitTx, rowVars
  <2>2. Credit(i)' = Credit(i)
    BY <2>1, CreditKept
  <2>3. /\ OneMore(i)' => OneMore(i)
        /\ TwoMore(i)' => TwoMore(i)
        /\ ThreeMore(i)' => ThreeMore(i)
    BY <1>3, QuietStep
  <2>4. QED BY <1>1, <1>2, <2>2, <2>3, StillCovered
<1>4. CASE \/ \E w \in Workers :
                Crash(w) \/ BeatLost(w) \/ Abandon(w) \/ Stall(w)
           \/ \E s \in Sweepers : SweepAbort(s)
           \/ \E s \in Stores : CancelStoreJobs(s)
           \/ \E j \in Jobs : CancelJob(j)
  <2>1. Credit(i)' = Credit(i) + 2 /\ (Releasing(i)' => Releasing(i))
    BY <1>4, PaidStep DEF IInv
  <2>2. QED BY <1>1, <1>2, <2>1, PaidCovered
<1>5. CASE \E w \in Workers : Claim(w)
  BY <1>1, <1>5, ClaimCovered
<1>6. CASE \E w \in Workers : FailWrite(w)
  BY <1>1, <1>6, FailCovered
<1>7. CASE \E o \in Operators : RequeueRead(o)
  BY <1>1, <1>7, RequeueReadCovered
<1>8. CASE \E o \in Operators : RequeueWrite(o)
  BY <1>1, <1>8, RequeueWriteCovered
<1>9. CASE UNCHANGED vars
  <2>1. Credit(i)' = Credit(i)
    BY <1>9, CreditKept DEF vars, rowVars
  <2>2. /\ OneMore(i)' = OneMore(i)
        /\ TwoMore(i)' = TwoMore(i)
        /\ ThreeMore(i)' = ThreeMore(i)
    BY <1>9 DEF OneMore, TwoMore, ThreeMore, Loose, Live, Late, Releasing,
       Ready, Owns, Sound, vars, rowVars, workerVars, sweepVars
  <2>3. QED BY <1>1, <1>2, <2>1, <2>2, StillCovered
<1>10. QED
  BY <1>3, <1>4, <1>5, <1>6, <1>7, <1>8, <1>9
     DEF Next, WorkerStep, WorkerFault, SweepStep

(* The second inductive invariant of the queue, and what follows from it.  *)

\* What holds without a premise.
PulseInv ==
  /\ IInv
  /\ Rested
  /\ Current
  /\ Beating
  /\ LateFresh
  /\ Claimed
  /\ RetryAllowed
  /\ PendingPaid

LEMMA InitPulse == Init => PulseInv
<1> SUFFICES ASSUME Init PROVE PulseInv
  OBVIOUS
<1>1. IInv
  BY InitIInv
<1>2. Rested /\ Current /\ Beating /\ LateFresh /\ Claimed /\ RetryAllowed
  BY QueueAssumption DEF Init, Rested, Sound, Current, Holder, Beating,
     LateFresh, Late, Claimed, RetryAllowed
<1>3. PendingPaid
  <2>1. \A j \in Jobs : Pending(j) = {}
    BY QueueAssumption DEF Init, Pending
  <2>2. manual = 0
    BY DEF Init
  <2>3. QED BY <2>1, <2>2, FS_EmptySet DEF PendingPaid
<1>4. QED BY <1>1, <1>2, <1>3 DEF PulseInv

LEMMA StepPulse == PulseInv /\ [Next]_vars => PulseInv'
<1> SUFFICES ASSUME PulseInv, [Next]_vars PROVE PulseInv'
  OBVIOUS
<1> USE DEF PulseInv
<1>1. IInv'
  BY StepIInv
<1>2. Rested' /\ Current'
  BY CurrentStep
<1>3. Beating' /\ LateFresh'
  BY BeatingStep, LateFreshStep
<1>4. Claimed' /\ RetryAllowed'
  BY RetryAllowedStep
<1>5. PendingPaid'
  BY PendingStep DEF IInv
<1>6. QED BY <1>1, <1>2, <1>3, <1>4, <1>5

\* Locks, heartbeats, late transactions and decided retries are, in every
\* interleaving, as the theorems below need them.
THEOREM QueuePulse == Spec => []PulseInv
  BY InitPulse, StepPulse, PTL DEF Spec

\* The lock of a job whose worker has neither stalled nor recorded the loss of
\* a heartbeat never expires under it: no sweep's scan can list the job.
THEOREM SoundWorkersKeepLocks ==
  Spec => [](\A w \in Workers : Holder(w) /\ Sound(w) => ~Expired(held[w]))
<1>1. PulseInv
        => \A w \in Workers : Holder(w) /\ Sound(w) => ~Expired(held[w])
  BY DEF PulseInv, Beating, IInv, TypeOK, Holder, Expired
<1>2. QED BY <1>1, QueuePulse, PTL

\* Sweeps never take a job from a worker that keeps its heartbeat, as long as
\* no two of them release the same job at once and a retry waits longer than a
\* transaction lasts.
THEOREM HealthySpared ==
  ASSUME RetryWaits
  PROVE  Spec /\ []OneRelease => SweepsSpareHealthy
<1>1. Init => FailWaits /\ Spared
  BY QueueAssumption DEF Init, FailWaits, Spared
<1>2. PulseInv /\ OneRelease /\ FailWaits /\ Spared /\ [Next]_vars
        => FailWaits' /\ Spared'
  BY FailWaitsStep, SparedStep DEF PulseInv
<1>3. Spared => \A s \in Sweepers, w \in Workers :
        LET j == releasing[s] IN
        manual = 0 /\ j \in Jobs /\ releasing'[s] = NoJob /\ gen'[j] # gen[j]
          => \/ ~(Executing(w, j) /\ Owns(w))
             \/ stalled[w] \/ beatFailed[w]
  BY DEF Spared, Executing, Sound
<1>4. PulseInv /\ Spared => \A s \in Sweepers, w \in Workers :
        LET j == releasing[s] IN
        manual = 0 /\ j # NoJob /\ releasing'[s] = NoJob /\ gen'[j] # gen[j]
          => \/ ~(Executing(w, j) /\ Owns(w))
             \/ stalled[w] \/ beatFailed[w]
  BY <1>3 DEF PulseInv, IInv, TypeOK
<1>5. QED
  BY <1>1, <1>2, <1>4, QueuePulse, PTL DEF Spec, SweepsSpareHealthy

\* No attempt beyond the limit comes for free, however many workers, jobs and
\* operators there are, under the same premises.
THEOREM AttemptsPaidFor ==
  ASSUME RetryWaits
  PROVE  Spec /\ []OneRelease => []AttemptsAccounted
<1>1. Init => FailWaits /\ Accounted
  <2> SUFFICES ASSUME Init PROVE FailWaits /\ Accounted
    OBVIOUS
  <2>1. FailWaits
    BY DEF Init, FailWaits
  <2>2. ASSUME NEW j \in Jobs PROVE Covered(j)
    <3>1. Pending(j) = {}
      BY QueueAssumption DEF Init, Pending
    <3>2. Cardinality(Pending(j)) = 0
      BY <3>1, FS_EmptySet
    <3>3. Credit(j) = MaxAttempts[j] /\ MaxAttempts[j] \in Nat \ {0}
      BY <3>2, QueueAssumption DEF Init, Credit
    <3>4. ~TwoMore(j) /\ ~ThreeMore(j)
      BY QueueAssumption DEF Init, TwoMore, ThreeMore, Loose, Late, Releasing
    <3>5. QED BY <3>3, <3>4 DEF Covered
  <2>3. QED BY <2>1, <2>2 DEF Accounted
<1>2. PulseInv /\ OneRelease /\ FailWaits /\ Accounted /\ PulseInv'
        /\ [Next]_vars
        => FailWaits' /\ Accounted'
  <2> SUFFICES ASSUME PulseInv, OneRelease, FailWaits, Accounted, PulseInv',
                      [Next]_vars
               PROVE  FailWaits' /\ Accounted'
    OBVIOUS
  <2>1. FailWaits'
    BY FailWaitsStep DEF PulseInv
  <2>2. PendingPaid'
    BY DEF PulseInv
  <2>3. Accounted'
    <3>1. IInv /\ Rested /\ Current /\ Beating /\ LateFresh
      BY DEF PulseInv
    <3>2. RetryAllowed /\ PendingPaid
      BY DEF PulseInv
    <3>3. QED BY <3>1, <3>2, <2>2, AccountedStep
  <2>4. QED BY <2>1, <2>3
<1>3. PulseInv /\ Accounted => AttemptsAccounted
  <2> SUFFICES ASSUME PulseInv, Accounted, NEW j \in Jobs
               PROVE  attempts[j] <= MaxAttempts[j]
                                       + 2 * (faults + uninstalls + manual)
    BY DEF AttemptsAccounted
  <2>1. Cardinality(Pending(j)) \in Nat
    BY FS_CardinalityType DEF PulseInv, PendingPaid
  <2>2. Credit(j) >= 0
    BY DEF Accounted, Covered
  <2>3. QED BY <2>1, <2>2, QueueAssumption DEF Credit, PulseInv, IInv, TypeOK
<1>4. QED
  BY <1>1, <1>2, <1>3, QueuePulse, PTL DEF Spec

\* While no worker has faulted, a completed job never runs again, whatever
\* uninstalls and operators do, as long as no two sweeps release and no two
\* operators requeue the same job at once.
THEOREM CompletedStaysCompleted ==
  Spec /\ [](OneRelease /\ OneRequeue) => CompletedNeverReruns
<1>1. Init => Calm
  BY QueueAssumption DEF Init, Calm, CalmWorkers, CalmOwners, CalmTx,
     CalmSweeps, CalmRequeues, Holder, Late
<1>2. PulseInv /\ OneRelease /\ OneRequeue /\ Calm /\ [Next]_vars => Calm'
  BY CalmWorkersStep, CalmOwnersStep, CalmTxStep, CalmSweepsStep,
     CalmRequeuesStep DEF PulseInv, Calm
<1>3. PulseInv /\ Calm /\ [Next]_vars
        => (faults' = 0 =>
              \A j \in Jobs : status[j] = "completed"
                                => status'[j] \in {"completed", "cancelled"})
  BY CompletedStep DEF PulseInv
<1>4. QED
  BY <1>1, <1>2, <1>3, QueuePulse, PTL DEF Spec, CompletedNeverReruns
=============================================================================
