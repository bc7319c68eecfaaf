-------------------------- MODULE JobQueueProofs --------------------------
(***************************************************************************)
(* Theorems about JobQueue, for every number of jobs, workers,             *)
(* conversations and disturbances: the types, the attempts and the         *)
(* outcomes; then the runs: one loop at a time runs a job or a             *)
(* conversation, a loop ends only the run it claimed, and a job seen from  *)
(* outside lives the life JobLifecycle allows.  A theorem names the        *)
(* disturbances it excludes; every other may happen any number of times.   *)
(***************************************************************************)
EXTENDS JobQueue, FiniteSetTheorems, TLAPS

(***************************************************************************)
(* Type correctness.                                                       *)
(***************************************************************************)

LEMMA InitType == Init => TypeOK
  BY JobQueueAssumption DEF Init, TypeOK, DbTypeOK, RedisTypeOK, WorkerTypeOK,
     DispatcherTypeOK, OutsideTypeOK, JobStatus, WorkerPC, DispatcherPC, Disturbances

\* Each part of TypeOK speaks of the variables of one tuple alone.
LEMMA UnchangedType ==
    /\ DbTypeOK /\ UNCHANGED dbVars => DbTypeOK'
    /\ RedisTypeOK /\ UNCHANGED redisVars => RedisTypeOK'
    /\ WorkerTypeOK /\ UNCHANGED workerVars => WorkerTypeOK'
    /\ DispatcherTypeOK /\ UNCHANGED dispatcherVars => DispatcherTypeOK'
    /\ OutsideTypeOK /\ UNCHANGED <<outsideVars, spent>> => OutsideTypeOK'
  BY DEF DbTypeOK, RedisTypeOK, WorkerTypeOK, DispatcherTypeOK, OutsideTypeOK,
     dbVars, rowVars, redisVars, workerVars, dispatcherVars, outsideVars

\* A worker that has something in hand works on a job.
LEMMA JobInHand ==
    ASSUME WorkerTypeOK, NEW w \in Workers, pc[w] # "idle"
    PROVE  JobOf(w) \in Jobs
  BY DEF WorkerTypeOK, Message, JobOf

LEMMA GotoType ==
    ASSUME WorkerTypeOK, NEW w \in Workers, NEW step \in WorkerPC, pc[w] # "idle",
           Goto(w, step), UNCHANGED msg, slotted' \in [Workers -> BOOLEAN],
           caught' \in [Workers -> BOOLEAN], UNCHANGED healthy
    PROVE  WorkerTypeOK'
  BY DEF WorkerTypeOK, Goto

LEMMA RestType ==
    ASSUME WorkerTypeOK, NEW w \in Workers, Rest(w)
    PROVE  WorkerTypeOK'
  BY DEF WorkerTypeOK, Rest, Goto, WorkerPC

LEMMA SetStatusType ==
    ASSUME DbTypeOK, NEW j \in Jobs, NEW from, NEW s \in JobStatus,
           SetStatus(j, from, s), UNCHANGED <<attempts, hold, outbox>>
    PROVE  DbTypeOK'
  BY DEF DbTypeOK, SetStatus, rowVars

LEMMA CloseHoldType ==
    ASSUME DbTypeOK, NEW j \in Jobs, NEW as \in {"SETTLED", "RELEASED"},
           CloseHold(j, as), UNCHANGED <<rowVars, attempts, outbox>>
    PROVE  DbTypeOK'
  BY DEF DbTypeOK, CloseHold, rowVars

LEMMA AddType ==
    ASSUME RedisTypeOK, NEW j \in Jobs, Add(j),
           UNCHANGED <<unacked, lock, slots>>,
           delayed' \in [Jobs -> {"no", "waiting", "due"}]
    PROVE  RedisTypeOK'
  BY DEF RedisTypeOK, Add, FreeMessages

LEMMA SpendType ==
    ASSUME OutsideTypeOK, NEW d \in Disturbances, Spend(d)
    PROVE  spent' \in [Disturbances -> Nat]
  BY DEF OutsideTypeOK, Spend

\* The statements of a worker on the row of its job.
LEMMA FailRunType ==
    ASSUME DbTypeOK, WorkerTypeOK, NEW w \in Workers, pc[w] # "idle", FailRun(w)
    PROVE  DbTypeOK' /\ WorkerTypeOK'
<1>1. JobOf(w) \in Jobs
  BY JobInHand
<1>2. DbTypeOK'
  <2> DEFINE s == AfterAttempt(attempts[JobOf(w)])
  <2>1. s \in JobStatus
    BY DEF AfterAttempt, JobStatus, Live, Claimable, Finished
  <2>2. SetStatus(JobOf(w), {"RUNNING"}, s) /\ UNCHANGED <<hold, outbox>>
    BY DEF FailRun, FailRow
  <2>3. attempts' \in [Jobs -> Nat]
    BY <1>1 DEF DbTypeOK, FailRun, FailRow
  <2> HIDE DEF s
  <2> QED
    BY <1>1, <2>1, <2>2, <2>3 DEF DbTypeOK, SetStatus, rowVars
<1>3. WorkerTypeOK'
  BY DEF WorkerTypeOK, FailRun, AfterFail, Goto, WorkerPC
<1> QED
  BY <1>2, <1>3

LEMMA LeaveSlotAndLockType ==
    ASSUME RedisTypeOK, WorkerTypeOK, NEW w \in Workers, LeaveSlotAndLock(w),
           UNCHANGED <<stream, unacked, delayed>>
    PROVE  RedisTypeOK' /\ WorkerTypeOK'
<1>1. WorkerTypeOK'
  BY RestType DEF LeaveSlotAndLock
<1>2. RedisTypeOK'
  BY DEF RedisTypeOK, LeaveSlotAndLock, DropLock
<1> QED
  BY <1>1, <1>2

LEMMA WorkerStepType ==
    ASSUME TypeOK, NEW w \in Workers, WorkerStep(w)
    PROVE  TypeOK'
<1> USE DEF TypeOK
<1>0. pc[w] # "idle" => JobOf(w) \in Jobs
  BY JobInHand
<1>1. CASE ClaimJob(w)
  <2>1. DbTypeOK'
    BY <1>0, <1>1 DEF ClaimJob, Claim, DbTypeOK, JobStatus, Live, rowVars
  <2>2. WorkerTypeOK'
    BY <1>1, GotoType DEF ClaimJob, WorkerPC, WorkerTypeOK
  <2> QED
    BY <1>1, <2>1, <2>2, UnchangedType DEF ClaimJob
<1>2. CASE AcquireLock(w)
  <2>1. RedisTypeOK'
    BY <1>2 DEF AcquireLock, RedisTypeOK
  <2>2. WorkerTypeOK'
    BY <1>2 DEF AcquireLock, WorkerTypeOK, Goto, WorkerPC
  <2> QED
    BY <1>2, <2>1, <2>2, UnchangedType DEF AcquireLock
<1>3. CASE TakeSlot(w)
  <2>1. RedisTypeOK'
    BY <1>0, <1>3 DEF TakeSlot, RedisTypeOK
  <2>2. WorkerTypeOK'
    BY <1>3 DEF TakeSlot, WorkerTypeOK, Goto, WorkerPC
  <2> QED
    BY <1>3, <2>1, <2>2, UnchangedType DEF TakeSlot
<1>4. CASE RefuseSlot(w)
  <2>1. RedisTypeOK'
    BY <1>4 DEF RefuseSlot, RedisTypeOK
  <2>2. WorkerTypeOK'
    BY <1>4, GotoType DEF RefuseSlot, WorkerPC, WorkerTypeOK
  <2> QED
    BY <1>4, <2>1, <2>2, UnchangedType DEF RefuseSlot
<1>5. CASE DelayJob(w)
  <2>1. DbTypeOK'
    BY <1>0, <1>5, SetStatusType DEF DelayJob, ReleaseClaim, JobStatus, Live, Claimable
  <2>2. WorkerTypeOK'
    BY <1>5, GotoType DEF DelayJob, WorkerPC, WorkerTypeOK
  <2> QED
    BY <1>5, <2>1, <2>2, UnchangedType DEF DelayJob
<1>6. CASE ZAdd(w)
  <2>1. RedisTypeOK'
    BY <1>0, <1>6 DEF ZAdd, RedisTypeOK
  <2>2. WorkerTypeOK'
    BY <1>6, GotoType DEF ZAdd, WorkerPC, WorkerTypeOK
  <2> QED
    BY <1>6, <2>1, <2>2, UnchangedType DEF ZAdd
<1>7. CASE FinishJob(w)
  <2>1. DbTypeOK'
    BY <1>0, <1>7, SetStatusType DEF FinishJob, FinishRow, JobStatus, Finished
  <2>2. WorkerTypeOK'
    BY <1>7, GotoType DEF FinishJob, WorkerPC, WorkerTypeOK
  <2> QED
    BY <1>7, <2>1, <2>2, UnchangedType DEF FinishJob
<1>8. CASE Settle(w)
  <2>1. DbTypeOK'
    BY <1>0, <1>8, CloseHoldType DEF Settle
  <2>2. WorkerTypeOK'
    BY <1>8, GotoType DEF Settle, WorkerPC, WorkerTypeOK
  <2> QED
    BY <1>8, <2>1, <2>2, UnchangedType DEF Settle
<1>9. CASE CancelRun(w)
  <2>1. DbTypeOK'
    BY <1>0, <1>9, SetStatusType DEF CancelRun, CancelRow, JobStatus, Finished
  <2>2. WorkerTypeOK'
    BY <1>9, GotoType DEF CancelRun, WorkerPC, WorkerTypeOK
  <2> QED
    BY <1>9, <2>1, <2>2, UnchangedType DEF CancelRun
<1>10. CASE FailFinal(w)
  <2>1. DbTypeOK'
    BY <1>0, <1>10, SetStatusType DEF FailFinal, FailFinalRow, JobStatus, Finished
  <2>2. WorkerTypeOK'
    BY <1>10, GotoType DEF FailFinal, WorkerPC, WorkerTypeOK
  <2> QED
    BY <1>10, <2>1, <2>2, UnchangedType DEF FailFinal
<1>11. CASE FailJob(w)
  BY <1>11, FailRunType, UnchangedType DEF FailJob, FailRun, redisVars
<1>12. CASE Release(w)
  <2>1. DbTypeOK'
    BY <1>0, <1>12, CloseHoldType DEF Release
  <2>2. WorkerTypeOK'
    BY <1>12, GotoType DEF Release, WorkerPC, WorkerTypeOK
  <2> QED
    BY <1>12, <2>1, <2>2, UnchangedType DEF Release
<1>13. CASE Ack(w)
  <2>1. RedisTypeOK'
    BY <1>13 DEF Ack, RedisTypeOK
  <2>2. WorkerTypeOK'
    BY <1>13, GotoType DEF Ack, WorkerPC, WorkerTypeOK
  <2> QED
    BY <1>13, <2>1, <2>2, UnchangedType DEF Ack
<1>14. CASE Leave(w)
  BY <1>14, LeaveSlotAndLockType, UnchangedType DEF Leave
<1>15. CASE Recover(w)
  <2>1. DbTypeOK'
    BY <1>0, <1>15 DEF Recover, DbTypeOK
  <2>2. WorkerTypeOK'
    BY <1>15 DEF Recover, WorkerTypeOK
  <2> QED
    BY <1>15, <2>1, <2>2, UnchangedType DEF Recover
<1> QED
  BY <1>1, <1>2, <1>3, <1>4, <1>5, <1>6, <1>7, <1>8, <1>9, <1>10, <1>11, <1>12,
     <1>13, <1>14, <1>15 DEF WorkerStep

LEMMA ReadType ==
    ASSUME TypeOK, NEW w \in Workers, Read(w) \/ Reclaim(w)
    PROVE  TypeOK'
<1> USE DEF TypeOK
<1>1. RedisTypeOK'
  BY DEF Read, Reclaim, RedisTypeOK, redisVars
<1>2. WorkerTypeOK'
  <2>1. PICK m \in Message : msg' = [msg EXCEPT ![w] = m]
    BY DEF Read, Reclaim, RedisTypeOK
  <2> QED
    BY <2>1 DEF Read, Reclaim, WorkerTypeOK, Goto, WorkerPC
<1> QED
  BY <1>1, <1>2, UnchangedType DEF Read, Reclaim

LEMMA WorkerFaultType ==
    ASSUME TypeOK, NEW w \in Workers, WorkerFault(w)
    PROVE  TypeOK'
<1> USE DEF TypeOK
<1>0. pc[w] # "idle" => JobOf(w) \in Jobs
  BY JobInHand
<1>1. OutsideTypeOK'
  BY SpendType DEF WorkerFault, StepFails, StepAborts, LockAnswerLost, Shutdown, Crash,
     Stall, FailRun, OutsideTypeOK, Disturbances, outsideVars
<1>2. CASE StepFails(w)
  <2>1. RedisTypeOK'
    BY <1>0, <1>2 DEF StepFails, FailRun, RedisTypeOK
  <2> QED
    BY <1>1, <1>2, <2>1, FailRunType, UnchangedType DEF StepFails, FailRun
<1>3. CASE StepAborts(w)
  BY <1>1, <1>3, LeaveSlotAndLockType, UnchangedType DEF StepAborts
<1>4. CASE Shutdown(w)
  <2>1. DbTypeOK'
    <3>1. CASE caught[w]
      BY <1>0, <1>4, <3>1, SetStatusType
      DEF Shutdown, ReleaseClaim, JobStatus, Live, Claimable
    <3>2. CASE ~caught[w]
      BY <1>4, <3>2, UnchangedType DEF Shutdown, dbVars
    <3> QED
      BY <3>1, <3>2
  <2> QED
    BY <1>1, <1>4, <2>1, LeaveSlotAndLockType, UnchangedType DEF Shutdown
<1>5. CASE Crash(w)
  <2>1. RedisTypeOK'
    BY <1>5 DEF Crash, RedisTypeOK, LeakLock
  <2> QED
    BY <1>1, <1>5, <2>1, RestType, UnchangedType DEF Crash
<1>6. CASE Stall(w)
  <2>1. WorkerTypeOK'
    BY <1>6 DEF Stall, WorkerTypeOK
  <2> QED
    BY <1>1, <1>6, <2>1, UnchangedType DEF Stall
<1>7. CASE LockAnswerLost(w)
  <2>1. RedisTypeOK'
    BY <1>7 DEF LockAnswerLost, RedisTypeOK
  <2> QED
    BY <1>1, <1>7, <2>1, RestType, UnchangedType DEF LockAnswerLost
<1> QED
  BY <1>2, <1>3, <1>4, <1>5, <1>6, <1>7 DEF WorkerFault

LEMMA DispatcherType ==
    ASSUME TypeOK, BeginPass \/ DispatcherStep \/ Reconcile \/ DispatcherFails
    PROVE  TypeOK'
<1> USE DEF TypeOK
<1>1. CASE BeginPass
  <2>1. DispatcherTypeOK'
    BY <1>1 DEF BeginPass, DispatcherTypeOK, DispatcherPC, StaleRunning
  <2> QED
    BY <1>1, <2>1, UnchangedType DEF BeginPass
<1>2. CASE MarkRetry
  <2>1. \A j \in Jobs : AfterAttempt(attempts[j]) \in JobStatus
    BY DEF AfterAttempt, JobStatus, Live, Claimable, Finished
  <2>2. DbTypeOK'
    BY <1>2, <2>1 DEF MarkRetry, DbTypeOK
  <2>3. DispatcherTypeOK'
    BY <1>2 DEF MarkRetry, DispatcherTypeOK, DispatcherPC
  <2> QED
    BY <1>2, <2>2, <2>3, UnchangedType DEF MarkRetry
<1>3. CASE ReadDue
  <2>1. DispatcherTypeOK'
    BY <1>3 DEF ReadDue, DispatcherTypeOK, DispatcherPC
  <2> QED
    BY <1>3, <2>1, UnchangedType DEF ReadDue
<1>4. CASE PromoteJob
  <2>1. RedisTypeOK'
    BY <1>4, AddType DEF PromoteJob, DispatcherTypeOK, RedisTypeOK
  <2>2. DispatcherTypeOK'
    BY <1>4 DEF PromoteJob, DispatcherTypeOK
  <2> QED
    BY <1>4, <2>1, <2>2, UnchangedType DEF PromoteJob
<1>5. CASE ReadOutbox
  <2>1. DispatcherTypeOK'
    BY <1>5 DEF ReadOutbox, DispatcherTypeOK, DispatcherPC, DbTypeOK
  <2> QED
    BY <1>5, <2>1, UnchangedType DEF ReadOutbox
<1>6. CASE MarkDispatched
  <2>1. DbTypeOK'
    BY <1>6 DEF MarkDispatched, DbTypeOK, rowVars
  <2>2. DispatcherTypeOK'
    BY <1>6 DEF MarkDispatched, DispatcherTypeOK, DispatcherPC
  <2> QED
    BY <1>6, <2>1, <2>2, UnchangedType DEF MarkDispatched
<1>7. CASE ReadDelayed
  <2>1. DispatcherTypeOK'
    BY <1>7 DEF ReadDelayed, DispatcherTypeOK, DispatcherPC
  <2> QED
    BY <1>7, <2>1, UnchangedType DEF ReadDelayed
<1>8. CASE ReadPending
  <2>1. DispatcherTypeOK'
    BY <1>8 DEF ReadPending, DispatcherTypeOK, DispatcherPC, StalePending
  <2> QED
    BY <1>8, <2>1, UnchangedType DEF ReadPending
<1>9. ASSUME NEW j \in Jobs, ReaddJob(j) \/ RehydrateJob(j)
      PROVE  TypeOK'
  <2>1. RedisTypeOK'
    BY <1>9, AddType DEF ReaddJob, RehydrateJob, RedisTypeOK
  <2>2. DispatcherTypeOK'
    BY <1>9 DEF ReaddJob, RehydrateJob, DispatcherTypeOK, DispatcherPC
  <2> QED
    BY <1>9, <2>1, <2>2, UnchangedType DEF ReaddJob, RehydrateJob
<1>10. ASSUME NEW j \in Jobs, TakeDelayed(j)
       PROVE  TypeOK'
  <2>1. RedisTypeOK'
    BY <1>10 DEF TakeDelayed, RedisTypeOK
  <2>2. DispatcherTypeOK'
    BY <1>10 DEF TakeDelayed, DispatcherTypeOK
  <2> QED
    BY <1>10, <2>1, <2>2, UnchangedType DEF TakeDelayed
<1>11. ASSUME NEW r \in OutboxRow, DispatchRow(r)
       PROVE  TypeOK'
  <2>1. r[1] \in Jobs
    BY DEF OutboxRow
  <2>2. RedisTypeOK'
    BY <1>11, <2>1, AddType DEF DispatchRow, RedisTypeOK
  <2>3. DispatcherTypeOK'
    BY <1>11 DEF DispatchRow, DispatcherTypeOK
  <2> QED
    BY <1>11, <2>2, <2>3, UnchangedType DEF DispatchRow
<1>12. CASE Reconcile
  <2>1. DbTypeOK'
    BY <1>12 DEF Reconcile, ReconciledAs, DbTypeOK, rowVars
  <2> QED
    BY <1>12, <2>1, UnchangedType DEF Reconcile
<1>13. CASE DispatcherFails
  <2>1. DispatcherTypeOK'
    BY <1>13 DEF DispatcherFails, DispatcherTypeOK, DispatcherPC
  <2>2. OutsideTypeOK'
    BY <1>13, SpendType DEF DispatcherFails, OutsideTypeOK, Disturbances, outsideVars
  <2> QED
    BY <1>13, <2>1, <2>2, UnchangedType DEF DispatcherFails
<1> QED
  BY <1>1, <1>2, <1>3, <1>4, <1>5, <1>6, <1>7, <1>8, <1>9, <1>10, <1>11, <1>12,
     <1>13 DEF DispatcherStep

LEMMA OutsideType ==
    ASSUME TypeOK, Outside
    PROVE  TypeOK'
<1> USE DEF TypeOK
<1>1. ASSUME NEW j \in Jobs, Enqueue(j)
      PROVE  TypeOK'
  <2>1. <<j, 0>> \in OutboxRow
    BY JobQueueAssumption DEF OutboxRow, Disturbances
  <2>2. DbTypeOK'
    BY <1>1, <2>1 DEF Enqueue, DbTypeOK, JobStatus, Live, Claimable
  <2> QED
    BY <1>1, <2>2, UnchangedType DEF Enqueue
<1>2. ASSUME NEW j \in Jobs, AdminRetry(j)
      PROVE  TypeOK'
  <2>1. OutsideTypeOK'
    BY <1>2, SpendType DEF AdminRetry, OutsideTypeOK, Disturbances, outsideVars
  <2>2. <<j, spent'["reopen"]>> \in OutboxRow
    BY <1>2, JobQueueAssumption
    DEF AdminRetry, Spend, OutsideTypeOK, OutboxRow, Disturbances
  <2>3. DbTypeOK'
    BY <1>2, <2>2 DEF AdminRetry, ReserveAgain, DbTypeOK, JobStatus, Live, Claimable
  <2> QED
    BY <1>2, <2>1, <2>3, UnchangedType DEF AdminRetry
<1>3. ASSUME NEW j \in Jobs, AdminCancel(j)
      PROVE  TypeOK'
  <2>1. DbTypeOK'
    BY <1>3, SetStatusType DEF AdminCancel, CancelRow, JobStatus, Finished
  <2>2. OutsideTypeOK'
    BY <1>3, SpendType DEF AdminCancel, OutsideTypeOK, Disturbances
  <2> QED
    BY <1>3, <2>1, <2>2, UnchangedType DEF AdminCancel
<1>4. ASSUME NEW j \in Jobs, AdminRelease(j)
      PROVE  TypeOK'
  <2>1. DbTypeOK'
    BY <1>4, CloseHoldType DEF AdminRelease
  <2>2. OutsideTypeOK'
    BY <1>4 DEF AdminRelease, OutsideTypeOK
  <2> QED
    BY <1>4, <2>1, <2>2, UnchangedType DEF AdminRelease
<1>5. ASSUME NEW j \in Jobs, UserCancelRead(j)
      PROVE  TypeOK'
  <2>1. OutsideTypeOK'
    BY <1>5, SpendType DEF UserCancelRead, OutsideTypeOK, DbTypeOK, Disturbances
  <2> QED
    BY <1>5, <2>1, UnchangedType DEF UserCancelRead
<1>6. ASSUME NEW j \in Jobs, UserCancelWrite(j)
      PROVE  TypeOK'
  <2>1. viewWrite[j] \in Nat
    BY <1>6 DEF UserCancelWrite, OutsideTypeOK
  <2>2. DbTypeOK'
    BY <1>6, <2>1 DEF UserCancelWrite, DbTypeOK, JobStatus, Finished
  <2>3. OutsideTypeOK'
    BY <1>6 DEF UserCancelWrite, OutsideTypeOK
  <2> QED
    BY <1>6, <2>2, <2>3, UnchangedType DEF UserCancelWrite
<1>7. CASE RedisFlush
  <2>1. RedisTypeOK'
    BY <1>7 DEF RedisFlush, RedisTypeOK
  <2>2. OutsideTypeOK'
    BY <1>7, SpendType DEF RedisFlush, OutsideTypeOK, Disturbances, outsideVars
  <2> QED
    BY <1>7, <2>1, <2>2, UnchangedType DEF RedisFlush
<1> QED
  BY <1>1, <1>2, <1>3, <1>4, <1>5, <1>6, <1>7 DEF Outside

LEMMA TimeType ==
    ASSUME TypeOK, Time
    PROVE  TypeOK'
<1> USE DEF TypeOK
<1>1. ASSUME NEW j \in Jobs, Age(j)
      PROVE  TypeOK'
  <2>1. DbTypeOK'
    BY <1>1 DEF Age, DbTypeOK
  <2> QED
    BY <1>1, <2>1, UnchangedType DEF Age
<1>2. ASSUME NEW j \in Jobs, BackoffEnds(j) \/ SlotAges(j)
      PROVE  TypeOK'
  <2>1. RedisTypeOK'
    BY <1>2 DEF BackoffEnds, SlotAges, RedisTypeOK
  <2> QED
    BY <1>2, <2>1, UnchangedType DEF BackoffEnds, SlotAges
<1>3. ASSUME NEW c \in Conversations, LockExpires(c)
      PROVE  TypeOK'
  <2>1. RedisTypeOK'
    BY <1>3 DEF LockExpires, RedisTypeOK
  <2> QED
    BY <1>3, <2>1, UnchangedType DEF LockExpires
<1> QED
  BY <1>1, <1>2, <1>3 DEF Time

LEMMA NextType == TypeOK /\ [Next]_vars => TypeOK'
<1> SUFFICES ASSUME TypeOK, [Next]_vars
             PROVE  TypeOK'
  OBVIOUS
<1>1. CASE UNCHANGED vars
  BY <1>1, UnchangedType DEF vars, TypeOK
<1>2. CASE Next
  BY <1>2, ReadType, WorkerStepType, WorkerFaultType, DispatcherType, OutsideType,
     TimeType DEF Next
<1> QED
  BY <1>1, <1>2

\* Every variable stays in its domain, whatever happens: ai_jobs and
\* credit_reservations never meet their CHECK constraints, and every entry,
\* slot and pending write is one of a known job.
THEOREM TypeCorrect == Spec => []TypeOK
<1>1. Init => TypeOK
  BY InitType
<1>2. TypeOK /\ [Next]_vars => TypeOK'
  BY NextType
<1> QED
  BY <1>1, <1>2, PTL DEF Spec

-----------------------------------------------------------------------------
(***************************************************************************)
(* How one step may move the row of one job, whoever takes the step.       *)
(***************************************************************************)

Stays(j)    == status'[j] = status[j] /\ attempts'[j] = attempts[j]
Enters(j)   == status[j] = "none" /\ status'[j] = "QUEUED" /\ attempts'[j] = attempts[j]
Starts(j)   == status[j] \in Claimable /\ status'[j] = "RUNNING" /\ attempts'[j] = attempts[j]
Stops(j)    == /\ status[j] = "RUNNING"
               /\ status'[j] \in {"QUEUED", "DONE", "FAILED"}
               /\ attempts'[j] = attempts[j]
Fails(j)    == /\ status[j] = "RUNNING"
               /\ status'[j] = AfterAttempt(attempts[j])
               /\ attempts'[j] = attempts[j] + 1
Cancels(j)  == status[j] \in Live /\ status'[j] = "CANCELLED" /\ attempts'[j] = attempts[j]
Reopens(j)  == /\ status[j] \in {"DEAD", "FAILED"}
               /\ status'[j] = "QUEUED"
               /\ attempts'[j] = 0
               /\ spent'["reopen"] = spent["reopen"] + 1
               /\ <<j, spent'["reopen"]>> \in outbox'
Overwrites(j) == viewWrite[j] # -1 /\ status'[j] = "CANCELLED"

\* What loops, passes and the operator's cancel do, and what the others may.
QueueMove(j) == Stays(j) \/ Starts(j) \/ Stops(j) \/ Fails(j) \/ Cancels(j)
RowMove(j)   == QueueMove(j) \/ Enters(j) \/ Reopens(j) \/ Overwrites(j)

\* SetStatus moves the row it names, if at all, and no other.
LEMMA SetStatusMoves ==
    ASSUME DbTypeOK, NEW j \in Jobs, NEW from, NEW s, SetStatus(j, from, s)
    PROVE  \A k \in Jobs : \/ status'[k] = status[k]
                           \/ k = j /\ status[j] \in from /\ status'[j] = s
<1>1. CASE status[j] \in from
  <2>1. status' = [status EXCEPT ![j] = s]
    BY <1>1 DEF SetStatus
  <2> QED
    BY <1>1, <2>1 DEF DbTypeOK
<1>2. CASE status[j] \notin from
  BY <1>2 DEF SetStatus, rowVars
<1> QED
  BY <1>1, <1>2

LEMMA FailRunMoves ==
    ASSUME DbTypeOK, NEW w \in Workers, JobOf(w) \in Jobs, FailRun(w)
    PROVE  \A k \in Jobs : QueueMove(k)
<1> DEFINE j == JobOf(w)
<1>1. SetStatus(j, {"RUNNING"}, AfterAttempt(attempts[j]))
  BY DEF FailRun, FailRow
<1>2. attempts' = IF status[j] = "RUNNING" THEN [attempts EXCEPT ![j] = @ + 1] ELSE attempts
  BY DEF FailRun, FailRow
<1> HIDE DEF j
<1>3. j \in Jobs
  BY DEF j
<1>4. TAKE k \in Jobs
<1>5. CASE k = j /\ status[j] = "RUNNING"
  <2>1. status'[k] = AfterAttempt(attempts[j]) /\ attempts'[k] = attempts[j] + 1
    BY <1>1, <1>2, <1>3, <1>5 DEF SetStatus, DbTypeOK
  <2> QED
    BY <1>5, <2>1 DEF QueueMove, Fails
<1>6. CASE ~(k = j /\ status[j] = "RUNNING")
  <2>1. status'[k] = status[k] /\ attempts'[k] = attempts[k]
    BY <1>1, <1>2, <1>3, <1>6 DEF SetStatus, DbTypeOK, rowVars
  <2> QED
    BY <2>1 DEF QueueMove, Stays
<1> QED
  BY <1>5, <1>6

LEMMA WorkerMoves ==
    ASSUME TypeOK, NEW w \in Workers,
           Read(w) \/ Reclaim(w) \/ WorkerStep(w) \/ WorkerFault(w)
    PROVE  \A k \in Jobs : QueueMove(k)
<1> USE DEF TypeOK
<1>0. pc[w] # "idle" => JobOf(w) \in Jobs
  BY JobInHand
<1>1. CASE FailJob(w) \/ StepFails(w)
  BY <1>0, <1>1, FailRunMoves DEF FailJob, StepFails
<1>2. CASE ClaimJob(w)
  BY <1>0, <1>2 DEF ClaimJob, Claim, Claims, DbTypeOK, rowVars, QueueMove, Stays, Starts
<1>3. CASE DelayJob(w)
  BY <1>0, <1>3, SetStatusMoves DEF DelayJob, ReleaseClaim, QueueMove, Stays, Stops
<1>4. CASE FinishJob(w)
  BY <1>0, <1>4, SetStatusMoves DEF FinishJob, FinishRow, QueueMove, Stays, Stops
<1>5. CASE FailFinal(w)
  BY <1>0, <1>5, SetStatusMoves DEF FailFinal, FailFinalRow, QueueMove, Stays, Stops
<1>6. CASE CancelRun(w)
  BY <1>0, <1>6, SetStatusMoves DEF CancelRun, CancelRow, QueueMove, Stays, Cancels
<1>7. CASE Shutdown(w)
  <2>1. CASE caught[w]
    BY <1>0, <1>7, <2>1, SetStatusMoves DEF Shutdown, ReleaseClaim, QueueMove, Stays, Stops
  <2>2. CASE ~caught[w]
    BY <1>7, <2>2 DEF Shutdown, rowVars, QueueMove, Stays
  <2> QED
    BY <2>1, <2>2
<1>8. CASE \/ Read(w) \/ Reclaim(w) \/ AcquireLock(w) \/ TakeSlot(w) \/ RefuseSlot(w)
           \/ ZAdd(w) \/ Settle(w) \/ Release(w) \/ Ack(w) \/ Leave(w) \/ Recover(w)
           \/ StepAborts(w) \/ LockAnswerLost(w) \/ Crash(w) \/ Stall(w)
  <2>1. UNCHANGED <<status, attempts>>
    BY <1>8 DEF Read, Reclaim, AcquireLock, TakeSlot, RefuseSlot, ZAdd, Settle,
       Release, Ack, Leave, Recover, StepAborts, LockAnswerLost, Crash, Stall, dbVars, rowVars
  <2> QED
    BY <2>1 DEF QueueMove, Stays
<1> QED
  BY <1>1, <1>2, <1>3, <1>4, <1>5, <1>6, <1>7, <1>8 DEF WorkerStep, WorkerFault

LEMMA DispatcherMoves ==
    ASSUME TypeOK, BeginPass \/ DispatcherStep \/ Reconcile \/ DispatcherFails
    PROVE  \A k \in Jobs : QueueMove(k)
<1>1. CASE MarkRetry
  BY <1>1 DEF MarkRetry, TypeOK, DbTypeOK, QueueMove, Stays, Fails
<1>2. CASE ~MarkRetry
  <2>1. UNCHANGED <<status, attempts>>
    BY <1>2 DEF BeginPass, DispatcherStep, Reconcile, DispatcherFails, ReadDue,
       PromoteJob, ReadOutbox, MarkDispatched, ReadDelayed, ReadPending, ReaddJob,
       TakeDelayed, RehydrateJob, DispatchRow, dbVars, rowVars
  <2> QED
    BY <2>1 DEF QueueMove, Stays
<1> QED
  BY <1>1, <1>2

LEMMA OutsideMoves ==
    ASSUME TypeOK, Outside \/ Time
    PROVE  \A k \in Jobs : RowMove(k)
<1> USE DEF TypeOK
<1>1. ASSUME NEW j \in Jobs, Enqueue(j)
      PROVE  \A k \in Jobs : RowMove(k)
  BY <1>1 DEF Enqueue, DbTypeOK, RowMove, QueueMove, Stays, Enters
<1>2. ASSUME NEW j \in Jobs, AdminRetry(j)
      PROVE  \A k \in Jobs : RowMove(k)
  <2>1. spent'["reopen"] = spent["reopen"] + 1
    BY <1>2 DEF AdminRetry, Spend, OutsideTypeOK, Disturbances
  <2> QED
    BY <1>2, <2>1 DEF AdminRetry, DbTypeOK, RowMove, QueueMove, Stays, Reopens
<1>3. ASSUME NEW j \in Jobs, AdminCancel(j)
      PROVE  \A k \in Jobs : RowMove(k)
  BY <1>3, SetStatusMoves DEF AdminCancel, CancelRow, RowMove, QueueMove, Stays, Cancels
<1>4. ASSUME NEW j \in Jobs, UserCancelWrite(j)
      PROVE  \A k \in Jobs : RowMove(k)
  BY <1>4 DEF UserCancelWrite, DbTypeOK, RowMove, QueueMove, Stays, Overwrites
<1>5. CASE \/ \E j \in Jobs : AdminRelease(j) \/ UserCancelRead(j)
           \/ RedisFlush \/ Time
  <2>1. UNCHANGED <<status, attempts>>
    BY <1>5 DEF AdminRelease, UserCancelRead, RedisFlush, Time, Age, BackoffEnds,
       SlotAges, LockExpires, dbVars, rowVars
  <2> QED
    BY <2>1 DEF RowMove, QueueMove, Stays
<1> QED
  BY <1>1, <1>2, <1>3, <1>4, <1>5 DEF Outside

\* Every step moves every row in one of the ways above.
LEMMA StepMovesRow ==
    ASSUME TypeOK, [Next]_vars, NEW k \in Jobs
    PROVE  RowMove(k)
<1>1. CASE UNCHANGED vars
  BY <1>1 DEF vars, dbVars, rowVars, RowMove, QueueMove, Stays
<1>2. CASE Next
  BY <1>2, WorkerMoves, DispatcherMoves, OutsideMoves DEF Next, RowMove
<1> QED
  BY <1>1, <1>2

-----------------------------------------------------------------------------
(***************************************************************************)
(* Attempts.  The invariant needs, besides, that a job starts with none.   *)
(***************************************************************************)

AttemptsInv ==
    /\ AttemptsWithinLimit
    /\ \A j \in Jobs : status[j] = "none" => attempts[j] = 0

LEMMA AttemptsStep ==
    ASSUME TypeOK, AttemptsInv, [Next]_vars
    PROVE  AttemptsInv'
<1>1. SUFFICES ASSUME NEW j \in Jobs
               PROVE  /\ status'[j] \in Live => attempts'[j] < MaxAttempts
                      /\ status'[j] = "DEAD" => attempts'[j] = MaxAttempts
                      /\ status'[j] = "none" => attempts'[j] = 0
  BY DEF AttemptsInv, AttemptsWithinLimit
<1>2. /\ status[j] \in Live => attempts[j] < MaxAttempts
      /\ status[j] = "DEAD" => attempts[j] = MaxAttempts
      /\ status[j] = "none" => attempts[j] = 0
  BY DEF AttemptsInv, AttemptsWithinLimit
<1>3. MaxAttempts \in Nat \ {0} /\ attempts[j] \in Nat
  BY JobQueueAssumption DEF TypeOK, DbTypeOK
<1>4. RowMove(j)
  BY StepMovesRow
<1> QED
  BY <1>2, <1>3, <1>4 DEF RowMove, QueueMove, Stays, Enters, Starts, Stops, Fails, Cancels,
     Reopens, Overwrites, AfterAttempt, Live, Claimable

\* A live job has an attempt left and a DEAD one has used exactly all of them,
\* for every number of workers, jobs and disturbances: a stale worker, a pass
\* and an operator never count one run twice past the limit.
THEOREM AttemptsBounded == Spec => []AttemptsWithinLimit
<1>1. Init => AttemptsInv
  BY JobQueueAssumption DEF Init, AttemptsInv, AttemptsWithinLimit, Live, Claimable
<1>2. TypeOK /\ AttemptsInv /\ [Next]_vars => AttemptsInv'
  BY AttemptsStep
<1>3. AttemptsInv => AttemptsWithinLimit
  BY DEF AttemptsInv
<1> QED
  BY <1>1, <1>2, <1>3, TypeCorrect, PTL DEF Spec

-----------------------------------------------------------------------------
(***************************************************************************)
(* Reopens.  An outbox row carries the number of the reopen that wrote it, *)
(* so the row of the next reopen is not there yet.                         *)
(***************************************************************************)

OutboxNumbered == \A r \in outbox : r[2] <= spent["reopen"]

LEMMA OutboxNumberedStep ==
    ASSUME TypeOK, OutboxNumbered, [Next]_vars
    PROVE  OutboxNumbered'
<1> USE DEF TypeOK
<1>0. spent["reopen"] \in Nat
  BY DEF OutsideTypeOK, Disturbances
<1>1. ASSUME NEW j \in Jobs, Enqueue(j)
      PROVE  OutboxNumbered'
  BY <1>0, <1>1 DEF Enqueue, OutboxNumbered
<1>2. ASSUME NEW j \in Jobs, AdminRetry(j)
      PROVE  OutboxNumbered'
  <2>1. spent'["reopen"] = spent["reopen"] + 1
    BY <1>2 DEF AdminRetry, Spend, OutsideTypeOK, Disturbances
  <2>2. \A r \in outbox : r[2] \in Nat
    BY JobQueueAssumption DEF DbTypeOK, OutboxRow, Disturbances
  <2> QED
    BY <1>0, <1>2, <2>1, <2>2 DEF AdminRetry, OutboxNumbered
<1>3. ASSUME outbox' \subseteq outbox, spent'["reopen"] = spent["reopen"]
      PROVE  OutboxNumbered'
  BY <1>3 DEF OutboxNumbered
<1>4. ASSUME NEW d \in Disturbances \ {"reopen"}, Spend(d)
      PROVE  spent'["reopen"] = spent["reopen"]
  BY <1>4 DEF Spend, OutsideTypeOK
<1>5. ASSUME NEW w \in Workers, Read(w) \/ Reclaim(w) \/ WorkerStep(w) \/ WorkerFault(w)
      PROVE  UNCHANGED outbox /\ spent'["reopen"] = spent["reopen"]
  <2>1. CASE Read(w) \/ Reclaim(w)
    BY <2>1 DEF Read, Reclaim, dbVars
  <2>2. CASE WorkerStep(w)
    BY <2>2 DEF WorkerStep, ClaimJob, AcquireLock, TakeSlot, RefuseSlot, DelayJob,
       ZAdd, FinishJob, Settle, CancelRun, FailFinal, FailJob, FailRun, Release, Ack,
       Leave, Recover, dbVars
  <2>3. CASE WorkerFault(w)
    BY <1>4, <2>3 DEF WorkerFault, StepFails, FailRun, StepAborts, LockAnswerLost, Shutdown, Crash,
       Stall, dbVars, Disturbances
  <2> QED
    BY <1>5, <2>1, <2>2, <2>3
<1>6. ASSUME BeginPass \/ DispatcherStep \/ Reconcile \/ DispatcherFails
      PROVE  outbox' \subseteq outbox /\ spent'["reopen"] = spent["reopen"]
  BY <1>4, <1>6 DEF BeginPass, DispatcherStep, Reconcile, DispatcherFails, MarkRetry,
     ReadDue, PromoteJob, ReadOutbox, MarkDispatched, ReadDelayed, ReadPending,
     ReaddJob, TakeDelayed, RehydrateJob, DispatchRow, dbVars, Disturbances
<1>7. CASE \/ \E j \in Jobs : \/ AdminCancel(j) \/ AdminRelease(j)
                             \/ UserCancelRead(j) \/ UserCancelWrite(j)
           \/ RedisFlush \/ Time
  <2>1. UNCHANGED outbox /\ spent'["reopen"] = spent["reopen"]
    BY <1>4, <1>7 DEF AdminCancel, AdminRelease, UserCancelRead, UserCancelWrite,
       RedisFlush, Time, Age, BackoffEnds, SlotAges, LockExpires, dbVars, Disturbances
  <2> QED
    BY <1>3, <2>1
<1>8. CASE UNCHANGED vars
  BY <1>3, <1>8 DEF vars, dbVars
<1> QED
  BY <1>1, <1>2, <1>3, <1>5, <1>6, <1>7, <1>8 DEF Next, Outside

\* Only an operator's reopen makes a finished job live again, with no attempts
\* used and a fresh outbox row to carry it: no late statement of a worker, no
\* pass and no user's cancel does, whatever fails or stalls.
THEOREM OnlyReopenReopens == Spec => NoQuietReopen
<1>1. Init => OutboxNumbered
  BY DEF Init, OutboxNumbered
<1>2. TypeOK /\ OutboxNumbered /\ [Next]_vars => OutboxNumbered'
  BY OutboxNumberedStep
<1> DEFINE Reopened(j) == status[j] \in Finished /\ status'[j] \in Live
           Proper(j) == /\ status[j] \in {"FAILED", "DEAD"}
                        /\ attempts'[j] = 0
                        /\ \E r \in outbox' \ outbox : r[1] = j
<1>3. TypeOK /\ OutboxNumbered /\ [Next]_vars => [\A j \in Jobs : Reopened(j) => Proper(j)]_vars
  <2>1. SUFFICES ASSUME TypeOK, OutboxNumbered, [Next]_vars, NEW j \in Jobs, Reopened(j)
                 PROVE  Proper(j)
    OBVIOUS
  <2>2. Reopens(j)
    BY <2>1, StepMovesRow DEF RowMove, QueueMove, Stays, Enters, Starts, Stops, Fails, Cancels,
       Overwrites, Finished, Live, Claimable
  <2>3. spent["reopen"] \in Nat
    BY <2>1 DEF TypeOK, OutsideTypeOK, Disturbances
  <2>4. <<j, spent'["reopen"]>> \notin outbox
    <3>1. SUFFICES ASSUME <<j, spent'["reopen"]>> \in outbox
                   PROVE  FALSE
      OBVIOUS
    <3>2. spent["reopen"] + 1 <= spent["reopen"]
      BY <2>1, <2>2, <3>1 DEF Reopens, OutboxNumbered
    <3> QED
      BY <2>3, <3>2
  <2> QED
    BY <2>2, <2>4 DEF Reopens
<1> QED
  BY <1>1, <1>2, <1>3, TypeCorrect, PTL DEF Spec, NoQuietReopen

-----------------------------------------------------------------------------
(***************************************************************************)
(* Outcomes.  Where no user cancels through the chat_jobs view, no write   *)
(* of that view is ever under way.                                         *)
(***************************************************************************)

NoViewWrite == \A j \in Jobs : viewWrite[j] = -1

LEMMA NoViewWriteStep ==
    ASSUME Limit["userCancel"] = 0, TypeOK, NoViewWrite, [Next]_vars
    PROVE  NoViewWrite'
<1>1. ASSUME NEW j \in Jobs, UserCancelRead(j)
      PROVE  FALSE
  <2>1. spent["userCancel"] \in Nat
    BY DEF TypeOK, OutsideTypeOK, Disturbances
  <2>2. spent["userCancel"] < 0
    BY <1>1 DEF UserCancelRead, Spend
  <2> QED
    BY <2>1, <2>2
<1>2. ASSUME NEW j \in Jobs, UserCancelWrite(j)
      PROVE  FALSE
  BY <1>2 DEF UserCancelWrite, NoViewWrite
<1>3. UNCHANGED viewWrite
  <2>1. ASSUME NEW w \in Workers, Read(w) \/ Reclaim(w) \/ WorkerStep(w) \/ WorkerFault(w)
        PROVE  UNCHANGED viewWrite
    BY <2>1 DEF Read, Reclaim, WorkerStep, ClaimJob, AcquireLock, TakeSlot,
       RefuseSlot, DelayJob, ZAdd, FinishJob, Settle, CancelRun, FailFinal, FailJob,
       FailRun, Release, Ack, Leave, Recover, WorkerFault, StepFails, StepAborts,
       LockAnswerLost, Shutdown, Crash, Stall, outsideVars
  <2>2. ASSUME BeginPass \/ DispatcherStep \/ Reconcile \/ DispatcherFails
        PROVE  UNCHANGED viewWrite
    BY <2>2 DEF BeginPass, DispatcherStep, Reconcile, DispatcherFails, MarkRetry,
       ReadDue, PromoteJob, ReadOutbox, MarkDispatched, ReadDelayed, ReadPending,
       ReaddJob, TakeDelayed, RehydrateJob, DispatchRow, outsideVars
  <2>3. ASSUME Outside \/ Time
        PROVE  UNCHANGED viewWrite
    BY <1>1, <1>2, <2>3 DEF Outside, Enqueue, AdminRetry, AdminCancel, AdminRelease,
       RedisFlush, Time, Age, BackoffEnds, SlotAges, LockExpires, outsideVars
  <2>4. CASE UNCHANGED vars
    BY <2>4 DEF vars, outsideVars
  <2> QED
    BY <2>1, <2>2, <2>3, <2>4 DEF Next
<1> QED
  BY <1>3 DEF NoViewWrite

\* Without the gateway's cancel, the outcome of a job stays: late runs, stalled
\* workers, duplicated entries, passes and operators never overwrite DONE or
\* CANCELLED, and FAILED and DEAD only go back to QUEUED.
THEOREM OutcomesStay ==
    ASSUME Limit["userCancel"] = 0
    PROVE  Spec => FinishedStays
<1> DEFINE Kept(j) ==
        /\ status[j] \in {"DONE", "CANCELLED"} => status'[j] = status[j]
        /\ status[j] \in {"FAILED", "DEAD"} => status'[j] \in {status[j], "QUEUED"}
<1>1. Init => NoViewWrite
  BY DEF Init, NoViewWrite
<1>2. TypeOK /\ NoViewWrite /\ [Next]_vars => NoViewWrite'
  BY NoViewWriteStep
<1>3. TypeOK /\ NoViewWrite /\ [Next]_vars => [\A j \in Jobs : Kept(j)]_vars
  <2>1. SUFFICES ASSUME TypeOK, NoViewWrite, [Next]_vars, NEW j \in Jobs
                 PROVE  Kept(j)
    OBVIOUS
  <2>2. RowMove(j) /\ ~Overwrites(j)
    BY <2>1, StepMovesRow DEF Overwrites, NoViewWrite
  <2> QED
    BY <2>2 DEF RowMove, QueueMove, Stays, Enters, Starts, Stops, Fails, Cancels, Reopens,
       Live, Claimable
<1> QED
  BY <1>1, <1>2, <1>3, TypeCorrect, PTL DEF Spec, FinishedStays

-----------------------------------------------------------------------------
\* The disturbance d never happens.
Never(d) == Limit[d] = 0

LEMMA NeverSpent ==
    ASSUME TypeOK, NEW d \in Disturbances, Never(d)
    PROVE  ~Spend(d)
<1>1. spent[d] \in Nat
  BY DEF TypeOK, OutsideTypeOK
<1> QED
  BY <1>1 DEF Spend, Never

-----------------------------------------------------------------------------
(***************************************************************************)
(* Who owns a run.  From its claim until it gives the row up, finishes or  *)
(* fails it, a loop owns the run of its job.                               *)
(***************************************************************************)

Owns(w) == pc[w] \in {"claimed", "slot", "refused", "run", "delay"}

AllBeat == \A w \in Workers : healthy[w]

\* The row of an owned run is RUNNING by the owner's claim and fresh, or has
\* been CANCELLED; no pass is about to take it for lost.
OwnersHaveTheRow ==
    \A w \in Workers : Owns(w) =>
        /\ status[JobOf(w)] \in {"RUNNING", "CANCELLED"}
        /\ status[JobOf(w)] = "RUNNING" => claimant[JobOf(w)] = w /\ ~aged[JobOf(w)]
        /\ dpc = "requeue" => JobOf(w) \notin djobs

OwnersApart ==
    \A v, w \in Workers : Owns(v) /\ Owns(w) /\ v # w => JobOf(v) # JobOf(w)

\* What a pass takes for lost stays as it was read, or is cancelled.
LostStays ==
    dpc = "requeue" => \A j \in djobs : status[j] \in {"RUNNING", "CANCELLED"}

RunInv == AllBeat /\ OwnersHaveTheRow /\ OwnersApart /\ LostStays

\* A step that takes no run from its owner: the row of each job is kept as far
\* as a run depends on it, cancelled, free, given up by its owner, or one nobody
\* owns.
GivenUp(j) == \E w \in Workers : Owns(w) /\ JobOf(w) = j /\ ~Owns(w)'
Unowned(j) == \A w \in Workers : Owns(w) => JobOf(w) # j

RunKept(j) ==
    \/ status'[j] = status[j] /\ claimant'[j] = claimant[j] /\ (aged'[j] => aged[j])
    \/ status'[j] = "CANCELLED"
    \/ status[j] \notin {"RUNNING", "CANCELLED"}
    \/ GivenUp(j)
    \/ Unowned(j) /\ (status'[j] = status[j] \/ dpc' # "requeue")

NoNewOwner ==
    \A w \in Workers : Owns(w)' => Owns(w) /\ msg'[w] = msg[w]

PassOnlyShrinks == dpc' = "requeue" => dpc = "requeue" /\ djobs' \subseteq djobs

LEMMA RunInvFrame ==
    ASSUME TypeOK, RunInv, AllBeat', NoNewOwner, PassOnlyShrinks,
           \A j \in Jobs : RunKept(j)
    PROVE  RunInv'
<1>1. \A w \in Workers : Owns(w) => JobOf(w) \in Jobs
  BY JobInHand DEF TypeOK, Owns
<1>2. \A w \in Workers : Owns(w)' => Owns(w) /\ JobOf(w)' = JobOf(w)
  BY DEF NoNewOwner, JobOf
<1>3. ASSUME NEW w \in Workers, Owns(w)'
      PROVE  /\ status'[JobOf(w)] \in {"RUNNING", "CANCELLED"}
             /\ status'[JobOf(w)] = "RUNNING"
                    => claimant'[JobOf(w)] = w /\ ~aged'[JobOf(w)]
             /\ dpc' = "requeue" => JobOf(w) \notin djobs'
  <2>1. Owns(w) /\ JobOf(w) \in Jobs
    BY <1>1, <1>2, <1>3
  <2>2. /\ status[JobOf(w)] \in {"RUNNING", "CANCELLED"}
        /\ status[JobOf(w)] = "RUNNING" => claimant[JobOf(w)] = w /\ ~aged[JobOf(w)]
        /\ dpc = "requeue" => JobOf(w) \notin djobs
    BY <2>1 DEF RunInv, OwnersHaveTheRow
  <2>3. ~GivenUp(JobOf(w))
    BY <1>3, <2>1 DEF GivenUp, RunInv, OwnersApart
  <2>4. ~Unowned(JobOf(w))
    BY <2>1 DEF Unowned
  <2> QED
    BY <2>1, <2>2, <2>3, <2>4 DEF RunKept, PassOnlyShrinks
<1>4. OwnersHaveTheRow'
  BY <1>2, <1>3 DEF OwnersHaveTheRow
<1>5. OwnersApart'
  BY <1>2 DEF RunInv, OwnersApart
<1>6. LostStays'
  <2>1. SUFFICES ASSUME dpc' = "requeue", NEW j \in djobs'
                 PROVE  status'[j] \in {"RUNNING", "CANCELLED"}
    BY DEF LostStays
  <2>2. dpc = "requeue" /\ j \in djobs /\ j \in Jobs
    BY <2>1 DEF PassOnlyShrinks, TypeOK, DispatcherTypeOK
  <2>3. status[j] \in {"RUNNING", "CANCELLED"}
    BY <2>2 DEF RunInv, LostStays
  <2>4. ~GivenUp(j)
    BY <2>2 DEF GivenUp, RunInv, OwnersHaveTheRow
  <2> QED
    BY <2>1, <2>2, <2>3, <2>4 DEF RunKept
<1> QED
  BY <1>4, <1>5, <1>6 DEF RunInv


\* A statement on one row changes no other, and its own only from the statuses
\* of its WHERE.
LEMMA SetStatusRow ==
    ASSUME DbTypeOK, NEW j \in Jobs, NEW from, NEW s, SetStatus(j, from, s), NEW k \in Jobs
    PROVE  \/ status'[k] = status[k] /\ claimant'[k] = claimant[k] /\ aged'[k] = aged[k]
           \/ k = j /\ status[j] \in from /\ status'[j] = s
<1>1. CASE status[j] \in from
  BY <1>1 DEF SetStatus, DbTypeOK
<1>2. CASE status[j] \notin from
  BY <1>2 DEF SetStatus, rowVars
<1> QED
  BY <1>1, <1>2

LEMMA RowsUntouched ==
    ASSUME UNCHANGED rowVars, NEW j \in Jobs
    PROVE  RunKept(j)
  BY DEF rowVars, RunKept

\* A loop that moves on, or rests, makes no new owner.
LEMMA MovesOn ==
    ASSUME TypeOK, RunInv, NEW w \in Workers, NEW step, Goto(w, step),
           step \in {"claimed", "slot", "refused", "run", "delay"} => Owns(w),
           UNCHANGED <<msg, healthy, dpc, djobs>>
    PROVE  AllBeat' /\ NoNewOwner /\ PassOnlyShrinks
  BY DEF Goto, Owns, AllBeat, RunInv, NoNewOwner, PassOnlyShrinks, TypeOK, WorkerTypeOK

LEMMA Rests ==
    ASSUME TypeOK, RunInv, NEW w \in Workers, Rest(w), UNCHANGED <<dpc, djobs>>
    PROVE  AllBeat' /\ NoNewOwner /\ PassOnlyShrinks
  BY DEF Rest, Goto, Owns, AllBeat, RunInv, NoNewOwner, PassOnlyShrinks, TypeOK, WorkerTypeOK

\* The claim: the one step that makes an owner, of a job nobody owns.
LEMMA ClaimRun ==
    ASSUME TypeOK, RunInv, NEW w \in Workers, ClaimJob(w)
    PROVE  RunInv'
<1> DEFINE j == JobOf(w)
<1>0. j \in Jobs
  BY JobInHand DEF TypeOK, ClaimJob
<1>1. CASE ~Claims(j)
  <2>1. \A k \in Jobs : RunKept(k)
    BY <1>1, RowsUntouched DEF ClaimJob, Claim
  <2>2. Goto(w, "ack") /\ UNCHANGED <<msg, healthy, dpc, djobs>>
    BY <1>1 DEF ClaimJob, dispatcherVars
  <2>3. AllBeat' /\ NoNewOwner /\ PassOnlyShrinks
    BY <2>2, MovesOn
  <2> QED
    BY <2>1, <2>3, RunInvFrame
<1>2. CASE Claims(j)
  <2>1. /\ status' = [status EXCEPT ![j] = "RUNNING"]
        /\ aged' = [aged EXCEPT ![j] = FALSE]
        /\ claimant' = [claimant EXCEPT ![j] = w]
        /\ pc' = [pc EXCEPT ![w] = "claimed"]
        /\ UNCHANGED <<msg, healthy, dpc, djobs>>
    BY <1>2 DEF ClaimJob, Claim, Goto, dispatcherVars
  <2>2. status[j] \in Claimable
    BY <1>2 DEF Claims
  <2>3. \A v \in Workers \ {w} :
            /\ Owns(v)' <=> Owns(v)
            /\ JobOf(v)' = JobOf(v)
            /\ Owns(v) => JobOf(v) # j /\ JobOf(v) \in Jobs
    <3>1. \A v \in Workers : Owns(v) => JobOf(v) # j
      BY <2>2 DEF RunInv, OwnersHaveTheRow, Claimable
    <3>2. \A v \in Workers : Owns(v) => JobOf(v) \in Jobs
      BY JobInHand DEF TypeOK, Owns
    <3> QED
      BY <2>1, <3>1, <3>2 DEF Owns, JobOf, TypeOK, WorkerTypeOK
  <2>4. JobOf(w)' = j /\ ~Owns(w)
    BY <2>1 DEF ClaimJob, Owns, JobOf
  <2>5. dpc = "requeue" => j \notin djobs
    BY <2>2 DEF RunInv, LostStays, Claimable
  <2> HIDE DEF j
  <2>6. /\ status'[j] = "RUNNING" /\ claimant'[j] = w /\ ~aged'[j]
        /\ \A k \in Jobs \ {j} : /\ status'[k] = status[k]
                                 /\ claimant'[k] = claimant[k]
                                 /\ aged'[k] = aged[k]
    BY <1>0, <2>1 DEF TypeOK, DbTypeOK
  <2>7. AllBeat'
    BY <2>1 DEF RunInv, AllBeat
  <2>8. OwnersHaveTheRow'
    <3>1. SUFFICES ASSUME NEW v \in Workers, Owns(v)'
                   PROVE  /\ status'[JobOf(v)'] \in {"RUNNING", "CANCELLED"}
                          /\ status'[JobOf(v)'] = "RUNNING"
                                => claimant'[JobOf(v)'] = v /\ ~aged'[JobOf(v)']
                          /\ dpc' = "requeue" => JobOf(v)' \notin djobs'
      BY DEF OwnersHaveTheRow
    <3>2. CASE v = w
      BY <2>1, <2>4, <2>5, <2>6, <3>2
    <3>3. CASE v # w
      BY <2>1, <2>3, <2>6, <3>1, <3>3 DEF RunInv, OwnersHaveTheRow
    <3> QED
      BY <3>2, <3>3
  <2>9. OwnersApart'
    <3>1. SUFFICES ASSUME NEW u \in Workers, NEW v \in Workers, Owns(u)', Owns(v)', u # v
                   PROVE  JobOf(u)' # JobOf(v)'
      BY DEF OwnersApart
    <3> QED
      BY <2>3, <2>4, <3>1 DEF RunInv, OwnersApart
  <2>10. LostStays'
    <3>1. djobs \subseteq Jobs
      BY DEF TypeOK, DispatcherTypeOK
    <3> QED
      BY <2>1, <2>5, <2>6, <3>1 DEF RunInv, LostStays
  <2> QED
    BY <2>7, <2>8, <2>9, <2>10 DEF RunInv
<1> QED
  BY <1>1, <1>2

LEMMA WorkerKeepsRuns ==
    ASSUME TypeOK, RunInv, NEW w \in Workers, Read(w) \/ Reclaim(w) \/ WorkerStep(w)
    PROVE  RunInv'
<1> DEFINE j == JobOf(w)
<1>0. pc[w] # "idle" => j \in Jobs
  BY JobInHand DEF TypeOK
<1>1. CASE Read(w) \/ Reclaim(w)
  <2>1. \A k \in Jobs : RunKept(k)
    BY <1>1, RowsUntouched DEF Read, Reclaim, dbVars
  <2>2. AllBeat' /\ NoNewOwner /\ PassOnlyShrinks
    BY <1>1 DEF Read, Reclaim, Goto, Owns, AllBeat, RunInv, NoNewOwner, PassOnlyShrinks,
       TypeOK, WorkerTypeOK, dispatcherVars
  <2> QED
    BY <2>1, <2>2, RunInvFrame
<1>2. CASE ClaimJob(w)
  BY <1>2, ClaimRun
<1>3. CASE \/ AcquireLock(w) \/ TakeSlot(w) \/ RefuseSlot(w) \/ ZAdd(w)
           \/ Settle(w) \/ Release(w) \/ Ack(w)
  <2>1. \A k \in Jobs : RunKept(k)
    BY <1>3, RowsUntouched DEF AcquireLock, TakeSlot, RefuseSlot, ZAdd, Settle, Release,
       Ack, dbVars
  <2>2. PICK step : /\ Goto(w, step)
                    /\ step \in {"claimed", "slot", "refused", "run", "delay"} => Owns(w)
                    /\ UNCHANGED <<msg, healthy, dpc, djobs>>
    BY <1>3 DEF AcquireLock, TakeSlot, RefuseSlot, ZAdd, Settle, Release, Ack, Owns,
       dispatcherVars
  <2>3. AllBeat' /\ NoNewOwner /\ PassOnlyShrinks
    BY <2>2, MovesOn
  <2> QED
    BY <2>1, <2>3, RunInvFrame
<1>4. CASE DelayJob(w) \/ FinishJob(w) \/ CancelRun(w) \/ FailFinal(w) \/ FailJob(w)
  <2>1. Owns(w) /\ j \in Jobs
    BY <1>0, <1>4 DEF DelayJob, FinishJob, CancelRun, FailFinal, FailJob, Owns
  <2>2. PICK step : /\ Goto(w, step)
                    /\ step \notin {"claimed", "slot", "refused", "run", "delay"}
                    /\ UNCHANGED <<msg, healthy, dpc, djobs>>
    BY <1>4 DEF DelayJob, FinishJob, CancelRun, FailFinal, FailJob, FailRun, AfterFail,
       dispatcherVars
  <2>3. AllBeat' /\ NoNewOwner /\ PassOnlyShrinks
    BY <2>2, MovesOn
  <2>4. GivenUp(j)
    BY <2>1, <2>2 DEF GivenUp, Goto, Owns, TypeOK, WorkerTypeOK
  <2>5. PICK from, s : SetStatus(j, from, s)
    BY <1>4 DEF DelayJob, ReleaseClaim, FinishJob, FinishRow, CancelRun, CancelRow,
       FailFinal, FailFinalRow, FailJob, FailRun, FailRow
  <2> HIDE DEF j
  <2>6. \A k \in Jobs : RunKept(k)
    BY <2>1, <2>4, <2>5, SetStatusRow DEF RunKept, TypeOK
  <2> QED
    BY <2>3, <2>6, RunInvFrame
<1>5. CASE Leave(w)
  <2>1. \A k \in Jobs : RunKept(k)
    BY <1>5, RowsUntouched DEF Leave, dbVars
  <2>2. AllBeat' /\ NoNewOwner /\ PassOnlyShrinks
    BY <1>5, Rests DEF Leave, LeaveSlotAndLock, dispatcherVars
  <2> QED
    BY <2>1, <2>2, RunInvFrame
<1>6. CASE Recover(w)
  BY <1>6 DEF Recover, RunInv, AllBeat
<1> QED
  BY <1>1, <1>2, <1>3, <1>4, <1>5, <1>6 DEF WorkerStep

\* Of the faults of a loop only a crash is left, which gives up the run without
\* a word.
LEMMA CrashKeepsRuns ==
    ASSUME TypeOK, RunInv, Never("stall"), Never("error"), Never("stop"),
           NEW w \in Workers, WorkerFault(w)
    PROVE  RunInv'
<1>1. Crash(w)
  BY NeverSpent DEF WorkerFault, StepFails, StepAborts, LockAnswerLost, Shutdown, Stall,
     Disturbances
<1>2. \A k \in Jobs : RunKept(k)
  BY <1>1, RowsUntouched DEF Crash, dbVars
<1>3. AllBeat' /\ NoNewOwner /\ PassOnlyShrinks
  BY <1>1, Rests DEF Crash, dispatcherVars
<1> QED
  BY <1>2, <1>3, RunInvFrame

\* A pass takes for lost only what nobody owns.
LEMMA PassKeepsRuns ==
    ASSUME TypeOK, RunInv, BeginPass \/ DispatcherStep \/ Reconcile \/ DispatcherFails
    PROVE  RunInv'
<1>1. CASE BeginPass
  <2>1. UNCHANGED <<rowVars, workerVars>> /\ djobs' = StaleRunning
    BY <1>1 DEF BeginPass, dbVars
  <2>2. AllBeat' /\ OwnersApart'
    BY <2>1 DEF RunInv, AllBeat, OwnersApart, Owns, JobOf, workerVars
  <2>3. OwnersHaveTheRow'
    BY <2>1 DEF RunInv, OwnersHaveTheRow, Owns, JobOf, workerVars, rowVars, StaleRunning
  <2>4. LostStays'
    BY <2>1 DEF LostStays, StaleRunning, rowVars
  <2> QED
    BY <2>2, <2>3, <2>4 DEF RunInv
<1>2. CASE MarkRetry
  <2>1. UNCHANGED workerVars /\ dpc = "requeue" /\ dpc' = "readd"
    BY <1>2 DEF MarkRetry
  <2>2. AllBeat' /\ NoNewOwner /\ PassOnlyShrinks
    BY <2>1 DEF RunInv, AllBeat, NoNewOwner, Owns, workerVars, PassOnlyShrinks
  <2>3. ASSUME NEW j \in Jobs
        PROVE  RunKept(j)
    <3>1. CASE j \in djobs
      BY <2>1, <3>1 DEF RunKept, Unowned, RunInv, OwnersHaveTheRow
    <3>2. CASE j \notin djobs
      BY <1>2, <3>2 DEF MarkRetry, RunKept
    <3> QED
      BY <3>1, <3>2
  <2> QED
    BY <2>2, <2>3, RunInvFrame
<1>3. CASE ~(BeginPass \/ MarkRetry)
  <2>1. UNCHANGED <<rowVars, workerVars>> /\ dpc' # "requeue"
    BY <1>3 DEF DispatcherStep, Reconcile, DispatcherFails, ReadDue, PromoteJob,
       ReadOutbox, MarkDispatched, ReadDelayed, ReadPending, ReaddJob, TakeDelayed,
       RehydrateJob, DispatchRow, dbVars, dispatcherVars
  <2>2. AllBeat' /\ NoNewOwner /\ PassOnlyShrinks
    BY <2>1 DEF RunInv, AllBeat, NoNewOwner, Owns, workerVars, PassOnlyShrinks
  <2> QED
    BY <2>1, <2>2, RowsUntouched, RunInvFrame
<1> QED
  BY <1>1, <1>2, <1>3

\* The API, the operator and the user cancel rows or move those nobody owns,
\* and a row ages only when its owner does not beat.
LEMMA OthersKeepRuns ==
    ASSUME TypeOK, RunInv, Outside \/ Time
    PROVE  RunInv'
<1>1. UNCHANGED <<workerVars, dispatcherVars>>
  BY DEF Outside, Enqueue, AdminRetry, AdminCancel, AdminRelease, UserCancelRead,
     UserCancelWrite, RedisFlush, Time, Age, BackoffEnds, SlotAges, LockExpires
<1>2. AllBeat' /\ NoNewOwner /\ PassOnlyShrinks
  BY <1>1 DEF RunInv, AllBeat, NoNewOwner, Owns, workerVars, dispatcherVars, PassOnlyShrinks
<1>3. ASSUME NEW k \in Jobs
      PROVE  RunKept(k)
  <2>1. ASSUME NEW j \in Jobs, Enqueue(j) \/ AdminRetry(j)
        PROVE  RunKept(k)
    BY <2>1 DEF Enqueue, AdminRetry, RunKept, TypeOK, DbTypeOK
  <2>2. ASSUME NEW j \in Jobs, AdminCancel(j)
        PROVE  RunKept(k)
    BY <2>2, SetStatusRow DEF AdminCancel, CancelRow, RunKept, TypeOK
  <2>3. ASSUME NEW j \in Jobs, UserCancelWrite(j)
        PROVE  RunKept(k)
    BY <2>3 DEF UserCancelWrite, RunKept, TypeOK, DbTypeOK
  <2>4. ASSUME NEW j \in Jobs, Age(j)
        PROVE  RunKept(k)
    <3>1. CASE k = j
      <4>1. CASE status[j] = "RUNNING"
        BY <2>4, <3>1, <4>1 DEF Age, KeepsAlive, RunKept, Unowned, Owns, RunInv, AllBeat,
           Claimable, Finished
      <4>2. CASE status[j] # "RUNNING"
        BY <2>4, <3>1, <4>2 DEF Age, RunKept
      <4> QED
        BY <4>1, <4>2
    <3>2. CASE k # j
      BY <2>4, <3>2 DEF Age, RunKept, TypeOK, DbTypeOK
    <3> QED
      BY <3>1, <3>2
  <2>5. CASE \/ \E j \in Jobs : \/ AdminRelease(j) \/ UserCancelRead(j)
                                \/ BackoffEnds(j) \/ SlotAges(j)
             \/ RedisFlush \/ \E c \in Conversations : LockExpires(c)
    BY <2>5, RowsUntouched DEF AdminRelease, UserCancelRead, RedisFlush, BackoffEnds,
       SlotAges, LockExpires, dbVars
  <2> QED
    BY <2>1, <2>2, <2>3, <2>4, <2>5 DEF Outside, Time
<1> QED
  BY <1>2, <1>3, RunInvFrame

LEMMA RunInvInit == Init => RunInv
  BY DEF Init, RunInv, AllBeat, OwnersHaveTheRow, OwnersApart, LostStays, Owns

LEMMA RunInvStep ==
    ASSUME Never("stall"), Never("error"), Never("stop"), TypeOK, RunInv, [Next]_vars
    PROVE  RunInv'
<1>1. CASE UNCHANGED vars
  BY <1>1 DEF vars, dbVars, rowVars, workerVars, dispatcherVars, RunInv, AllBeat,
     OwnersHaveTheRow, OwnersApart, LostStays, Owns, JobOf
<1>2. CASE Next
  BY <1>2, WorkerKeepsRuns, CrashKeepsRuns, PassKeepsRuns, OthersKeepRuns DEF Next
<1> QED
  BY <1>1, <1>2

THEOREM RunInvHolds ==
    ASSUME Never("stall"), Never("error"), Never("stop")
    PROVE  Spec => []RunInv
<1>1. TypeOK /\ RunInv /\ [Next]_vars => RunInv'
  BY RunInvStep
<1> QED
  BY <1>1, RunInvInit, TypeCorrect, PTL DEF Spec

\* While heartbeats work and no call of a loop raises or is cut off, two loops
\* never run the same job, and the row of a run is its own or CANCELLED, whatever
\* is duplicated, killed, flushed, reopened or cancelled.  (worker.py's outer
\* except and its shutdown write the row of a job the loop may have left.)
THEOREM OneRun ==
    ASSUME Never("stall"), Never("error"), Never("stop")
    PROVE  Spec => []OneRunPerJob
<1>1. RunInv => OneRunPerJob
  BY DEF RunInv, OwnersHaveTheRow, OwnersApart, OneRunPerJob, InHandler, Owns
<1> QED
  BY <1>1, RunInvHolds, PTL

\* Under the same hypotheses every statement by which a loop finishes, fails or
\* hands back a run reaches the run that loop claimed.
THEOREM OnlyOwnRuns ==
    ASSUME Never("stall"), Never("error"), Never("stop")
    PROVE  Spec => EndsOnlyItsOwnRun
<1> DEFINE Ends(w) == /\ pc[w] \notin {"idle", "got"}
                      /\ pc'[w] # pc[w]
                      /\ status[JobOf(w)] = "RUNNING"
                      /\ status'[JobOf(w)] # "RUNNING"
<1>1. TypeOK /\ RunInv /\ [Next]_vars
        => [\A w \in Workers : Ends(w) => claimant[JobOf(w)] = w]_vars
  <2>1. SUFFICES ASSUME TypeOK, RunInv, [Next]_vars, NEW w \in Workers, Ends(w)
                 PROVE  claimant[JobOf(w)] = w
    OBVIOUS
  <2>2. Next /\ pc' # pc
    BY <2>1 DEF vars, workerVars
  <2>3. PICK v \in Workers : Read(v) \/ Reclaim(v) \/ WorkerStep(v) \/ WorkerFault(v)
    BY <2>2 DEF Next, BeginPass, DispatcherStep, Reconcile, DispatcherFails, MarkRetry,
       ReadDue, PromoteJob, ReadOutbox, MarkDispatched, ReadDelayed, ReadPending,
       ReaddJob, TakeDelayed, RehydrateJob, DispatchRow, Outside, Enqueue, AdminRetry,
       AdminCancel, AdminRelease, UserCancelRead, UserCancelWrite, RedisFlush, Time,
       Age, BackoffEnds, SlotAges, LockExpires, workerVars
  <2>4. \E step : pc' = [pc EXCEPT ![v] = step]
    BY <2>1, <2>2, <2>3, NeverSpent
    DEF WorkerStep, WorkerFault, Read, Reclaim, ClaimJob, AcquireLock, TakeSlot, RefuseSlot,
       DelayJob, ZAdd, FinishJob, Settle, CancelRun, FailFinal, FailJob, FailRun, Release,
       Ack, Leave, LeaveSlotAndLock, Recover, StepFails, StepAborts, LockAnswerLost,
       Shutdown, Crash, Stall, Rest, Goto
  <2>5. v = w
    BY <2>1, <2>4 DEF TypeOK, WorkerTypeOK
  <2>6. status' # status
    BY <2>1
  <2>7. Owns(w)
    BY <2>1, <2>3, <2>5, <2>6, NeverSpent
    DEF WorkerStep, WorkerFault, Read, Reclaim, ClaimJob, AcquireLock, TakeSlot, RefuseSlot,
       DelayJob, ZAdd, FinishJob, Settle, CancelRun, FailFinal, FailJob, Release, Ack,
       Leave, Recover, StepFails, StepAborts, LockAnswerLost, Shutdown, Crash, Stall,
       dbVars, rowVars, Owns, Disturbances
  <2> QED
    BY <2>1, <2>7 DEF RunInv, OwnersHaveTheRow
<1> QED
  BY <1>1, RunInvHolds, TypeCorrect, PTL DEF Spec, EndsOnlyItsOwnRun

-----------------------------------------------------------------------------
(***************************************************************************)
(* Conversations.  A loop past _lock holds the key of its conversation     *)
(* until it leaves, dies or is told to stop.                               *)
(***************************************************************************)

LocksHeld ==
    \A w \in Workers :
        pc[w] \in {"slot", "run"} /\ ConvOf[JobOf(w)] # NoConv => lock[ConvOf[JobOf(w)]] = w

ConversationInv == AllBeat /\ LocksHeld

\* No lock of a loop that still runs is given away, and no loop comes to run.
LEMMA LocksFrame ==
    ASSUME TypeOK, ConversationInv, AllBeat',
           \A w \in Workers : pc'[w] \in {"slot", "run"}
                => /\ pc[w] \in {"slot", "run"}
                   /\ msg'[w] = msg[w]
                   /\ \A c \in Conversations : lock[c] = w => lock'[c] = w
    PROVE  ConversationInv'
<1>1. SUFFICES ASSUME NEW w \in Workers, pc'[w] \in {"slot", "run"},
                      ConvOf[JobOf(w)'] # NoConv
               PROVE  lock'[ConvOf[JobOf(w)']] = w
  BY DEF ConversationInv, LocksHeld
<1>2. JobOf(w)' = JobOf(w) /\ JobOf(w) \in Jobs
  BY <1>1, JobInHand DEF JobOf, TypeOK
<1>3. ConvOf[JobOf(w)] \in Conversations
  BY <1>1, <1>2, JobQueueAssumption
<1> QED
  BY <1>1, <1>2, <1>3 DEF ConversationInv, LocksHeld

LEMMA AcquireKeepsLocks ==
    ASSUME TypeOK, ConversationInv, NEW w \in Workers, AcquireLock(w)
    PROVE  ConversationInv'
<1>1. UNCHANGED <<msg, healthy>> /\ \E step : Goto(w, step)
  BY DEF AcquireLock
<1>2. AllBeat'
  BY <1>1 DEF ConversationInv, AllBeat
<1>3. ASSUME NEW v \in Workers, pc'[v] \in {"slot", "run"}, ConvOf[JobOf(v)'] # NoConv
      PROVE  lock'[ConvOf[JobOf(v)']] = v
  <2>1. JobOf(v)' = JobOf(v)
    BY <1>1 DEF JobOf
  <2>2. CASE v = w
    <3>1. JobOf(w) \in Jobs
      BY JobInHand DEF AcquireLock, TypeOK
    <3>2. ConvOf[JobOf(w)] \in Conversations
      BY <1>3, <2>1, <2>2, <3>1, JobQueueAssumption
    <3>3. lock' = [lock EXCEPT ![ConvOf[JobOf(w)]] = w]
      BY <1>3, <2>1, <2>2 DEF AcquireLock, Goto, TypeOK, WorkerTypeOK
    <3> QED
      BY <2>1, <2>2, <3>2, <3>3 DEF TypeOK, RedisTypeOK
  <2>3. CASE v # w
    <3>1. pc[v] = pc'[v]
      BY <1>1, <2>3 DEF Goto, TypeOK, WorkerTypeOK
    <3>2. lock[ConvOf[JobOf(v)]] = v
      BY <1>3, <2>1, <3>1 DEF ConversationInv, LocksHeld
    <3>3. v # Nobody
      BY JobQueueAssumption
    <3>4. JobOf(v) \in Jobs
      BY <1>3, <3>1, JobInHand DEF TypeOK
    <3>5. ConvOf[JobOf(v)] \in Conversations
      BY <1>3, <2>1, <3>4, JobQueueAssumption
    <3> QED
      BY <2>1, <3>2, <3>3, <3>5 DEF AcquireLock, TypeOK, RedisTypeOK
  <2> QED
    BY <2>2, <2>3
<1> QED
  BY <1>2, <1>3 DEF ConversationInv, LocksHeld

LEMMA WorkerKeepsLocks ==
    ASSUME Never("stall"), TypeOK, ConversationInv, NEW w \in Workers,
           Read(w) \/ Reclaim(w) \/ WorkerStep(w) \/ WorkerFault(w)
    PROVE  ConversationInv'
<1>0. ~Stall(w)
  BY NeverSpent DEF Stall, Disturbances
<1>1. CASE AcquireLock(w)
  BY <1>1, AcquireKeepsLocks
<1>2. CASE \/ Read(w) \/ Reclaim(w) \/ ClaimJob(w) \/ TakeSlot(w) \/ RefuseSlot(w)
           \/ DelayJob(w) \/ ZAdd(w) \/ FinishJob(w) \/ Settle(w) \/ CancelRun(w)
           \/ FailFinal(w) \/ FailJob(w) \/ Release(w) \/ Ack(w) \/ StepFails(w)
  <2>1. PICK step : /\ Goto(w, step)
                    /\ step \in {"slot", "run"} => pc[w] = "slot"
                    /\ pc[w] = "slot" => msg' = msg
                    /\ \A v \in Workers \ {w} : msg'[v] = msg[v]
                    /\ UNCHANGED <<lock, healthy>>
    BY <1>2 DEF Read, Reclaim, ClaimJob, TakeSlot, RefuseSlot, DelayJob, ZAdd, FinishJob,
       Settle, CancelRun, FailFinal, FailJob, FailRun, AfterFail, Release, Ack, StepFails,
       redisVars, TypeOK, WorkerTypeOK
  <2>2. AllBeat'
    BY <2>1 DEF ConversationInv, AllBeat
  <2>3. ASSUME NEW v \in Workers, pc'[v] \in {"slot", "run"}
        PROVE  pc[v] \in {"slot", "run"} /\ msg'[v] = msg[v]
    BY <2>1, <2>3 DEF Goto, TypeOK, WorkerTypeOK
  <2> QED
    BY <2>1, <2>2, <2>3, LocksFrame
<1>3. CASE Leave(w) \/ StepAborts(w) \/ Shutdown(w) \/ Crash(w) \/ LockAnswerLost(w)
  <2>1. /\ Rest(w)
        /\ \A c \in Conversations : \A v \in Workers \ {w} : lock[c] = v => lock'[c] = v
    BY <1>3, JobQueueAssumption DEF Leave, StepAborts, Shutdown, Crash, LockAnswerLost, LeaveSlotAndLock,
       DropLock, LeakLock, TypeOK, RedisTypeOK
  <2>2. AllBeat'
    BY <2>1 DEF Rest, ConversationInv, AllBeat, TypeOK, WorkerTypeOK
  <2>3. ASSUME NEW v \in Workers, pc'[v] \in {"slot", "run"}
        PROVE  v # w /\ pc[v] \in {"slot", "run"} /\ msg'[v] = msg[v]
    BY <2>1, <2>3 DEF Rest, Goto, TypeOK, WorkerTypeOK
  <2> QED
    BY <2>1, <2>2, <2>3, LocksFrame
<1>4. CASE Recover(w)
  BY <1>4 DEF Recover, ConversationInv, AllBeat
<1> QED
  BY <1>0, <1>1, <1>2, <1>3, <1>4 DEF WorkerStep, WorkerFault

LEMMA OthersKeepLocks ==
    ASSUME Never("flush"), TypeOK, ConversationInv,
           \/ BeginPass \/ DispatcherStep \/ Reconcile \/ DispatcherFails
           \/ Outside \/ Time \/ UNCHANGED vars
    PROVE  ConversationInv'
<1>0. ~RedisFlush
  BY NeverSpent DEF RedisFlush, Disturbances
<1>1. CASE \E c \in Conversations : LockExpires(c)
  <2>1. PICK c \in Conversations : LockExpires(c)
    BY <1>1
  <2>2. \A d \in Conversations, w \in Workers : lock[d] = w => lock'[d] = w
    BY <2>1 DEF LockExpires, ConversationInv, AllBeat, TypeOK, RedisTypeOK
  <2>3. UNCHANGED workerVars
    BY <2>1 DEF LockExpires
  <2> QED
    BY <2>2, <2>3, LocksFrame DEF ConversationInv, AllBeat, workerVars
<1>2. CASE ~\E c \in Conversations : LockExpires(c)
  <2>1. UNCHANGED <<workerVars, lock>>
    BY <1>0, <1>2 DEF BeginPass, DispatcherStep, Reconcile, DispatcherFails, MarkRetry,
       ReadDue, PromoteJob, ReadOutbox, MarkDispatched, ReadDelayed, ReadPending,
       ReaddJob, TakeDelayed, RehydrateJob, DispatchRow, Outside, Enqueue, AdminRetry,
       AdminCancel, AdminRelease, UserCancelRead, UserCancelWrite, Time, Age,
       BackoffEnds, SlotAges, redisVars, vars
  <2> QED
    BY <2>1 DEF ConversationInv, AllBeat, LocksHeld, JobOf, workerVars
<1> QED
  BY <1>1, <1>2

\* While heartbeats work and Redis keeps its data, two jobs of one conversation
\* never run at once, though locks are leaked by crashes, expire, are set
\* without an answer, and are dropped late.
THEOREM OneConversation ==
    ASSUME Never("stall"), Never("flush")
    PROVE  Spec => []OneRunPerConversation
<1>1. Init => ConversationInv
  BY DEF Init, ConversationInv, AllBeat, LocksHeld
<1>2. TypeOK /\ ConversationInv /\ [Next]_vars => ConversationInv'
  BY WorkerKeepsLocks, OthersKeepLocks DEF Next
<1>3. ConversationInv => OneRunPerConversation
  BY DEF ConversationInv, LocksHeld, OneRunPerConversation, InHandler
<1> QED
  BY <1>1, <1>2, <1>3, TypeCorrect, PTL DEF Spec

-----------------------------------------------------------------------------
(***************************************************************************)
(* The life of one job.  A loop charges only what was answered, or was     *)
(* cancelled meanwhile, and releases only what ended without an answer.    *)
(***************************************************************************)

LifeMove(j) == Lifecycle(j)!Next \/ UNCHANGED Lifecycle(j)!vars

ChargesAnswers ==
    \A w \in Workers : pc[w] = "settle" => status[JobOf(w)] \in {"DONE", "CANCELLED"}

ReleasesUnanswered ==
    /\ \A w \in Workers :
          pc[w] = "release" => status[JobOf(w)] \in {"FAILED", "DEAD", "CANCELLED"}
    /\ \A j \in adminRelease : status[j] = "CANCELLED"

NothingHeldYet == \A j \in Jobs : status[j] = "none" => hold[j] = "none"

LifeInv == ChargesAnswers /\ ReleasesUnanswered /\ NothingHeldYet

\* A move of the row that leaves the reservation alone.
LEMMA RowLives ==
    ASSUME TypeOK, AttemptsWithinLimit, NEW j \in Jobs, QueueMove(j), hold'[j] = hold[j]
    PROVE  LifeMove(j)
<1>0. MaxAttempts \in Nat \ {0} /\ attempts[j] \in Nat
  BY JobQueueAssumption DEF TypeOK, DbTypeOK
<1>1. CASE Stays(j)
  BY <1>1 DEF LifeMove, Stays, Lifecycle!vars
<1>2. CASE Starts(j)
  BY <1>2 DEF LifeMove, Starts, Claimable, Lifecycle!Next, Lifecycle!Start
<1>3. CASE Stops(j)
  BY <1>3 DEF LifeMove, Stops, Claimable, Lifecycle!Next, Lifecycle!HandBack, Lifecycle!Answer
<1>4. CASE Fails(j)
  BY <1>0, <1>4 DEF LifeMove, Fails, AfterAttempt, AttemptsWithinLimit, Live, Claimable,
     Lifecycle!Next, Lifecycle!Retry, Lifecycle!Die
<1>5. CASE Cancels(j)
  BY <1>5 DEF LifeMove, Cancels, Live, Claimable, Lifecycle!Next, Lifecycle!Cancel
<1> QED
  BY <1>1, <1>2, <1>3, <1>4, <1>5 DEF QueueMove

\* A reservation closed as the row's outcome says.
LEMMA HoldLives ==
    ASSUME NEW j \in Jobs, Stays(j), NEW as \in {"SETTLED", "RELEASED"},
           as = "SETTLED" => status[j] \in {"DONE", "CANCELLED"},
           as = "RELEASED" => status[j] \in {"FAILED", "DEAD", "CANCELLED"},
           hold'[j] = IF hold[j] = "RESERVED" THEN as ELSE hold[j]
    PROVE  LifeMove(j)
<1>1. CASE hold[j] # "RESERVED"
  BY <1>1 DEF LifeMove, Stays, Lifecycle!vars
<1>2. CASE hold[j] = "RESERVED" /\ as = "SETTLED"
  BY <1>2 DEF LifeMove, Stays, Claimable, Lifecycle!Next, Lifecycle!Charge
<1>3. CASE hold[j] = "RESERVED" /\ as = "RELEASED"
  BY <1>3 DEF LifeMove, Stays, Claimable, Lifecycle!Next, Lifecycle!Refund
<1> QED
  BY <1>1, <1>2, <1>3

LEMMA CloseHoldLives ==
    ASSUME TypeOK, NEW j \in Jobs, NEW as \in {"SETTLED", "RELEASED"}, CloseHold(j, as),
           as = "SETTLED" => status[j] \in {"DONE", "CANCELLED"},
           as = "RELEASED" => status[j] \in {"FAILED", "DEAD", "CANCELLED"},
           UNCHANGED <<status, attempts>>, NEW k \in Jobs
    PROVE  LifeMove(k)
<1>1. Stays(k)
  BY DEF Stays
<1>2. hold'[k] = IF k = j /\ hold[k] = "RESERVED" THEN as ELSE hold[k]
  BY DEF CloseHold, TypeOK, DbTypeOK
<1>3. CASE k = j
  BY <1>1, <1>2, <1>3, HoldLives
<1>4. CASE k # j
  BY <1>1, <1>2, <1>4 DEF LifeMove, Stays, Lifecycle!vars
<1> QED
  BY <1>3, <1>4

\* What the theorem excludes: the reopen, the user's cancel, and a loop that
\* writes the row of a job it has left.
Undisturbed ==
    /\ Never("stall") /\ Never("error") /\ Never("stop")
    /\ Never("userCancel") /\ Never("reopen")

LEMMA WorkerLives ==
    ASSUME Undisturbed, TypeOK, AttemptsWithinLimit, LifeInv, NEW w \in Workers,
           Read(w) \/ Reclaim(w) \/ WorkerStep(w) \/ WorkerFault(w), NEW k \in Jobs
    PROVE  LifeMove(k)
<1>0. pc[w] # "idle" => JobOf(w) \in Jobs
  BY JobInHand DEF TypeOK
<1>1. CASE Settle(w)
  <2>1. status[JobOf(w)] \in {"DONE", "CANCELLED"}
    BY <1>1 DEF Settle, LifeInv, ChargesAnswers
  <2> QED
    BY <1>0, <1>1, <2>1, CloseHoldLives DEF Settle, rowVars
<1>2. CASE Release(w)
  <2>1. status[JobOf(w)] \in {"FAILED", "DEAD", "CANCELLED"}
    BY <1>2 DEF Release, LifeInv, ReleasesUnanswered
  <2> QED
    BY <1>0, <1>2, <2>1, CloseHoldLives DEF Release, rowVars
<1>3. CASE ~Settle(w) /\ ~Release(w)
  <2>1. UNCHANGED hold
    BY <1>3 DEF Read, Reclaim, WorkerStep, WorkerFault, ClaimJob, AcquireLock, TakeSlot,
       RefuseSlot, DelayJob, ZAdd, FinishJob, CancelRun, FailFinal, FailJob, FailRun, Ack,
       Leave, Recover, StepFails, StepAborts, LockAnswerLost, Shutdown, Crash, Stall,
       dbVars
  <2>2. QueueMove(k)
    BY WorkerMoves
  <2> QED
    BY <2>1, <2>2, RowLives
<1> QED
  BY <1>1, <1>2, <1>3

LEMMA MarkRetryLives ==
    ASSUME TypeOK, AttemptsWithinLimit, MarkRetry, NEW k \in Jobs
    PROVE  LifeMove(k)
<1>1. CASE hold'[k] = hold[k]
  BY <1>1, DispatcherMoves, RowLives DEF DispatcherStep
<1>2. CASE hold'[k] # hold[k]
  <2>1. /\ k \in djobs /\ status[k] = "RUNNING" /\ AfterAttempt(attempts[k]) = "DEAD"
        /\ hold[k] = "RESERVED" /\ hold'[k] = "RELEASED"
        /\ status'[k] = "DEAD" /\ attempts'[k] = attempts[k] + 1
    BY <1>2 DEF MarkRetry, TypeOK, DbTypeOK
  <2>2. MaxAttempts \in Nat \ {0} /\ attempts[k] \in Nat /\ attempts[k] < MaxAttempts
    BY <2>1, JobQueueAssumption DEF TypeOK, DbTypeOK, AttemptsWithinLimit, Live
  <2>3. attempts[k] + 1 = MaxAttempts
    BY <2>1, <2>2 DEF AfterAttempt
  <2> QED
    BY <2>1, <2>3 DEF LifeMove, Claimable, Lifecycle!Next, Lifecycle!Die
<1> QED
  BY <1>1, <1>2

LEMMA ReconcileLives ==
    ASSUME TypeOK, Reconcile, NEW k \in Jobs
    PROVE  LifeMove(k)
<1>1. Stays(k)
  BY DEF Reconcile, rowVars, Stays
<1>2. hold'[k] = IF hold[k] = "RESERVED" /\ aged[k] THEN ReconciledAs(status[k]) ELSE hold[k]
  BY DEF Reconcile
<1>3. CASE hold'[k] = hold[k]
  BY <1>1, <1>3 DEF LifeMove, Stays, Lifecycle!vars
<1>4. CASE hold'[k] # hold[k] /\ status[k] = "DONE"
  BY <1>1, <1>2, <1>4, HoldLives DEF ReconciledAs
<1>5. CASE hold'[k] # hold[k] /\ status[k] # "DONE"
  BY <1>1, <1>2, <1>5, HoldLives DEF ReconciledAs
<1> QED
  BY <1>3, <1>4, <1>5

LEMMA PassLives ==
    ASSUME TypeOK, AttemptsWithinLimit, NEW k \in Jobs,
           BeginPass \/ DispatcherStep \/ Reconcile \/ DispatcherFails
    PROVE  LifeMove(k)
<1>1. CASE MarkRetry \/ Reconcile
  BY <1>1, MarkRetryLives, ReconcileLives
<1>2. CASE ~MarkRetry /\ ~Reconcile
  <2>1. UNCHANGED hold
    BY <1>2 DEF BeginPass, DispatcherStep, DispatcherFails, ReadDue, PromoteJob, ReadOutbox,
       MarkDispatched, ReadDelayed, ReadPending, ReaddJob, TakeDelayed, RehydrateJob,
       DispatchRow, dbVars
  <2> QED
    BY <2>1, DispatcherMoves, RowLives
<1> QED
  BY <1>1, <1>2

LEMMA OutsideLives ==
    ASSUME Undisturbed, TypeOK, AttemptsWithinLimit, NoViewWrite, LifeInv, NEW k \in Jobs,
           Outside \/ Time
    PROVE  LifeMove(k)
<1>0. \A j \in Jobs : ~AdminRetry(j) /\ ~UserCancelWrite(j)
  BY NeverSpent DEF Undisturbed, AdminRetry, UserCancelWrite, NoViewWrite, Disturbances
<1>1. ASSUME NEW j \in Jobs, Enqueue(j)
      PROVE  LifeMove(k)
  <2>1. CASE k # j
    BY <1>1, <2>1 DEF Enqueue, TypeOK, DbTypeOK, LifeMove, Lifecycle!vars
  <2>2. CASE k = j
    <3>1. hold[j] = "none"
      BY <1>1 DEF Enqueue, LifeInv, NothingHeldYet
    <3>2. /\ status[j] = "none" /\ status'[j] = "QUEUED" /\ attempts'[j] = attempts[j]
          /\ hold'[j] = IF j \in Paid THEN "RESERVED" ELSE "none"
      BY <1>1, <3>1 DEF Enqueue, TypeOK, DbTypeOK
    <3> QED
      BY <2>2, <3>2 DEF LifeMove, Claimable, Lifecycle!Next, Lifecycle!Submit
  <2> QED
    BY <2>1, <2>2
<1>2. ASSUME NEW j \in Jobs, AdminRelease(j)
      PROVE  LifeMove(k)
  <2>1. status[j] = "CANCELLED"
    BY <1>2 DEF AdminRelease, LifeInv, ReleasesUnanswered
  <2> QED
    BY <1>2, <2>1, CloseHoldLives DEF AdminRelease, rowVars
<1>3. ASSUME NEW j \in Jobs, AdminCancel(j)
      PROVE  LifeMove(k)
  <2>1. UNCHANGED <<hold, attempts>>
    BY <1>3 DEF AdminCancel
  <2>2. QueueMove(k)
    BY <1>3, <2>1, SetStatusMoves
    DEF AdminCancel, CancelRow, QueueMove, Stays, Cancels, TypeOK
  <2> QED
    BY <2>1, <2>2, RowLives
<1>4. CASE \/ \E j \in Jobs : UserCancelRead(j)
           \/ RedisFlush \/ Time
  <2>1. UNCHANGED <<status, attempts, hold>>
    BY <1>4 DEF UserCancelRead, RedisFlush, Time, Age, BackoffEnds, SlotAges, LockExpires,
       dbVars, rowVars
  <2> QED
    BY <2>1 DEF LifeMove, Lifecycle!vars
<1> QED
  BY <1>0, <1>1, <1>2, <1>3, <1>4 DEF Outside

\* Every step moves every job as JobLifecycle allows, or not at all.
LEMMA StepLives ==
    ASSUME Undisturbed, TypeOK, AttemptsWithinLimit, NoViewWrite, LifeInv, [Next]_vars,
           NEW k \in Jobs
    PROVE  LifeMove(k)
<1>1. CASE UNCHANGED vars
  BY <1>1 DEF vars, dbVars, rowVars, LifeMove, Lifecycle!vars
<1>2. CASE Next
  BY <1>2, WorkerLives, PassLives, OutsideLives DEF Next
<1> QED
  BY <1>1, <1>2

\* An outcome stays, and no row goes back to where it was before its enqueue.
LEMMA OutcomeKept ==
    ASSUME Undisturbed, TypeOK, NoViewWrite, [Next]_vars, NEW j \in Jobs
    PROVE  /\ status[j] \in Finished => status'[j] = status[j]
           /\ status'[j] = "none" => status[j] = "none"
<1>1. RowMove(j) /\ ~Overwrites(j)
  BY StepMovesRow DEF Overwrites, NoViewWrite
<1>2. ~Reopens(j)
  <2>1. SUFFICES ASSUME Reopens(j)
                 PROVE  FALSE
    OBVIOUS
  <2>2. spent["reopen"] \in Nat /\ spent'["reopen"] = spent["reopen"] + 1
    BY <2>1 DEF Reopens, TypeOK, OutsideTypeOK, Disturbances
  <2>3. TypeOK'
    BY NextType
  <2>4. Limit["reopen"] = 0 /\ <<j, spent'["reopen"]>> \in outbox'
    BY <2>1 DEF Reopens, Undisturbed, Never
  <2>5. spent'["reopen"] \in 0 .. 0
    BY <2>3, <2>4 DEF TypeOK, DbTypeOK, OutboxRow
  <2> QED
    BY <2>2, <2>5
<1> QED
  BY <1>1, <1>2 DEF RowMove, QueueMove, Stays, Enters, Starts, Stops, Fails, Cancels,
     AfterAttempt, Finished, Live, Claimable

\* How a loop comes to charge, and how it comes to release.
LEMMA ComesToClose ==
    ASSUME TypeOK, [Next]_vars, NEW w \in Workers,
           pc'[w] \in {"settle", "release"}
    PROVE  \/ pc'[w] = pc[w] /\ msg'[w] = msg[w]
           \/ FinishJob(w) /\ pc'[w] = "settle"
           \/ (CancelRun(w) \/ FailFinal(w) \/ FailJob(w) \/ StepFails(w)) /\ pc'[w] = "release"
<1>1. ASSUME NEW v \in Workers, v # w,
             Read(v) \/ Reclaim(v) \/ WorkerStep(v) \/ WorkerFault(v)
      PROVE  pc'[w] = pc[w] /\ msg'[w] = msg[w]
  BY <1>1 DEF Read, Reclaim, WorkerStep, WorkerFault, ClaimJob, AcquireLock, TakeSlot,
     RefuseSlot, DelayJob, ZAdd, FinishJob, Settle, CancelRun, FailFinal, FailJob, FailRun,
     Release, Ack, Leave, LeaveSlotAndLock, Recover, StepFails, StepAborts,
     LockAnswerLost, Shutdown, Crash, Stall, Rest, Goto, TypeOK, WorkerTypeOK
<1>2. CASE FinishJob(w)
  BY <1>2 DEF FinishJob, Goto, TypeOK, WorkerTypeOK
<1>3. CASE CancelRun(w) \/ FailFinal(w) \/ FailJob(w) \/ StepFails(w)
  <2>1. PICK step : Goto(w, step) /\ step # "settle"
    BY <1>3 DEF CancelRun, FailFinal, FailJob, StepFails, FailRun, AfterFail
  <2> QED
    BY <1>3, <2>1 DEF Goto, TypeOK, WorkerTypeOK
<1>4. CASE \/ Read(w) \/ Reclaim(w) \/ ClaimJob(w) \/ AcquireLock(w) \/ TakeSlot(w)
           \/ RefuseSlot(w) \/ DelayJob(w) \/ ZAdd(w) \/ Settle(w) \/ Release(w) \/ Ack(w)
           \/ Leave(w) \/ StepAborts(w) \/ LockAnswerLost(w) \/ Shutdown(w) \/ Crash(w)
  <2>1. PICK step : Goto(w, step) /\ step \notin {"settle", "release"}
    BY <1>4 DEF Read, Reclaim, ClaimJob, AcquireLock, TakeSlot, RefuseSlot, DelayJob, ZAdd,
       Settle, Release, Ack, Leave, StepAborts, LockAnswerLost, Shutdown, Crash,
       LeaveSlotAndLock, Rest
  <2> QED
    BY <2>1 DEF Goto, TypeOK, WorkerTypeOK
<1>5. CASE Stall(w) \/ Recover(w)
  BY <1>5 DEF Stall, Recover
<1>6. CASE \/ BeginPass \/ DispatcherStep \/ Reconcile \/ DispatcherFails
           \/ Outside \/ Time \/ UNCHANGED vars
  BY <1>6 DEF BeginPass, DispatcherStep, Reconcile, DispatcherFails, MarkRetry,
     ReadDue, PromoteJob, ReadOutbox, MarkDispatched, ReadDelayed, ReadPending,
     ReaddJob, TakeDelayed, RehydrateJob, DispatchRow, Outside, Enqueue, AdminRetry,
     AdminCancel, AdminRelease, UserCancelRead, UserCancelWrite, RedisFlush, Time, Age,
     BackoffEnds, SlotAges, LockExpires, workerVars, vars
<1> QED
  BY <1>1, <1>2, <1>3, <1>4, <1>5, <1>6 DEF Next, WorkerStep, WorkerFault

LEMMA LifeInvStep ==
    ASSUME Undisturbed, TypeOK, AttemptsWithinLimit, NoViewWrite, RunInv, LifeInv, [Next]_vars
    PROVE  LifeInv'
<1>0. \A w \in Workers : pc[w] # "idle" => JobOf(w) \in Jobs
  BY JobInHand DEF TypeOK
<1>1. ASSUME NEW w \in Workers, pc[w] \in {"settle", "release"}, pc'[w] = pc[w],
             msg'[w] = msg[w]
      PROVE  status'[JobOf(w)'] = status[JobOf(w)]
  <2>1. JobOf(w)' = JobOf(w) /\ JobOf(w) \in Jobs
    BY <1>0, <1>1 DEF JobOf
  <2>2. status[JobOf(w)] \in Finished
    BY <1>1 DEF LifeInv, ChargesAnswers, ReleasesUnanswered, Finished
  <2> QED
    BY <2>1, <2>2, OutcomeKept
<1>2. ASSUME NEW w \in Workers, FinishJob(w) \/ CancelRun(w) \/ FailFinal(w) \/ FailJob(w)
      PROVE  /\ JobOf(w) \in Jobs
             /\ JobOf(w)' = JobOf(w)
             /\ status[JobOf(w)] \in {"RUNNING", "CANCELLED"}
  BY <1>0, <1>2 DEF RunInv, OwnersHaveTheRow, Owns, JobOf, FinishJob, CancelRun, FailFinal,
     FailJob, FailRun
<1>3. ChargesAnswers'
  <2>1. SUFFICES ASSUME NEW w \in Workers, pc'[w] = "settle"
                 PROVE  status'[JobOf(w)'] \in {"DONE", "CANCELLED"}
    BY DEF ChargesAnswers
  <2>2. CASE pc'[w] = pc[w] /\ msg'[w] = msg[w]
    BY <1>1, <2>1, <2>2 DEF LifeInv, ChargesAnswers
  <2>3. CASE FinishJob(w)
    BY <1>2, <2>3 DEF FinishJob, FinishRow, SetStatus, TypeOK, DbTypeOK, rowVars
  <2> QED
    BY <2>1, <2>2, <2>3, ComesToClose
<1>4. ASSUME NEW w \in Workers, pc'[w] = "release"
      PROVE  status'[JobOf(w)'] \in {"FAILED", "DEAD", "CANCELLED"}
  <2>1. CASE pc'[w] = pc[w] /\ msg'[w] = msg[w]
    BY <1>1, <1>4, <2>1 DEF LifeInv, ReleasesUnanswered
  <2>2. CASE CancelRun(w)
    BY <1>2, <2>2, OutcomeKept DEF CancelRun, Finished
  <2>3. CASE FailFinal(w)
    BY <1>2, <2>3 DEF FailFinal, FailFinalRow, SetStatus, TypeOK, DbTypeOK, rowVars
  <2>4. CASE FailJob(w)
    <3>1. status[JobOf(w)] = "RUNNING" /\ AfterAttempt(attempts[JobOf(w)]) = "DEAD"
      BY <1>4, <2>4 DEF FailJob, FailRun, AfterFail, Goto, TypeOK, WorkerTypeOK
    <3>2. SetStatus(JobOf(w), {"RUNNING"}, "DEAD")
      BY <2>4, <3>1 DEF FailJob, FailRun, FailRow
    <3> QED
      BY <1>2, <2>4, <3>1, <3>2 DEF SetStatus, TypeOK, DbTypeOK
  <2>5. ~StepFails(w)
    BY NeverSpent DEF StepFails, Undisturbed, Disturbances
  <2> QED
    BY <1>4, <2>1, <2>2, <2>3, <2>4, <2>5, ComesToClose
<1>5. ASSUME NEW j \in adminRelease'
      PROVE  status'[j] = "CANCELLED"
  <2>1. CASE j \in adminRelease
    <3>1. j \in Jobs
      BY <2>1 DEF TypeOK, OutsideTypeOK
    <3> QED
      BY <2>1, <3>1, OutcomeKept DEF LifeInv, ReleasesUnanswered, Finished
  <2>2. CASE j \notin adminRelease
    <3>1. j \in Jobs /\ AdminCancel(j)
      BY <1>5, <2>2 DEF Next, Read, Reclaim, WorkerStep, WorkerFault, ClaimJob, AcquireLock,
         TakeSlot, RefuseSlot, DelayJob, ZAdd, FinishJob, Settle, CancelRun, FailFinal,
         FailJob, FailRun, Release, Ack, Leave, Recover, StepFails, StepAborts,
         LockAnswerLost, Shutdown, Crash, Stall, BeginPass, DispatcherStep, Reconcile,
         DispatcherFails, MarkRetry, ReadDue, PromoteJob, ReadOutbox, MarkDispatched,
         ReadDelayed, ReadPending, ReaddJob, TakeDelayed, RehydrateJob, DispatchRow,
         Outside, Enqueue, AdminRetry, AdminCancel, AdminRelease, UserCancelRead,
         UserCancelWrite, RedisFlush, Time, Age, BackoffEnds, SlotAges, LockExpires,
         outsideVars, vars
    <3> QED
      BY <3>1 DEF AdminCancel, CancelRow, SetStatus, TypeOK, DbTypeOK
  <2> QED
    BY <2>1, <2>2
<1>6. ASSUME NEW j \in Jobs, status'[j] = "none"
      PROVE  hold'[j] = "none"
  <2>1. status[j] = "none" /\ hold[j] = "none"
    BY <1>6, OutcomeKept DEF LifeInv, NothingHeldYet
  <2>2. LifeMove(j)
    BY StepLives
  <2> QED
    BY <1>6, <2>1, <2>2 DEF LifeMove, Claimable, Lifecycle!Next, Lifecycle!vars,
       Lifecycle!Submit, Lifecycle!Start, Lifecycle!HandBack, Lifecycle!Retry, Lifecycle!Die,
       Lifecycle!Answer, Lifecycle!Cancel, Lifecycle!Charge, Lifecycle!Refund
<1> QED
  BY <1>3, <1>4, <1>5, <1>6 DEF LifeInv, ReleasesUnanswered, NothingHeldYet

\* Each job lives the life JobLifecycle allows: one outcome, one charge or one
\* refund that fits it, an attempt for every failed run; however many loops,
\* crashes, failed passes, flushes and operators' cancels there are.
THEOREM LivesTheLifecycle ==
    ASSUME Undisturbed
    PROVE  Spec => ImplementsLifecycle
<1>1. Init => LifeInv /\ NoViewWrite
  BY DEF Init, LifeInv, ChargesAnswers, ReleasesUnanswered, NothingHeldYet, NoViewWrite
<1>2. TypeOK /\ AttemptsWithinLimit /\ NoViewWrite /\ RunInv /\ LifeInv /\ [Next]_vars => LifeInv'
  BY LifeInvStep
<1>3. TypeOK /\ NoViewWrite /\ [Next]_vars => NoViewWrite'
  BY NoViewWriteStep DEF Undisturbed, Never
<1>4. Init => \A j \in Jobs : Lifecycle(j)!Init
  BY DEF Init, Claimable, Lifecycle!Init
<1>5. TypeOK /\ AttemptsWithinLimit /\ NoViewWrite /\ LifeInv /\ [Next]_vars
        => [\A j \in Jobs : Lifecycle(j)!Next \/ UNCHANGED Lifecycle(j)!vars]_vars
  BY StepLives DEF LifeMove
<1>6. Spec => []RunInv
  BY RunInvHolds DEF Undisturbed
<1> QED
  BY <1>1, <1>2, <1>3, <1>4, <1>5, <1>6, TypeCorrect, AttemptsBounded, PTL
  DEF Spec, ImplementsLifecycle

-----------------------------------------------------------------------------
(***************************************************************************)
(* Slots.  The runs that hold a slot are of different jobs, each a member  *)
(* of the set try_slot counted.                                            *)
(***************************************************************************)

SlotsInv ==
    /\ IsFiniteSet(slots)
    /\ IsFiniteSet(SlotHolders)
    /\ Cardinality(SlotHolders) <= UserSlots

\* Whoever is in its handler after a step was there before, with the same job,
\* or has just been let in by try_slot.
LEMMA HandlerFrame ==
    ASSUME Never("stall"), Never("error"), Never("stop"), TypeOK, RunInv, [Next]_vars,
           NEW v \in Workers, InHandler(v)'
    PROVE  \/ InHandler(v) /\ JobOf(v)' = JobOf(v)
           \/ TakeSlot(v) /\ ~OverLimit(slots')
<1>0. healthy[v] /\ pc'[v] = "run"
  BY DEF RunInv, AllBeat, InHandler
<1>1. CASE UNCHANGED <<pc, msg>>
  BY <1>0, <1>1 DEF InHandler, JobOf
<1>2. CASE ~UNCHANGED <<pc, msg>>
  <2>1. PICK u \in Workers : Read(u) \/ Reclaim(u) \/ WorkerStep(u) \/ WorkerFault(u)
    BY <1>2 DEF vars, Next, BeginPass, DispatcherStep, Reconcile, DispatcherFails, MarkRetry,
       ReadDue, PromoteJob, ReadOutbox, MarkDispatched, ReadDelayed, ReadPending,
       ReaddJob, TakeDelayed, RehydrateJob, DispatchRow, Outside, Enqueue, AdminRetry,
       AdminCancel, AdminRelease, UserCancelRead, UserCancelWrite, RedisFlush, Time,
       Age, BackoffEnds, SlotAges, LockExpires, workerVars
  <2>2. ~(StepFails(u) \/ StepAborts(u) \/ LockAnswerLost(u) \/ Shutdown(u) \/ Stall(u))
    BY NeverSpent DEF StepFails, StepAborts, LockAnswerLost, Shutdown, Stall, Disturbances
  <2>3. ~Recover(u)
    BY DEF Recover, RunInv, AllBeat
  <2>4. CASE u # v
    <3>1. \E step, m : pc' = [pc EXCEPT ![u] = step] /\ msg' = [msg EXCEPT ![u] = m]
      <4>1. msg = [msg EXCEPT ![u] = msg[u]]
        BY DEF TypeOK, WorkerTypeOK
      <4> QED
        BY <2>1, <2>2, <2>3, <4>1
        DEF WorkerStep, WorkerFault, Read, Reclaim, ClaimJob, AcquireLock, TakeSlot, RefuseSlot,
           DelayJob, ZAdd, FinishJob, Settle, CancelRun, FailFinal, FailJob, FailRun, Release,
           Ack, Leave, LeaveSlotAndLock, Crash, Rest, Goto
    <3>2. pc'[v] = pc[v] /\ msg'[v] = msg[v]
      BY <2>4, <3>1 DEF TypeOK, WorkerTypeOK
    <3> QED
      BY <1>0, <3>2 DEF InHandler, JobOf
  <2>5. CASE u = v
    <3>1. TakeSlot(v)
      BY <1>0, <2>1, <2>2, <2>3, <2>5
      DEF WorkerStep, WorkerFault, Read, Reclaim, ClaimJob, AcquireLock, RefuseSlot,
         DelayJob, ZAdd, FinishJob, Settle, CancelRun, FailFinal, FailJob, FailRun, AfterFail,
         Release, Ack, Leave, LeaveSlotAndLock, Crash, Rest, Goto, TypeOK, WorkerTypeOK
    <3> QED
      BY <1>0, <3>1 DEF TakeSlot, Goto, TypeOK, WorkerTypeOK
  <2> QED
    BY <2>4, <2>5
<1> QED
  BY <1>1, <1>2

\* Who writes the set of slots.
LEMMA SlotsFrame ==
    ASSUME Never("error"), Never("stop"), TypeOK, [Next]_vars
    PROVE  \/ slots' = slots
           \/ \E w \in Workers : TakeSlot(w) \/ RefuseSlot(w) \/ Leave(w)
           \/ \E j \in Jobs : SlotAges(j)
           \/ RedisFlush
<1>1. ASSUME NEW u \in Workers, StepFails(u) \/ StepAborts(u) \/ LockAnswerLost(u) \/ Shutdown(u)
      PROVE  FALSE
  BY <1>1, NeverSpent DEF StepFails, StepAborts, LockAnswerLost, Shutdown, Disturbances
<1> QED
  BY <1>1 DEF vars, redisVars, Next, BeginPass, DispatcherStep, Reconcile, DispatcherFails,
     MarkRetry, ReadDue, PromoteJob, ReadOutbox, MarkDispatched, ReadDelayed, ReadPending,
     ReaddJob, TakeDelayed, RehydrateJob, DispatchRow, Outside, Enqueue, AdminRetry,
     AdminCancel, AdminRelease, UserCancelRead, UserCancelWrite, Time, Age, BackoffEnds,
     LockExpires, WorkerStep, WorkerFault, Read, Reclaim, ClaimJob, AcquireLock, DelayJob,
     ZAdd, FinishJob, Settle, CancelRun, FailFinal, FailJob, Release, Ack, Recover, Crash,
     Stall

LEMMA SlotsShrinkOrGrow ==
    ASSUME Never("error"), Never("stop"), TypeOK, [Next]_vars, IsFiniteSet(slots)
    PROVE  IsFiniteSet(slots')
<1>1. ASSUME NEW w \in Workers, TakeSlot(w)
      PROVE  IsFiniteSet(slots')
  BY <1>1, FS_AddElement DEF TakeSlot
<1>2. CASE slots' \subseteq slots
  BY <1>2, FS_Subset
<1>3. \/ \E w \in Workers : TakeSlot(w)
      \/ slots' \subseteq slots
  BY SlotsFrame DEF RefuseSlot, Leave, LeaveSlotAndLock, SlotAges, RedisFlush
<1> QED
  BY <1>1, <1>2, <1>3

LEMMA SlotsInvStep ==
    ASSUME Never("stall"), Never("error"), Never("stop"),
           TypeOK, RunInv, RunInv', SlotsInv, [Next]_vars
    PROVE  SlotsInv'
<1>1. IsFiniteSet(slots')
  BY SlotsShrinkOrGrow DEF SlotsInv
<1>2. CASE \E w \in Workers : TakeSlot(w) /\ ~OverLimit(slots')
  <2> DEFINE f == [v \in SlotHolders' |-> JobOf(v)']
  <2>1. ~OverLimit(slots') /\ UserSlots \in Nat
    BY <1>2, JobQueueAssumption
  <2>2. Cardinality(slots') \in Nat /\ Cardinality(slots') <= UserSlots
    BY <1>1, <2>1, FS_CardinalityType DEF OverLimit
  <2>3. \A v \in SlotHolders' : JobOf(v)' \in slots'
    BY DEF SlotHolders
  <2>4. \A u, v \in SlotHolders' : JobOf(u)' = JobOf(v)' => u = v
    BY DEF SlotHolders, InHandler, Owns, RunInv, OwnersApart
  <2>5. f \in Injection(SlotHolders', slots')
    BY <2>3, <2>4, Zenon DEF Injection, IsInjective
  <2>6. IsFiniteSet(SlotHolders') /\ Cardinality(SlotHolders') <= Cardinality(slots')
    BY <1>1, <2>5, FS_Injection
  <2>7. Cardinality(SlotHolders') \in Nat
    BY <2>6, FS_CardinalityType
  <2> QED
    BY <1>1, <2>1, <2>2, <2>6, <2>7 DEF SlotsInv
<1>3. CASE ~\E w \in Workers : TakeSlot(w) /\ ~OverLimit(slots')
  <2>1. ASSUME NEW v \in SlotHolders'
        PROVE  v \in SlotHolders
    <3>1. v \in Workers /\ InHandler(v)' /\ JobOf(v)' \in slots'
      BY DEF SlotHolders
    <3>2. InHandler(v) /\ JobOf(v)' = JobOf(v)
      BY <1>3, <3>1, HandlerFrame
    <3>3. ASSUME NEW w \in Workers, TakeSlot(w)
          PROVE  JobOf(w) # JobOf(v)
      BY <3>1, <3>2, <3>3 DEF TakeSlot, InHandler, Owns, RunInv, OwnersApart
    <3>4. JobOf(v) \in slots
      BY <3>1, <3>2, <3>3, SlotsFrame
      DEF TakeSlot, RefuseSlot, Leave, LeaveSlotAndLock, SlotAges, RedisFlush
    <3> QED
      BY <3>1, <3>2, <3>4 DEF SlotHolders
  <2>2. SlotHolders' \in SUBSET SlotHolders
    BY <2>1
  <2>3. /\ IsFiniteSet(SlotHolders')
        /\ Cardinality(SlotHolders') <= Cardinality(SlotHolders)
    BY <2>2, FS_Subset DEF SlotsInv
  <2>4. Cardinality(SlotHolders) \in Nat /\ Cardinality(SlotHolders') \in Nat
    BY <2>3, FS_CardinalityType DEF SlotsInv
  <2> QED
    BY <1>1, <2>3, <2>4, JobQueueAssumption DEF SlotsInv
<1> QED
  BY <1>2, <1>3

\* A run keeps its slot, but for a loop that leaves the same job late.
LEMMA SlotIsKept ==
    ASSUME Never("stall"), Never("error"), Never("stop"), Never("flush"),
           TypeOK, RunInv, [Next]_vars, NEW w \in SlotHolders, InHandler(w)'
    PROVE  \/ w \in SlotHolders'
           \/ \E v \in Workers \ {w} : pc[v] = "leave" /\ slotted[v] /\ JobOf(v) = JobOf(w)
<1>1. w \in Workers /\ InHandler(w) /\ JobOf(w) \in slots
  BY DEF SlotHolders
<1>2. JobOf(w)' = JobOf(w)
  BY <1>1, HandlerFrame DEF InHandler, TakeSlot
<1>3. CASE JobOf(w) \in slots'
  BY <1>1, <1>2, <1>3 DEF SlotHolders
<1>4. CASE JobOf(w) \notin slots'
  <2>1. ~RedisFlush
    BY NeverSpent DEF RedisFlush, Disturbances
  <2>2. ASSUME NEW j \in Jobs, SlotAges(j)
        PROVE  JobOf(w) \in slots'
    BY <1>1, <2>2 DEF SlotAges, KeepsAlive, InHandler
  <2>3. ASSUME NEW v \in Workers, TakeSlot(v) \/ RefuseSlot(v)
        PROVE  JobOf(w) \in slots'
    BY <1>1, <2>3 DEF TakeSlot, RefuseSlot, InHandler, Owns, RunInv, OwnersApart
  <2>4. PICK v \in Workers : Leave(v)
    BY <1>1, <1>4, <2>1, <2>2, <2>3, SlotsFrame
  <2>5. pc[v] = "leave" /\ slotted[v] /\ JobOf(v) = JobOf(w)
    BY <1>1, <1>4, <2>4 DEF Leave, LeaveSlotAndLock
  <2>6. v # w
    BY <1>1, <2>5 DEF InHandler
  <2> QED
    BY <2>5, <2>6
<1> QED
  BY <1>3, <1>4

LEMMA SlotsInvInit == Init => SlotsInv
<1>1. ASSUME Init
      PROVE  slots = {} /\ SlotHolders = {}
  BY <1>1 DEF Init, SlotHolders, InHandler
<1> QED
  BY <1>1, FS_EmptySet, JobQueueAssumption DEF SlotsInv

\* While heartbeats work, no call of a loop raises or is cut off and Redis keeps
\* its data, no more runs of a user hold a slot than there are, and a run keeps
\* its slot to its end, but for the loop that leaves the same job late; crashes,
\* redeliveries, passes, reopens and cancels may come at any moment.
THEOREM SlotsBound ==
    ASSUME Never("stall"), Never("error"), Never("stop"), Never("flush")
    PROVE  Spec => RunsWithinSlots
<1>1. TypeOK /\ RunInv /\ RunInv' /\ SlotsInv /\ [Next]_vars => SlotsInv'
  BY SlotsInvStep
<1>2. SlotsInv => Cardinality(SlotHolders) <= UserSlots
  BY DEF SlotsInv
<1>3. TypeOK /\ RunInv /\ [Next]_vars
        => [\A w \in SlotHolders :
               InHandler(w)' =>
                  \/ w \in SlotHolders'
                  \/ \E v \in Workers \ {w} :
                        pc[v] = "leave" /\ slotted[v] /\ JobOf(v) = JobOf(w)]_vars
  BY SlotIsKept
<1> QED
  BY <1>1, <1>2, <1>3, SlotsInvInit, RunInvHolds, TypeCorrect, PTL DEF Spec, RunsWithinSlots

=============================================================================
