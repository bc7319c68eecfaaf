------------------------------ MODULE JobQueue ------------------------------
(***************************************************************************)
(* The background-job queue of push-be: the rows of ai_jobs, outbox and    *)
(* credit_reservations in Postgres, the Redis streams that carry job ids,  *)
(* the loops of the Python workers that run the jobs, and the dispatcher   *)
(* that feeds the streams and repairs what crashes leave behind.           *)
(*                                                                         *)
(* Every Postgres statement is one step, because each runs in its own      *)
(* transaction; every Redis command is one step.  Between two steps of one *)
(* process any other process may move, crash or stall.                     *)
(*                                                                         *)
(* Wall-clock limits are abstracted to "this long has passed": aged[j]     *)
(* says the limit that applies to the job's present status is over since   *)
(* its last update (heartbeat limit while RUNNING, visibility limit while  *)
(* QUEUED or RETRY, RECONCILE_AFTER_S once finished).  The loop of a       *)
(* worker whose heartbeat works keeps its job, lock and slot from ageing.  *)
(***************************************************************************)
EXTENDS Integers, FiniteSets

CONSTANTS
    Jobs,           \* job ids; all belong to one user, hence one slot scope
    Workers,        \* the _loop tasks of all worker processes
    Conversations,  \* conversations that have a lock key
    ConvOf,         \* conversation of each job, or NoConv
    Paid,           \* the jobs whose type has an estimate above zero
    MaxAttempts,    \* ai_jobs.max_attempts
    UserSlots,      \* jobs of the user that may run at once
    MaxMsgs,        \* bound: stream entries of one job alive at once
    Limit,          \* bound: how often each kind of disturbance may happen
    NoConv, NoJob, NoMsg, Nobody, Orphan

\* The disturbances Limit bounds: a worker is killed, asked to stop, or stops
\* heartbeating; a call of a worker raises; the dispatcher dies or a call of it
\* raises; Redis loses its data; an operator reopens or cancels a job; the user
\* cancels one.
Disturbances == {"crash", "stop", "stall", "error", "dispatcher", "flush",
                 "reopen", "adminCancel", "userCancel"}

ASSUME JobQueueAssumption ==
    /\ MaxAttempts \in Nat \ {0}
    /\ UserSlots \in Nat \ {0}
    /\ MaxMsgs \in Nat \ {0}
    /\ Limit \in [Disturbances -> Nat]
    /\ Paid \subseteq Jobs
    /\ NoConv \notin Conversations
    /\ ConvOf \in [Jobs -> Conversations \cup {NoConv}]
    /\ NoJob \notin Jobs
    /\ Nobody \notin Workers /\ Orphan \notin Workers /\ Nobody # Orphan

Claimable == {"QUEUED", "RETRY"}
Live      == Claimable \cup {"RUNNING"}
Finished  == {"DONE", "FAILED", "DEAD", "CANCELLED"}
JobStatus == {"none"} \cup Live \cup Finished

\* An outbox row: the job, and how many reopens there had been when it was
\* inserted (0 for the row the enqueue wrote).
OutboxRow == Jobs \X (0 .. Limit["reopen"])

\* A stream entry carries a job id.  An entry number is used again once the
\* entry is acknowledged and no worker holds it.
Message == [job : Jobs, no : 1 .. MaxMsgs]

\* A worker loop: waiting, holding a read message, after the claim, after the
\* conversation lock, over the slot limit, in the handler, before settle,
\* before release, before release_claim, before ZADD, before XACK, and in the
\* finally blocks.
WorkerPC == {"idle", "got", "claimed", "slot", "refused", "run", "settle",
             "release", "delay", "zadd", "ack", "leave"}

\* The phases of one dispatcher pass.
DispatcherPC == {"idle", "requeue", "readd", "promote", "outbox",
                 "lost", "pending", "rehydrate"}

VARIABLES
    status, attempts, aged,     \* ai_jobs
    claimant,                   \* the loop whose claim made the row RUNNING: a
                                \* history the code keeps nowhere
    hold,                       \* credit_reservations.status
    outbox,                     \* rows with dispatched_at IS NULL
    stream, unacked,            \* entries not yet read; entries read, not acked
    delayed,                    \* the q:delayed sorted set
    lock,                       \* lock:conversation:<id>
    slots,                      \* slots:user:<id>
    pc, msg, slotted, caught, healthy,      \* the worker loops
    dpc, djobs, drows, dbatch, dcur,        \* the dispatcher
    adminRelease,               \* jobs cancelled by an operator, release to come
    viewWrite,                  \* user cancels between reading and writing
    spent                       \* disturbances so far

rowVars        == <<status, aged, claimant>>
dbVars         == <<rowVars, attempts, hold, outbox>>
redisVars      == <<stream, unacked, delayed, lock, slots>>
workerVars     == <<pc, msg, slotted, caught, healthy>>
dispatcherVars == <<dpc, djobs, drows, dbatch, dcur>>
outsideVars    == <<adminRelease, viewWrite>>
vars == <<dbVars, redisVars, workerVars, dispatcherVars, outsideVars, spent>>

DbTypeOK ==
    /\ status \in [Jobs -> JobStatus]
    /\ aged \in [Jobs -> BOOLEAN]
    /\ claimant \in [Jobs -> Workers \cup {Nobody}]
    /\ attempts \in [Jobs -> Nat]
    /\ hold \in [Jobs -> {"none", "RESERVED", "SETTLED", "RELEASED"}]
    /\ outbox \subseteq OutboxRow

RedisTypeOK ==
    /\ stream \subseteq Message
    /\ unacked \subseteq Message
    /\ delayed \in [Jobs -> {"no", "waiting", "due"}]
    /\ lock \in [Conversations -> Workers \cup {Nobody, Orphan}]
    /\ slots \subseteq Jobs

WorkerTypeOK ==
    /\ pc \in [Workers -> WorkerPC]
    /\ msg \in [Workers -> Message \cup {NoMsg}]
    /\ \A w \in Workers : pc[w] # "idle" => msg[w] \in Message
    /\ slotted \in [Workers -> BOOLEAN]
    /\ caught \in [Workers -> BOOLEAN]
    /\ healthy \in [Workers -> BOOLEAN]

DispatcherTypeOK ==
    /\ dpc \in DispatcherPC
    /\ djobs \subseteq Jobs
    /\ drows \subseteq OutboxRow
    /\ dbatch \subseteq OutboxRow
    /\ dcur \in Jobs \cup {NoJob}

OutsideTypeOK ==
    /\ adminRelease \subseteq Jobs
    /\ viewWrite \in [Jobs -> Nat \cup {-1}]
    /\ spent \in [Disturbances -> Nat]

\* Every variable stays in its domain; the statuses are those of the CHECK
\* constraints of ai_jobs and credit_reservations.
TypeOK ==
    DbTypeOK /\ RedisTypeOK /\ WorkerTypeOK /\ DispatcherTypeOK /\ OutsideTypeOK

Init ==
    /\ status = [j \in Jobs |-> "none"]
    /\ attempts = [j \in Jobs |-> 0]
    /\ aged = [j \in Jobs |-> FALSE]
    /\ claimant = [j \in Jobs |-> Nobody]
    /\ hold = [j \in Jobs |-> "none"]
    /\ outbox = {}
    /\ stream = {}
    /\ unacked = {}
    /\ delayed = [j \in Jobs |-> "no"]
    /\ lock = [c \in Conversations |-> Nobody]
    /\ slots = {}
    /\ pc = [w \in Workers |-> "idle"]
    /\ msg = [w \in Workers |-> NoMsg]
    /\ slotted = [w \in Workers |-> FALSE]
    /\ caught = [w \in Workers |-> FALSE]
    /\ healthy = [w \in Workers |-> TRUE]
    /\ dpc = "idle"
    /\ djobs = {}
    /\ drows = {}
    /\ dbatch = {}
    /\ dcur = NoJob
    /\ adminRelease = {}
    /\ viewWrite = [j \in Jobs |-> -1]
    /\ spent = [d \in Disturbances |-> 0]

Spend(d) ==
    /\ spent[d] < Limit[d]
    /\ spent' = [spent EXCEPT ![d] = @ + 1]

JobOf(w) == msg[w].job

\* Worker w works on job j and its heartbeat gets through.
KeepsAlive(w, j) == pc[w] \notin {"idle", "got"} /\ healthy[w] /\ JobOf(w) = j

InHandler(w) == pc[w] = "run" /\ healthy[w]

-----------------------------------------------------------------------------
(***************************************************************************)
(* Postgres statements on one job.  Each changes status, attempts and the  *)
(* age of the row only while the row is in the statuses of its WHERE.      *)
(***************************************************************************)

\* UPDATE ... SET status = s WHERE id = j AND status IN from
SetStatus(j, from, s) ==
    IF status[j] \in from
    THEN /\ status' = [status EXCEPT ![j] = s]
         /\ aged' = [aged EXCEPT ![j] = FALSE]
         /\ claimant' = [claimant EXCEPT ![j] = Nobody]
    ELSE UNCHANGED rowVars

\* The status a failed or lost run leaves, given the attempts before it.
AfterAttemptOffByOne(n) == IF n + 1 > MaxAttempts THEN "DEAD" ELSE "RETRY"
AfterAttempt(n) == IF n + 1 >= MaxAttempts THEN "DEAD" ELSE "RETRY"

\* worker_claim's WHERE.
ClaimsRunning(j) == status[j] \in Live
Claims(j) == status[j] \in Claimable

Claim(j, w) ==
    IF Claims(j)
    THEN /\ status' = [status EXCEPT ![j] = "RUNNING"]
         /\ aged' = [aged EXCEPT ![j] = FALSE]
         /\ claimant' = [claimant EXCEPT ![j] = w]
    ELSE UNCHANGED rowVars

\* worker_release; the mutations use the status the old table had, and forget
\* the WHERE.
ReleaseClaimAsPending(j) == SetStatus(j, {"RUNNING"}, "PENDING")
ReleaseClaimOfAny(j) == SetStatus(j, JobStatus, "QUEUED")
ReleaseClaim(j) == SetStatus(j, {"RUNNING"}, "QUEUED")

FinishRow(j) == SetStatus(j, {"RUNNING"}, "DONE")

FailFinalAnyRow(j) == SetStatus(j, JobStatus, "FAILED")
FailFinalRow(j) == SetStatus(j, {"RUNNING"}, "FAILED")

CancelRow(j) == SetStatus(j, Live, "CANCELLED")

FailRow(j) ==
    /\ SetStatus(j, {"RUNNING"}, AfterAttempt(attempts[j]))
    /\ attempts' = IF status[j] = "RUNNING"
                   THEN [attempts EXCEPT ![j] = @ + 1] ELSE attempts

\* settle_job and release_job: only a RESERVED reservation is closed.
CloseHold(j, as) ==
    hold' = IF hold[j] = "RESERVED" THEN [hold EXCEPT ![j] = as] ELSE hold

\* AdminJobs.retry's second statement.
ReserveAgain(j) ==
    hold' = IF hold[j] = "RELEASED" THEN [hold EXCEPT ![j] = "RESERVED"] ELSE hold

\* How reconcile_credits closes the reservation of a row in status s.
ReconcileSettlesAll(s) == IF s \in Finished THEN "SETTLED" ELSE "RESERVED"
ReconcileOnlyDone(s) == IF s = "DONE" THEN "SETTLED" ELSE "RESERVED"
ReconciledAs(s) ==
    CASE s = "DONE" -> "SETTLED"
      [] s \in {"FAILED", "DEAD", "CANCELLED"} -> "RELEASED"
      [] OTHER -> "RESERVED"

\* running_jobs less those whose heartbeat is within its limit.
AnyRunning == {j \in Jobs : status[j] = "RUNNING"}
StaleRunning == {j \in Jobs : status[j] = "RUNNING" /\ aged[j]}

\* pending_jobs less those within their visibility limit.
OnlyQueued == {j \in Jobs : status[j] = "QUEUED" /\ aged[j]}
StalePending == {j \in Jobs : status[j] \in Claimable /\ aged[j]}

-----------------------------------------------------------------------------
(***************************************************************************)
(* Redis.                                                                  *)
(***************************************************************************)

\* Entries of j whose number is free.
FreeMessages(j) ==
    {m \in Message : /\ m.job = j
                     /\ m \notin stream \cup unacked
                     /\ \A w \in Workers : msg[w] # m}

\* XADD: the entry takes the lowest free number of its job.
Add(j) ==
    \E m \in FreeMessages(j) :
        /\ \A n \in FreeMessages(j) : m.no <= n.no
        /\ stream' = stream \cup {m}

\* Jobs with an entry still to be read or acked.
LiveJobIds == {m.job : m \in stream \cup unacked}

DropAnyLock(w) == [c \in Conversations |-> IF c = ConvOf[JobOf(w)] THEN Nobody ELSE lock[c]]
DropLock(w) == [c \in Conversations |-> IF lock[c] = w THEN Nobody ELSE lock[c]]
LeakLock(w) == [c \in Conversations |-> IF lock[c] = w THEN Orphan ELSE lock[c]]

-----------------------------------------------------------------------------
(***************************************************************************)
(* The worker loop: Worker._loop, process, _run, _delay.                   *)
(***************************************************************************)

Goto(w, step) == pc' = [pc EXCEPT ![w] = step]

\* The loop is back at its top, with nothing in hand.
Rest(w) ==
    /\ Goto(w, "idle")
    /\ msg' = [msg EXCEPT ![w] = NoMsg]
    /\ slotted' = [slotted EXCEPT ![w] = FALSE]
    /\ caught' = [caught EXCEPT ![w] = FALSE]
    /\ healthy' = [healthy EXCEPT ![w] = TRUE]

\* next_messages: XREADGROUP moves an entry to the group's pending list.
Read(w) ==
    /\ pc[w] = "idle"
    /\ \E m \in stream :
        /\ stream' = stream \ {m}
        /\ unacked' = unacked \cup {m}
        /\ msg' = [msg EXCEPT ![w] = m]
    /\ Goto(w, "got")
    /\ UNCHANGED <<dbVars, delayed, lock, slots, slotted, caught, healthy,
                   dispatcherVars, outsideVars, spent>>

\* reclaim: XAUTOCLAIM hands over an entry that was idle for min_idle_ms,
\* which any run longer than that leaves its own entry, too.
Reclaim(w) ==
    /\ pc[w] = "idle"
    /\ \E m \in unacked : msg' = [msg EXCEPT ![w] = m]
    /\ Goto(w, "got")
    /\ UNCHANGED <<dbVars, redisVars, slotted, caught, healthy,
                   dispatcherVars, outsideVars, spent>>

\* process: claim the row, or drop the entry when the row is not claimable.
ClaimJob(w) ==
    /\ pc[w] = "got"
    /\ Claim(JobOf(w), w)
    /\ Goto(w, IF Claims(JobOf(w)) THEN "claimed" ELSE "ack")
    /\ UNCHANGED <<attempts, hold, outbox, redisVars, msg, slotted, caught,
                   healthy, dispatcherVars, outsideVars, spent>>

\* _lock: SET NX EX on the conversation's key; a busy key delays the job.
AcquireLock(w) ==
    LET c == ConvOf[JobOf(w)] IN
    /\ pc[w] = "claimed"
    /\ \/ /\ c = NoConv
          /\ Goto(w, "slot")
          /\ caught' = [caught EXCEPT ![w] = TRUE]
          /\ UNCHANGED lock
       \/ /\ c # NoConv
          /\ lock[c] = Nobody
          /\ lock' = [lock EXCEPT ![c] = w]
          /\ Goto(w, "slot")
          /\ caught' = [caught EXCEPT ![w] = TRUE]
       \/ /\ c # NoConv
          /\ lock[c] # Nobody
          /\ Goto(w, "delay")
          /\ UNCHANGED <<lock, caught>>
    /\ UNCHANGED <<dbVars, stream, unacked, delayed, slots, msg, slotted,
                   healthy, dispatcherVars, outsideVars, spent>>

\* More members than slots.
OverLimitByOne(members) == Cardinality(members) > UserSlots + 1
OverLimit(members) == Cardinality(members) > UserSlots

\* try_slot: ZADD the job, count the members; over the limit the handler does
\* not start.
TakeSlot(w) ==
    /\ pc[w] = "slot"
    /\ slots' = slots \cup {JobOf(w)}
    /\ IF OverLimit(slots')
       THEN Goto(w, "refused") /\ UNCHANGED slotted
       ELSE Goto(w, "run") /\ slotted' = [slotted EXCEPT ![w] = TRUE]
    /\ UNCHANGED <<dbVars, stream, unacked, delayed, lock, msg, caught, healthy,
                   dispatcherVars, outsideVars, spent>>

\* try_slot's ZREM after a refusal.
RefuseSlot(w) ==
    /\ pc[w] = "refused"
    /\ slots' = slots \ {JobOf(w)}
    /\ Goto(w, "delay")
    /\ UNCHANGED <<dbVars, stream, unacked, delayed, lock, msg, slotted, caught,
                   healthy, dispatcherVars, outsideVars, spent>>

\* _delay: release_claim, then ZADD, then XACK.
DelayJob(w) ==
    /\ pc[w] = "delay"
    /\ ReleaseClaim(JobOf(w))
    /\ Goto(w, "zadd")
    /\ UNCHANGED <<attempts, hold, outbox, redisVars, msg, slotted, caught,
                   healthy, dispatcherVars, outsideVars, spent>>

ZAdd(w) ==
    /\ pc[w] = "zadd"
    /\ delayed' = [delayed EXCEPT ![JobOf(w)] = "waiting"]
    /\ Goto(w, "ack")
    /\ UNCHANGED <<dbVars, stream, unacked, lock, slots, msg, slotted, caught,
                   healthy, dispatcherVars, outsideVars, spent>>

\* The handler returns: finish.  The settle that follows does not depend on
\* whether the row was still RUNNING.
FinishJob(w) ==
    /\ pc[w] = "run"
    /\ FinishRow(JobOf(w))
    /\ Goto(w, "settle")
    /\ UNCHANGED <<attempts, hold, outbox, redisVars, msg, slotted, caught,
                   healthy, dispatcherVars, outsideVars, spent>>

Settle(w) ==
    /\ pc[w] = "settle"
    /\ CloseHold(JobOf(w), "SETTLED")
    /\ Goto(w, "ack")
    /\ UNCHANGED <<rowVars, attempts, outbox, redisVars, msg, slotted,
                   caught, healthy, dispatcherVars, outsideVars, spent>>

\* The handler read CANCELLED, which no one takes back, and raised JobCancelled.
CancelRun(w) ==
    /\ pc[w] = "run"
    /\ status[JobOf(w)] = "CANCELLED"
    /\ CancelRow(JobOf(w))
    /\ Goto(w, "release")
    /\ UNCHANGED <<attempts, hold, outbox, redisVars, msg, slotted, caught,
                   healthy, dispatcherVars, outsideVars, spent>>

\* The handler raised JobFailed (whose branch the outer except still covers),
\* or no provider key is configured (already in the outer except).
FailFinal(w) ==
    /\ pc[w] = "run"
    /\ FailFinalRow(JobOf(w))
    /\ Goto(w, "release")
    /\ \E covered \in BOOLEAN : caught' = [caught EXCEPT ![w] = covered]
    /\ UNCHANGED <<attempts, hold, outbox, redisVars, msg, slotted, healthy,
                   dispatcherVars, outsideVars, spent>>

\* The except branch: fail the row; a row that is not RUNNING is lost to this
\* run, an exhausted one is released, any other is delayed.
AlwaysRelease(n) == "release"
AfterFail(n) == IF AfterAttempt(n) = "DEAD" THEN "release" ELSE "zadd"

FailRun(w) ==
    /\ FailRow(JobOf(w))
    /\ Goto(w, IF status[JobOf(w)] = "RUNNING" THEN AfterFail(attempts[JobOf(w)])
               ELSE "ack")
    /\ caught' = [caught EXCEPT ![w] = FALSE]
    /\ UNCHANGED <<hold, outbox, stream, unacked, delayed, lock, msg, slotted,
                   healthy, dispatcherVars, outsideVars>>

\* The handler raised, or ran past its deadline.
FailJob(w) ==
    /\ pc[w] = "run"
    /\ FailRun(w)
    /\ UNCHANGED <<slots, spent>>

\* A Redis or Postgres call of _run itself raised.  Where try_slot raised, the
\* member may be in the set all the same, with nobody to remove it.
StepFails(w) ==
    /\ pc[w] \notin {"idle", "run", "leave"}
    /\ caught[w]
    /\ FailRun(w)
    /\ slots' \in {slots, IF pc[w] = "slot" THEN slots \cup {JobOf(w)} ELSE slots}
    /\ Spend("error")

Release(w) ==
    /\ pc[w] = "release"
    /\ CloseHold(JobOf(w), "RELEASED")
    /\ Goto(w, "ack")
    /\ UNCHANGED <<rowVars, attempts, outbox, redisVars, msg, slotted,
                   caught, healthy, dispatcherVars, outsideVars, spent>>

Ack(w) ==
    /\ pc[w] = "ack"
    /\ unacked' = unacked \ {msg[w]}
    /\ Goto(w, "leave")
    /\ UNCHANGED <<dbVars, stream, delayed, lock, slots, msg, slotted, caught,
                   healthy, dispatcherVars, outsideVars, spent>>

\* The finally blocks: ZREM the slot this run took, delete the lock if its key
\* still holds this run's token.
LeaveSlotAndLock(w) ==
    /\ slots' = IF slotted[w] THEN slots \ {JobOf(w)} ELSE slots
    /\ lock' = DropLock(w)
    /\ Rest(w)

Leave(w) ==
    /\ pc[w] = "leave"
    /\ LeaveSlotAndLock(w)
    /\ UNCHANGED <<dbVars, stream, unacked, delayed, dispatcherVars,
                   outsideVars, spent>>

\* An exception no branch catches: the loop logs it and goes on, the entry
\* stays unacked.
StepAborts(w) ==
    /\ pc[w] \notin {"idle", "run", "leave"}
    /\ ~caught[w]
    /\ LeaveSlotAndLock(w)
    /\ Spend("error")
    /\ UNCHANGED <<dbVars, stream, unacked, delayed, dispatcherVars, outsideVars>>

\* The SET of the lock was carried out but its answer was lost: nobody knows the
\* token, and the key stays until its TTL.
LockAnswerLost(w) ==
    LET c == ConvOf[JobOf(w)] IN
    /\ pc[w] = "claimed"
    /\ c # NoConv
    /\ lock[c] = Nobody
    /\ lock' = [lock EXCEPT ![c] = Orphan]
    /\ Rest(w)
    /\ Spend("error")
    /\ UNCHANGED <<dbVars, stream, unacked, delayed, slots, dispatcherVars,
                   outsideVars>>

\* Shutdown cancels what outlives the drain: inside _run's try the job is
\* handed back; the entry stays unacked.
Shutdown(w) ==
    /\ pc[w] \notin {"idle", "leave"}
    /\ IF caught[w] THEN ReleaseClaim(JobOf(w)) ELSE UNCHANGED rowVars
    /\ LeaveSlotAndLock(w)
    /\ Spend("stop")
    /\ UNCHANGED <<attempts, hold, outbox, stream, unacked, delayed,
                   dispatcherVars, outsideVars>>

\* The process is killed: lock and slot wait for their time to run out.
Crash(w) ==
    /\ pc[w] # "idle"
    /\ lock' = LeakLock(w)
    /\ Rest(w)
    /\ Spend("crash")
    /\ UNCHANGED <<dbVars, stream, unacked, delayed, slots, dispatcherVars,
                   outsideVars>>

\* _beat raises at its first call and skips lock and slots, until it recovers.
Stall(w) ==
    /\ InHandler(w)
    /\ healthy' = [healthy EXCEPT ![w] = FALSE]
    /\ Spend("stall")
    /\ UNCHANGED <<dbVars, redisVars, pc, msg, slotted, caught, dispatcherVars,
                   outsideVars>>

\* _beat works again: it touches the row if RUNNING, whoever claimed it, and
\* ignores that the lock may be another's and the slot gone.
Recover(w) ==
    /\ pc[w] = "run"
    /\ ~healthy[w]
    /\ healthy' = [healthy EXCEPT ![w] = TRUE]
    /\ aged' = IF status[JobOf(w)] = "RUNNING"
               THEN [aged EXCEPT ![JobOf(w)] = FALSE] ELSE aged
    /\ UNCHANGED <<status, claimant, attempts, hold, outbox, redisVars, pc, msg,
                   slotted, caught, dispatcherVars, outsideVars, spent>>

WorkerStep(w) ==
    \/ ClaimJob(w) \/ AcquireLock(w) \/ TakeSlot(w) \/ RefuseSlot(w)
    \/ DelayJob(w) \/ ZAdd(w) \/ FinishJob(w) \/ Settle(w) \/ CancelRun(w)
    \/ FailFinal(w) \/ FailJob(w) \/ Release(w) \/ Ack(w) \/ Leave(w)
    \/ Recover(w)

WorkerFault(w) ==
    \/ StepFails(w) \/ StepAborts(w) \/ LockAnswerLost(w)
    \/ Shutdown(w) \/ Crash(w) \/ Stall(w)

-----------------------------------------------------------------------------
(***************************************************************************)
(* The dispatcher: one pass of _run_once at a time, under its lock.        *)
(***************************************************************************)

\* running_jobs: the RUNNING rows whose heartbeat is over its limit.
BeginPass ==
    /\ dpc = "idle"
    /\ djobs' = StaleRunning
    /\ dpc' = IF djobs' = {} THEN "readd" ELSE "requeue"
    /\ UNCHANGED <<dbVars, redisVars, workerVars, drows, dbatch, dcur,
                   outsideVars, spent>>

\* mark_retry: one statement over the rows read before, those still RUNNING;
\* the DEAD ones give up their reservation, the others go back to a stream.
MarkRetry ==
    LET stale == {j \in djobs : status[j] = "RUNNING"}
        dead  == {j \in stale : AfterAttempt(attempts[j]) = "DEAD"}
    IN
    /\ dpc = "requeue"
    /\ status' = [j \in Jobs |-> IF j \in stale THEN AfterAttempt(attempts[j])
                                 ELSE status[j]]
    /\ attempts' = [j \in Jobs |-> IF j \in stale THEN attempts[j] + 1
                                   ELSE attempts[j]]
    /\ aged' = [j \in Jobs |-> j \notin stale /\ aged[j]]
    /\ claimant' = [j \in Jobs |-> IF j \in stale THEN Nobody ELSE claimant[j]]
    /\ hold' = [j \in Jobs |-> IF j \in dead /\ hold[j] = "RESERVED"
                               THEN "RELEASED" ELSE hold[j]]
    /\ djobs' = stale \ dead
    /\ dpc' = "readd"
    /\ UNCHANGED <<outbox, redisVars, workerVars, drows, dbatch, dcur,
                   outsideVars, spent>>

\* _requeue_stale: XADD of each requeued job.
ReaddJob(j) ==
    /\ dpc = "readd"
    /\ j \in djobs
    /\ Add(j)
    /\ djobs' = djobs \ {j}
    /\ UNCHANGED <<dbVars, unacked, delayed, lock, slots, workerVars, dpc, drows,
                   dbatch, dcur, outsideVars, spent>>

\* promote_due: ZRANGEBYSCORE of what is due.
ReadDue ==
    /\ dpc = "readd"
    /\ djobs = {}
    /\ djobs' = {j \in Jobs : delayed[j] = "due"}
    /\ dpc' = "promote"
    /\ UNCHANGED <<dbVars, redisVars, workerVars, drows, dbatch, dcur,
                   outsideVars, spent>>

\* promote_due: ZREM takes the job, whatever its score is by now.
TakeDelayed(j) ==
    /\ dpc = "promote"
    /\ dcur = NoJob
    /\ j \in djobs
    /\ djobs' = djobs \ {j}
    /\ dcur' = IF delayed[j] = "no" THEN NoJob ELSE j
    /\ delayed' = [delayed EXCEPT ![j] = "no"]
    /\ UNCHANGED <<dbVars, stream, unacked, lock, slots, workerVars, dpc, drows,
                   dbatch, outsideVars, spent>>

\* promote_due: XADD of the job just taken.
PromoteJob ==
    /\ dpc = "promote"
    /\ dcur # NoJob
    /\ Add(dcur)
    /\ dcur' = NoJob
    /\ UNCHANGED <<dbVars, unacked, delayed, lock, slots, workerVars, dpc, djobs,
                   drows, dbatch, outsideVars, spent>>

\* pending_outbox.
ReadOutbox ==
    /\ dpc = "promote"
    /\ djobs = {}
    /\ dcur = NoJob
    /\ drows' = outbox
    /\ dbatch' = outbox
    /\ dpc' = IF outbox = {} THEN "lost" ELSE "outbox"
    /\ UNCHANGED <<dbVars, redisVars, workerVars, djobs, dcur, outsideVars, spent>>

\* _dispatch_outbox: XADD of each row read.
DispatchRow(r) ==
    /\ dpc = "outbox"
    /\ r \in drows
    /\ Add(r[1])
    /\ drows' = drows \ {r}
    /\ UNCHANGED <<dbVars, unacked, delayed, lock, slots, workerVars, dpc, djobs,
                   dbatch, dcur, outsideVars, spent>>

\* mark_dispatched: all rows of the batch at once.
MarkDispatched ==
    /\ dpc = "outbox"
    /\ drows = {}
    /\ outbox' = outbox \ dbatch
    /\ dbatch' = {}
    /\ dpc' = "lost"
    /\ UNCHANGED <<rowVars, attempts, hold, redisVars, workerVars, djobs,
                   drows, dcur, outsideVars, spent>>

\* _rehydrate: the delayed jobs are read first ...
ReadDelayed ==
    /\ dpc = "lost"
    /\ djobs' = {j \in Jobs : delayed[j] # "no"}
    /\ dpc' = "pending"
    /\ UNCHANGED <<dbVars, redisVars, workerVars, drows, dbatch, dcur,
                   outsideVars, spent>>

\* ... then the pending rows past their visibility limit, less those that have
\* a stream entry; only the dispatcher adds entries, so the later read of the
\* streams can only find fewer of them.
ReadPending ==
    /\ dpc = "pending"
    /\ djobs' = StalePending \ (djobs \cup LiveJobIds)
    /\ dpc' = IF djobs' = {} THEN "idle" ELSE "rehydrate"
    /\ UNCHANGED <<dbVars, redisVars, workerVars, drows, dbatch, dcur,
                   outsideVars, spent>>

RehydrateJob(j) ==
    /\ dpc = "rehydrate"
    /\ j \in djobs
    /\ Add(j)
    /\ djobs' = djobs \ {j}
    /\ dpc' = IF djobs' = {} THEN "idle" ELSE "rehydrate"
    /\ UNCHANGED <<dbVars, unacked, delayed, lock, slots, workerVars, drows,
                   dbatch, dcur, outsideVars, spent>>

\* A sweep, unlike a kick, goes on to reconcile_credits: finished rows left
\* RESERVED for RECONCILE_AFTER_S are closed according to how they finished.
Reconcile ==
    /\ dpc = "idle"
    /\ hold' = [j \in Jobs |-> IF hold[j] = "RESERVED" /\ aged[j]
                               THEN ReconciledAs(status[j]) ELSE hold[j]]
    /\ UNCHANGED <<rowVars, attempts, outbox, redisVars, workerVars,
                   dispatcherVars, outsideVars, spent>>

\* A call of the pass raised or the process died; the next pass starts over.
DispatcherFails ==
    /\ dpc # "idle"
    /\ dpc' = "idle"
    /\ djobs' = {}
    /\ drows' = {}
    /\ dbatch' = {}
    /\ dcur' = NoJob
    /\ Spend("dispatcher")
    /\ UNCHANGED <<dbVars, redisVars, workerVars, outsideVars>>

DispatcherStep ==
    \/ MarkRetry \/ ReadDue \/ PromoteJob \/ ReadOutbox \/ MarkDispatched
    \/ ReadDelayed \/ ReadPending
    \/ \E j \in Jobs : ReaddJob(j) \/ TakeDelayed(j) \/ RehydrateJob(j)
    \/ \E r \in OutboxRow : DispatchRow(r)

-----------------------------------------------------------------------------
(***************************************************************************)
(* The API, the operator, the user, and time.                              *)
(***************************************************************************)

\* enqueueJob: job, reservation and outbox row in one statement.
Enqueue(j) ==
    /\ status[j] = "none"
    /\ status' = [status EXCEPT ![j] = "QUEUED"]
    /\ aged' = [aged EXCEPT ![j] = FALSE]
    /\ hold' = IF j \in Paid THEN [hold EXCEPT ![j] = "RESERVED"] ELSE hold
    /\ outbox' = outbox \cup {<<j, 0>>}
    /\ UNCHANGED <<claimant, attempts, redisVars, workerVars, dispatcherVars, outsideVars,
                   spent>>

\* AdminJobs.retry, in one transaction.
AdminRetry(j) ==
    /\ status[j] \in {"DEAD", "FAILED"}
    /\ Spend("reopen")
    /\ status' = [status EXCEPT ![j] = "QUEUED"]
    /\ attempts' = [attempts EXCEPT ![j] = 0]
    /\ aged' = [aged EXCEPT ![j] = FALSE]
    /\ ReserveAgain(j)
    /\ outbox' = outbox \cup {<<j, spent'["reopen"]>>}
    /\ UNCHANGED <<claimant, redisVars, workerVars, dispatcherVars, outsideVars>>

\* AdminJobs.cancel: the row first, the reservation in a second statement.
AdminCancel(j) ==
    /\ status[j] \in Live
    /\ CancelRow(j)
    /\ adminRelease' = adminRelease \cup {j}
    /\ Spend("adminCancel")
    /\ UNCHANGED <<attempts, hold, outbox, redisVars, workerVars, dispatcherVars,
                   viewWrite>>

AdminRelease(j) ==
    /\ j \in adminRelease
    /\ CloseHold(j, "RELEASED")
    /\ adminRelease' = adminRelease \ {j}
    /\ UNCHANGED <<rowVars, attempts, outbox, redisVars, workerVars,
                   dispatcherVars, viewWrite, spent>>

\* The gateway's CANCEL_SQL updates the chat_jobs view.  Its WHERE reads the
\* row in the statement's snapshot ...
UserCancelRead(j) ==
    /\ ConvOf[j] # NoConv
    /\ viewWrite[j] = -1
    /\ status[j] \in Live
    /\ viewWrite' = [viewWrite EXCEPT ![j] = attempts[j]]
    /\ Spend("userCancel")
    /\ UNCHANGED <<dbVars, redisVars, workerVars, dispatcherVars, adminRelease>>

\* ... and the view's INSTEAD OF trigger then writes the row by id alone, with
\* the columns of that snapshot.
UserCancelWrite(j) ==
    /\ viewWrite[j] # -1
    /\ status' = [status EXCEPT ![j] = "CANCELLED"]
    /\ attempts' = [attempts EXCEPT ![j] = viewWrite[j]]
    /\ aged' = [aged EXCEPT ![j] = FALSE]
    /\ claimant' = [claimant EXCEPT ![j] = Nobody]
    /\ viewWrite' = [viewWrite EXCEPT ![j] = -1]
    /\ UNCHANGED <<hold, outbox, redisVars, workerVars, dispatcherVars,
                   adminRelease, spent>>

\* Redis restarts empty.
RedisFlush ==
    /\ Spend("flush")
    /\ stream' = {}
    /\ unacked' = {}
    /\ delayed' = [j \in Jobs |-> "no"]
    /\ lock' = [c \in Conversations |-> Nobody]
    /\ slots' = {}
    /\ UNCHANGED <<dbVars, workerVars, dispatcherVars, outsideVars>>

\* The limit of the row's present status passes.  The age of a finished row
\* whose reservation is closed is never read.
Age(j) ==
    /\ ~aged[j]
    /\ \/ status[j] \in Claimable
       \/ status[j] = "RUNNING" /\ \A w \in Workers : ~KeepsAlive(w, j)
       \/ status[j] \in Finished /\ hold[j] = "RESERVED"
    /\ aged' = [aged EXCEPT ![j] = TRUE]
    /\ UNCHANGED <<status, claimant, attempts, hold, outbox, redisVars, workerVars,
                   dispatcherVars, outsideVars, spent>>

\* The backoff of a delayed job passes.
BackoffEnds(j) ==
    /\ delayed[j] = "waiting"
    /\ delayed' = [delayed EXCEPT ![j] = "due"]
    /\ UNCHANGED <<dbVars, stream, unacked, lock, slots, workerVars,
                   dispatcherVars, outsideVars, spent>>

\* The TTL of a lock nobody renews passes.
LockExpires(c) ==
    /\ lock[c] # Nobody
    /\ lock[c] \in Workers => ~healthy[lock[c]]
    /\ lock' = [lock EXCEPT ![c] = Nobody]
    /\ UNCHANGED <<dbVars, stream, unacked, delayed, slots, workerVars,
                   dispatcherVars, outsideVars, spent>>

\* A slot nobody refreshes is older than SLOT_STALE_S, so that the next
\* try_slot does not count it.
SlotAges(j) ==
    /\ j \in slots
    /\ \A w \in Workers : ~KeepsAlive(w, j)
    /\ slots' = slots \ {j}
    /\ UNCHANGED <<dbVars, stream, unacked, delayed, lock, workerVars,
                   dispatcherVars, outsideVars, spent>>

Outside ==
    \/ \E j \in Jobs : \/ Enqueue(j) \/ AdminRetry(j)
                       \/ AdminCancel(j) \/ AdminRelease(j)
                       \/ UserCancelRead(j) \/ UserCancelWrite(j)
    \/ RedisFlush

Time ==
    \/ \E j \in Jobs : Age(j) \/ BackoffEnds(j) \/ SlotAges(j)
    \/ \E c \in Conversations : LockExpires(c)

Next ==
    \/ \E w \in Workers : Read(w) \/ Reclaim(w) \/ WorkerStep(w) \/ WorkerFault(w)
    \/ BeginPass
    \/ DispatcherStep
    \/ Reconcile
    \/ DispatcherFails
    \/ Outside
    \/ Time

Spec == Init /\ [][Next]_vars

\* The loops keep turning, handlers end (at their deadline if not before), the
\* 15-minute sweep keeps coming, and time passes.  Nothing outside is promised.
Fairness ==
    /\ \A w \in Workers : /\ SF_vars(Read(w))
                          /\ SF_vars(Reclaim(w))
                          /\ WF_vars(WorkerStep(w))
    /\ WF_vars(BeginPass)
    /\ WF_vars(DispatcherStep)
    /\ SF_vars(Reconcile)
    /\ \A j \in Jobs : /\ WF_vars(Age(j))
                       /\ WF_vars(BackoffEnds(j))
                       /\ WF_vars(SlotAges(j))
    /\ \A c \in Conversations : WF_vars(LockExpires(c))

FairSpec == Spec /\ Fairness

-----------------------------------------------------------------------------
(***************************************************************************)
(* What the queue promises.                                                *)
(***************************************************************************)

\* A live job has an attempt left and a DEAD one has used them all, whoever
\* counts them: a worker's fail, the dispatcher's mark_retry, both for the same
\* run, an operator's reset, or the stale columns of a user's cancel.
AttemptsWithinLimit ==
    \A j \in Jobs : /\ status[j] \in Live => attempts[j] < MaxAttempts
                    /\ status[j] = "DEAD" => attempts[j] = MaxAttempts

\* Two loops never run the same job, although entries are duplicated by
\* redelivery, by the outbox and by rehydration; and while a handler runs, its
\* row is RUNNING, or CANCELLED and about to be noticed: no message, pass or
\* other worker takes the job from a run whose heartbeat works.
OneRunPerJob ==
    \A w \in Workers : InHandler(w) =>
        /\ status[JobOf(w)] \in {"RUNNING", "CANCELLED"}
        /\ \A v \in Workers \ {w} : InHandler(v) => JobOf(v) # JobOf(w)

\* Two jobs of one conversation never run at once, although a lock can be
\* leaked by a crash, expire, and be released late.
OneRunPerConversation ==
    \A v, w \in Workers :
        v # w /\ InHandler(v) /\ InHandler(w) /\ ConvOf[JobOf(v)] # NoConv
            => ConvOf[JobOf(v)] # ConvOf[JobOf(w)]

\* The loops whose run holds its slot.
SlotHolders == {w \in Workers : InHandler(w) /\ JobOf(w) \in slots}

\* No more runs of a user hold a slot than try_slot has to give, and a run
\* keeps its slot to its end.  The exception: a loop that ran the same job
\* before and leaves it late releases the slot by the job's id.
RunsWithinSlots ==
    /\ [](Cardinality(SlotHolders) <= UserSlots)
    /\ [][\A w \in SlotHolders :
             InHandler(w)' =>
                \/ w \in SlotHolders'
                \/ \E v \in Workers \ {w} : pc[v] = "leave" /\ slotted[v] /\ JobOf(v) = JobOf(w)
         ]_vars

\* The outcome of a job stays: only an operator's reopen takes back FAILED or
\* DEAD, and nothing takes back DONE or CANCELLED, though late runs, passes and
\* cancels all write the row.
FinishedStays ==
    [][\A j \in Jobs :
        /\ status[j] \in {"DONE", "CANCELLED"} => status'[j] = status[j]
        /\ status[j] \in {"FAILED", "DEAD"} => status'[j] \in {status[j], "QUEUED"}
      ]_vars

\* Only an operator's reopen makes a finished job live again, with its attempts
\* back and a new outbox row to carry it: no late statement of a worker or a
\* pass does.
NoQuietReopen ==
    [][\A j \in Jobs :
        status[j] \in Finished /\ status'[j] \in Live
            => /\ status[j] \in {"FAILED", "DEAD"}
               /\ attempts'[j] = 0
               /\ \E r \in outbox' \ outbox : r[1] = j
      ]_vars

\* A loop finishes, fails or hands back only a run of its own claim: a statement
\* that comes late never reaches the run of the loop that has the job by then.
EndsOnlyItsOwnRun ==
    [][\A w \in Workers :
          (/\ pc[w] \notin {"idle", "got"}
           /\ pc'[w] # pc[w]
           /\ status[JobOf(w)] = "RUNNING"
           /\ status'[JobOf(w)] # "RUNNING")
        => claimant[JobOf(w)] = w
      ]_vars

\* Each job, seen from outside, lives the life JobLifecycle allows: one outcome,
\* one charge or one refund that fits it, an attempt for every failed run.
Lifecycle(j) == INSTANCE JobLifecycle WITH
    Limit    <- MaxAttempts,
    Charged  <- j \in Paid,
    state    <- IF status[j] \in Claimable THEN "waiting"
                ELSE IF status[j] = "RUNNING" THEN "running" ELSE status[j],
    attempts <- attempts[j],
    hold     <- hold[j]

ImplementsLifecycle ==
    /\ \A j \in Jobs : Lifecycle(j)!Init
    /\ [][\A j \in Jobs : Lifecycle(j)!Next \/ UNCHANGED Lifecycle(j)!vars]_vars

\* Every job the API accepted ends, whatever is lost on the way: an entry, a
\* worker, a pass between ZREM and XADD, the whole of Redis.
EveryJobEnds == \A j \in Jobs : status[j] \in Live ~> status[j] \in Finished

\* No reservation stays open for ever: what a crash between finish and settle,
\* or fail and release, leaves RESERVED is closed by a later sweep.
HoldsClose ==
    \A j \in Jobs : hold[j] = "RESERVED" ~> hold[j] # "RESERVED"
=============================================================================
