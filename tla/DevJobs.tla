------------------------------- MODULE DevJobs -------------------------------
(***************************************************************************)
(* The in-process job runner: DevJobRunner and DevJobScheduler             *)
(* (src/src/adapters/dev_jobs.py) over the job repository of               *)
(* src/src/adapters/sqlite_db.py.                                          *)
(*                                                                         *)
(* A batch (run_due_jobs) runs in the polling thread that start() created, *)
(* or in the thread of a caller of trigger_now().  claim_next_runnable is  *)
(* three statements on two connections: a SELECT, a conditional UPDATE     *)
(* whose row count nobody looks at, and a second SELECT.                   *)
(***************************************************************************)
EXTENDS Integers, FiniteSets

CONSTANTS
  Jobs,         \* job ids
  Threads,      \* polling threads that start() may create
  Callers,      \* threads that call trigger_now()
  MaxTime,      \* bound on the clock
  MaxRaises,    \* bound on the database errors
  MaxTriggers,  \* bound on the calls of trigger_now()
  MaxAttempts,  \* DevJobRunner.max_attempts
  RetryDelay,   \* DevJobRunner.retry_delay_seconds, in ticks
  BatchSize     \* max_jobs of run_due_jobs

ASSUME ThreadAssumption == Threads # {} /\ Threads \cap Callers = {}
ASSUME JobAssumption == Jobs # {}
ASSUME BoundAssumption ==
  /\ MaxTime \in Nat /\ MaxRaises \in Nat /\ MaxTriggers \in Nat
  /\ MaxAttempts \in Nat \ {0} /\ RetryDelay \in Nat \ {0} /\ BatchSize \in Nat \ {0}

VARIABLES
  now,         \* the clock
  jobs,        \* the publish_jobs table
  stopEvent,   \* DevJobScheduler._stop_event
  running,     \* DevJobScheduler._running
  thread,      \* DevJobScheduler._thread
  joining,     \* a call of stop() is in Thread.join
  batch,       \* what every thread is doing
  raises,      \* database errors so far
  triggers,    \* calls of trigger_now() so far
  calls,       \* history: executions begun for every job
  overran,     \* history: a join timed out
  overlapped   \* history: a batch began while another one ran

schedulerVars == <<stopEvent, running, thread, joining, overran>>
vars == <<now, jobs, batch, raises, triggers, calls, overlapped, schedulerVars>>

Pending == {"queued", "retry_wait"}
JobStatus == Pending \cup {"absent", "running", "succeeded", "failed"}

JobRow == [status: JobStatus, publishAt: Nat, attempts: Nat, nextRetry: Nat]
NoRow == [status |-> "absent", publishAt |-> 0, attempts |-> 0, nextRetry |-> 0]

SomeJob == CHOOSE j \in Jobs : TRUE

BatchStep == {"select", "update", "reget", "count", "execute"}
Stopped == [pc |-> "stopped", job |-> SomeJob, row |-> NoRow, asOf |-> 0, left |-> 0]

Executors == Threads \cup Callers
Busy(e) == batch[e].pc \in BatchStep
Alive(t) == batch[t].pc # "stopped"

\* Where a thread goes when its batch is over.
Rest(e) == [Stopped EXCEPT !.pc = IF e \in Threads THEN "waiting" ELSE "stopped"]

\* Mutant: the delay before a retry is not looked at.
RunnableAtOnce(j, t) ==
  \/ jobs[j].status = "queued" /\ jobs[j].publishAt <= t
  \/ jobs[j].status = "retry_wait"

\* The rows claim_next_runnable selects from.
Runnable(j, t) ==
  \/ jobs[j].status = "queued" /\ jobs[j].publishAt <= t
  \/ jobs[j].status = "retry_wait" /\ jobs[j].nextRetry <= t

\* save: the upsert writes every column but publish_at_utc.
Save(j, row) == jobs' = [jobs EXCEPT ![j] = [row EXCEPT !.publishAt = jobs[j].publishAt]]

Init ==
  /\ now = 0
  /\ jobs = [j \in Jobs |-> NoRow]
  /\ stopEvent = FALSE
  /\ running = FALSE
  /\ thread \in Threads   \* no thread: it is not looked at before start
  /\ joining = FALSE
  /\ batch = [e \in Executors |-> Stopped]
  /\ raises = 0
  /\ triggers = 0
  /\ calls = [j \in Jobs |-> 0]
  /\ overran = FALSE
  /\ overlapped = FALSE

-----------------------------------------------------------------------------
(* DevJobScheduler. *)

\* start(): the event is cleared for every thread that still looks at it.
Start ==
  /\ ~running /\ ~joining
  /\ stopEvent' = FALSE
  /\ \E t \in Threads :
       /\ ~Alive(t)
       /\ thread' = t
       /\ batch' = [batch EXCEPT ![t] = Rest(t)]
  /\ running' = TRUE
  /\ UNCHANGED <<now, jobs, raises, triggers, calls, overlapped, joining, overran>>

\* stop() up to the join.
StopSignal ==
  /\ running /\ ~joining
  /\ stopEvent' = TRUE
  /\ joining' = TRUE
  /\ UNCHANGED <<now, jobs, batch, raises, triggers, calls, overlapped, running, thread, overran>>

\* Mutant: stop does not wait for the thread.
StopUnjoined ==
  /\ joining
  /\ joining' = FALSE
  /\ running' = FALSE
  /\ UNCHANGED <<now, jobs, batch, raises, triggers, calls, overlapped, stopEvent, thread, overran>>

\* The join returns because the thread is over or because five seconds are.
StopJoined ==
  /\ joining
  /\ joining' = FALSE
  /\ running' = FALSE
  /\ overran' = (overran \/ Alive(thread))
  /\ UNCHANGED <<now, jobs, batch, raises, triggers, calls, overlapped, stopEvent, thread>>

\* run_due_jobs begins: its now_utc is fixed for the whole batch.
BeginBatch(e) ==
  /\ batch' = [batch EXCEPT ![e] = [Stopped EXCEPT !.pc = "select", !.asOf = now, !.left = BatchSize]]
  /\ overlapped' = (overlapped \/ \E f \in Executors \ {e} : Busy(f))

\* _poll_loop between two batches.
Wake(t) ==
  /\ batch[t].pc = "waiting"
  /\ \/ /\ stopEvent
        /\ batch' = [batch EXCEPT ![t] = Stopped]
        /\ UNCHANGED overlapped
     \/ /\ ~stopEvent
        /\ BeginBatch(t)
  /\ UNCHANGED <<now, jobs, raises, triggers, calls, schedulerVars>>

TriggerNow(c) ==
  /\ ~Busy(c)
  /\ triggers < MaxTriggers
  /\ triggers' = triggers + 1
  /\ BeginBatch(c)
  /\ UNCHANGED <<now, jobs, raises, calls, schedulerVars>>

-----------------------------------------------------------------------------
(* DevJobRunner: one job after the other. *)

Goto(e, b) ==
  /\ batch' = [batch EXCEPT ![e] = b]
  /\ UNCHANGED <<now, triggers, overlapped, schedulerVars>>

\* The first SELECT; no row, or as many jobs as asked for, ends the batch.  The
\* instant of the batch is dropped with its last job: nothing reads it again.
Select(e) ==
  LET due  == {j \in Jobs : Runnable(j, batch[e].asOf)}
      asOf == IF batch[e].left = 1 THEN 0 ELSE batch[e].asOf
  IN
  /\ batch[e].pc = "select"
  /\ \/ /\ batch[e].left > 0
        /\ \E j \in due :
             /\ \A k \in due : jobs[j].publishAt <= jobs[k].publishAt
             /\ Goto(e, [batch[e] EXCEPT !.pc = "update", !.job = j, !.asOf = asOf,
                                         !.left = @ - 1])
     \/ /\ batch[e].left = 0 \/ due = {}
        /\ Goto(e, Rest(e))
  /\ UNCHANGED <<jobs, raises, calls>>

\* The conditional UPDATE; its row count is not looked at.
Update(e) ==
  LET j == batch[e].job IN
  /\ batch[e].pc = "update"
  /\ jobs' = IF jobs[j].status \in Pending THEN [jobs EXCEPT ![j].status = "running"] ELSE jobs
  /\ Goto(e, [batch[e] EXCEPT !.pc = "reget"])
  /\ UNCHANGED <<raises, calls>>

\* get_by_id: the row comes back in whatever state it is.
Reget(e) ==
  /\ batch[e].pc = "reget"
  /\ Goto(e, [batch[e] EXCEPT !.pc = "count", !.row = jobs[batch[e].job]])
  /\ UNCHANGED <<jobs, raises, calls>>

\* Mutant: the attempt is recorded twice.
CountTwice(e) ==
  LET j   == batch[e].job
      row == [batch[e].row EXCEPT !.attempts = @ + 2]
  IN
  /\ batch[e].pc = "count"
  /\ Save(j, row)
  /\ calls' = [calls EXCEPT ![j] = @ + 1]
  /\ Goto(e, [batch[e] EXCEPT !.pc = "execute", !.row = row])
  /\ UNCHANGED raises

\* _execute_and_update up to the call of the executor.
Count(e) ==
  LET j   == batch[e].job
      row == [batch[e].row EXCEPT !.attempts = @ + 1]
  IN
  /\ batch[e].pc = "count"
  /\ Save(j, row)
  /\ calls' = [calls EXCEPT ![j] = @ + 1]
  /\ Goto(e, [batch[e] EXCEPT !.pc = "execute", !.row = row])
  /\ UNCHANGED raises

\* mark_failure.
FailedRow(row) ==
  IF row.attempts < MaxAttempts
  THEN [row EXCEPT !.status = "retry_wait", !.nextRetry = now + RetryDelay]
  ELSE [row EXCEPT !.status = "failed"]

\* The executor answers (an exception is a failure) and the copy is saved.
Mark(e) ==
  /\ batch[e].pc = "execute"
  /\ \E row \in {[batch[e].row EXCEPT !.status = "succeeded"], FailedRow(batch[e].row)} :
       Save(batch[e].job, row)
  /\ Goto(e, [Stopped EXCEPT !.pc = "select", !.asOf = batch[e].asOf, !.left = batch[e].left])
  /\ UNCHANGED <<raises, calls>>

\* A statement raises ("database is locked"): the batch is given up, the poll
\* loop catches and goes on.
Raise(e) ==
  /\ Busy(e)
  /\ raises < MaxRaises
  /\ raises' = raises + 1
  /\ Goto(e, Rest(e))
  /\ UNCHANGED <<jobs, calls>>

\* create_if_not_exists, called by one thread at a time: one job for an instant.
CreateIfNotExists(j, t) ==
  /\ jobs[j].status = "absent"
  /\ \A k \in Jobs : jobs[k].status = "absent" \/ jobs[k].publishAt # t
  /\ jobs' = [jobs EXCEPT ![j] = [NoRow EXCEPT !.status = "queued", !.publishAt = t]]
  /\ UNCHANGED <<now, batch, raises, triggers, calls, overlapped, schedulerVars>>

Tick ==
  /\ now < MaxTime
  /\ now' = now + 1
  /\ UNCHANGED <<jobs, batch, raises, triggers, calls, overlapped, schedulerVars>>

BatchNext(e) == Select(e) \/ Update(e) \/ Reget(e) \/ Count(e) \/ Mark(e)

Next ==
  \/ Start \/ StopSignal \/ StopJoined
  \/ \E t \in Threads : Wake(t)
  \/ \E c \in Callers : TriggerNow(c)
  \/ \E e \in Executors : BatchNext(e) \/ Raise(e)
  \/ \E j \in Jobs, t \in 0..MaxTime : CreateIfNotExists(j, t)
  \/ Tick

Spec == Init /\ [][Next]_vars

-----------------------------------------------------------------------------
(* Properties. *)

\* Every variable has its type.
TypeOK ==
  /\ now \in 0..MaxTime
  /\ jobs \in [Jobs -> JobRow]
  /\ stopEvent \in BOOLEAN /\ running \in BOOLEAN /\ joining \in BOOLEAN
  /\ thread \in Threads
  /\ batch \in [Executors -> [pc: BatchStep \cup {"stopped", "waiting"}, job: Jobs,
                              row: JobRow, asOf: 0..MaxTime, left: 0..BatchSize]]
  /\ raises \in 0..MaxRaises /\ triggers \in 0..MaxTriggers
  /\ calls \in [Jobs -> Nat]
  /\ overran \in BOOLEAN /\ overlapped \in BOOLEAN

\* start and stop keep to one polling thread, as long as no stop gave up on a
\* batch that took longer than its join.
AtMostOnePoller ==
  ~overran => \A s, t \in Threads : Alive(s) /\ Alive(t) => s = t

\* While the scheduler says it is running, its own thread is alive and will not
\* be stopped by an event that an earlier stop left set.
RunningHasPoller == running /\ ~joining => Alive(thread) /\ ~stopEvent

\* The flag, the event and the threads agree: there is one polling thread when
\* is_running says so, and never a second one.
OnePoller == AtMostOnePoller /\ RunningHasPoller

\* The poller is one thread in states of the types declared, whoever starts, stops and
\* triggers it.
PollerSound == TypeOK /\ OnePoller

\* The attempts recorded for a job and the attempts in the hands of a batch
\* never exceed the executions begun, however many batches overlap: a job does
\* not fail for attempts that were never made.
AttemptsNotOvercounted ==
  /\ \A j \in Jobs : jobs[j].attempts <= calls[j]
  /\ \A e \in Executors : batch[e].pc \in {"count", "execute"} =>
       batch[e].row.attempts <= calls[batch[e].job]

\* Without overlapping batches a job is executed at most max_attempts times, also
\* when a database error takes a batch away in the middle of an execution.
AttemptsBounded == ~overlapped => \A j \in Jobs : calls[j] <= MaxAttempts

\* The attempts of a job count its executions: neither too many nor, as long as
\* nothing overlaps, too few to stop at the limit.
AttemptsHonest == AttemptsNotOvercounted /\ AttemptsBounded

\* R3, and the delay before a retry: without overlapping batches a job starts
\* to run only at or after its instant or the end of its delay.
StartsWhenDue ==
  [][\A j \in Jobs :
       ~overlapped' /\ jobs[j].status \in Pending /\ jobs'[j].status = "running" =>
         \/ jobs[j].status = "queued" /\ jobs[j].publishAt <= now
         \/ jobs[j].status = "retry_wait" /\ jobs[j].nextRetry <= now]_vars

\* src/src/core/ports/jobs.py:139: the claim is atomic and prevents double
\* execution.
NoDoubleExecution ==
  \A j \in Jobs : \A d, e \in Executors :
    batch[d].pc = "execute" /\ batch[e].pc = "execute"
    /\ batch[d].job = j /\ batch[e].job = j => d = e

=============================================================================
