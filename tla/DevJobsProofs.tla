--------------------------- MODULE DevJobsProofs ---------------------------
(***************************************************************************)
(* Proofs about DevJobs, for every set of jobs, polling threads and        *)
(* callers and every value of the bounds and the runner's settings.        *)
(***************************************************************************)
EXTENDS DevJobs, TLAPS

-----------------------------------------------------------------------------
(* The inductive invariants. *)

\* A stop that waits was called while the scheduler ran, and only the thread
\* that start created last is alive, unless a join timed out.
PollerInv ==
  /\ joining => running
  /\ running /\ ~joining => Alive(thread) /\ ~stopEvent
  /\ ~overran => \A t \in Threads : Alive(t) => t = thread /\ running

\* What the holder of a job knows of its row when no batches overlap.
HolderInv(e) ==
  LET j == batch[e].job IN
  /\ batch[e].pc = "update" => Runnable(j, now)
  /\ batch[e].pc = "reget" => jobs[j].status = "running" /\ jobs[j].attempts < MaxAttempts
  /\ batch[e].pc = "count" => batch[e].row = jobs[j] /\ jobs[j].status = "running"
                              /\ jobs[j].attempts < MaxAttempts
  /\ batch[e].pc = "execute" => batch[e].row = jobs[j] /\ jobs[j].status = "running"

\* As long as no batches overlap one executor is busy at a time, the attempts
\* of a job are its executions, and a job that may run has one left.
SerialInv ==
  ~overlapped =>
    /\ \A d, e \in Executors : Busy(d) /\ Busy(e) => d = e
    /\ \A e \in Executors : HolderInv(e)
    /\ \A j \in Jobs :
         /\ calls[j] = jobs[j].attempts /\ calls[j] <= MaxAttempts
         /\ jobs[j].status \in Pending => jobs[j].attempts < MaxAttempts
         /\ jobs[j].status = "absent" => jobs[j].attempts = 0

\* The instant of a batch is one that the clock has passed.
InstantInv == \A e \in Executors : batch[e].asOf <= now

-----------------------------------------------------------------------------
(* The values the actions write. *)

\* What a thread may be doing.
BatchState == [pc: BatchStep \cup {"stopped", "waiting"}, job: Jobs,
               row: JobRow, asOf: 0..MaxTime, left: 0..BatchSize]

LEMMA NoRowType == SomeJob \in Jobs /\ NoRow \in JobRow
<1>1. SomeJob \in Jobs
  BY JobAssumption DEF SomeJob
<1> QED
  BY <1>1 DEF NoRow, JobRow, JobStatus

LEMMA StoppedType ==
  Stopped \in BatchState /\ Stopped.pc = "stopped"
<1>1. 0 \in 0..MaxTime /\ 0 \in 0..BatchSize
  BY BoundAssumption
<1> QED
  BY <1>1, NoRowType DEF Stopped, BatchState

\* A batch that begins or goes on to its next job has a type.
LEMMA FreshBatchType ==
  ASSUME NEW asOf \in 0..MaxTime, NEW left \in 0..BatchSize
  PROVE  LET b == [Stopped EXCEPT !.pc = "select", !.asOf = asOf, !.left = left]
         IN  b \in BatchState /\ b.pc = "select" /\ b.asOf = asOf /\ b.left = left
BY StoppedType DEF BatchState, BatchStep

\* Where a thread goes when its batch is over.
LEMMA RestTypes ==
     \A e \in Executors :
       /\ Rest(e).pc = IF e \in Threads THEN "waiting" ELSE "stopped"
       /\ Rest(e).job \in Jobs /\ Rest(e).row \in JobRow
       /\ Rest(e).asOf = 0 /\ Rest(e).left = 0
       /\ Rest(e) \in BatchState
BY NoRowType, BoundAssumption DEF Rest, Stopped, BatchState

\* mark_failure keeps the row a row.
LEMMA FailedRowType ==
  ASSUME now \in Nat, NEW row \in JobRow
  PROVE  /\ FailedRow(row) \in JobRow
         /\ FailedRow(row).attempts = row.attempts
         /\ FailedRow(row).status \in {"retry_wait", "failed"}
         /\ FailedRow(row).status = "retry_wait" => row.attempts < MaxAttempts
<1>1. now + RetryDelay \in Nat
  BY BoundAssumption
<1> QED
  BY <1>1 DEF FailedRow, JobRow, JobStatus, Pending

\* The two rows an answer of the executor may leave.
LEMMA AnswerType ==
  ASSUME now \in Nat, NEW old \in JobRow,
         NEW row \in {[old EXCEPT !.status = "succeeded"], FailedRow(old)}
  PROVE  /\ row \in JobRow
         /\ row.attempts = old.attempts
         /\ row.status \in {"succeeded", "retry_wait", "failed"}
         /\ row.status = "retry_wait" => row.attempts < MaxAttempts
<1>1. CASE row = [old EXCEPT !.status = "succeeded"]
  BY <1>1 DEF JobRow, JobStatus
<1>2. CASE row = FailedRow(old)
  BY <1>2, FailedRowType
<1> QED
  BY <1>1, <1>2

\* An upsert writes every column of one row but its instant.
LEMMA SaveEffect ==
  ASSUME jobs \in [Jobs -> JobRow], NEW j \in Jobs, NEW row \in JobRow, Save(j, row)
  PROVE  /\ jobs' \in [Jobs -> JobRow]
         /\ \A k \in Jobs \ {j} : jobs'[k] = jobs[k]
         /\ jobs'[j] = [row EXCEPT !.publishAt = jobs[j].publishAt]
         /\ jobs'[j].status = row.status /\ jobs'[j].attempts = row.attempts
BY DEF Save, JobRow

-----------------------------------------------------------------------------
(* Type correctness. *)

LEMMA InitType ==
  ASSUME Init PROVE TypeOK
<1>1. 0 \in 0..MaxTime /\ 0 \in 0..BatchSize /\ 0 \in 0..MaxRaises /\ 0 \in 0..MaxTriggers
  BY BoundAssumption
<1>2. Stopped \in BatchState
  BY StoppedType
<1>3. batch \in [Executors -> BatchState]
  BY <1>2 DEF Init
<1>4. jobs \in [Jobs -> JobRow] /\ calls \in [Jobs -> Nat]
  BY NoRowType DEF Init
<1> QED
  BY <1>1, <1>3, <1>4 DEF Init, TypeOK, BatchState

\* A batch begins with the instant of the clock.
LEMMA BeginType ==
  ASSUME TypeOK, NEW e \in Executors, BeginBatch(e)
  PROVE  /\ batch' = [batch EXCEPT ![e] = batch'[e]]
         /\ batch'[e].pc = "select" /\ batch'[e].asOf = now
         /\ batch' \in [Executors -> BatchState]
         /\ overlapped' \in BOOLEAN
<1> DEFINE b == [Stopped EXCEPT !.pc = "select", !.asOf = now, !.left = BatchSize]
<1>1. now \in 0..MaxTime /\ BatchSize \in 0..BatchSize
  BY BoundAssumption DEF TypeOK
<1>2. b \in BatchState /\ b.pc = "select" /\ b.asOf = now
  BY <1>1, FreshBatchType
<1> HIDE DEF b
<1>3. batch' = [batch EXCEPT ![e] = b] /\ batch'[e] = b
  BY DEF BeginBatch, TypeOK, b
<1> QED
  BY <1>2, <1>3 DEF TypeOK, BeginBatch, BatchState

\* The steps of start, stop, the poll loop and trigger_now keep the types.
LEMMA ControlType ==
  ASSUME TypeOK,
         \/ Start \/ StopSignal \/ StopJoined
         \/ \E t \in Threads : Wake(t)
         \/ \E c \in Callers : TriggerNow(c)
  PROVE  TypeOK'
<1>1. CASE Start
  <2>1. PICK t \in Threads : thread' = t /\ batch' = [batch EXCEPT ![t] = Rest(t)]
    BY <1>1 DEF Start
  <2>2. batch' \in [Executors -> BatchState]
    BY <2>1, RestTypes DEF TypeOK, Executors, BatchState
  <2> QED
    BY <1>1, <2>1, <2>2 DEF TypeOK, Start, BatchState
<1>2. CASE StopSignal
  BY <1>2 DEF TypeOK, StopSignal
<1>3. CASE StopJoined
  BY <1>3 DEF TypeOK, StopJoined, Alive
<1>4. ASSUME NEW t \in Threads, Wake(t) PROVE TypeOK'
  <2>1. CASE BeginBatch(t)
    BY <2>1, <1>4, BeginType DEF TypeOK, Wake, Executors, schedulerVars, BatchState
  <2>2. CASE batch' = [batch EXCEPT ![t] = Stopped] /\ UNCHANGED overlapped
    <3>1. Stopped \in BatchState
      BY StoppedType
    <3> QED
      BY <2>2, <3>1, <1>4 DEF TypeOK, Wake, schedulerVars, BatchState
  <2> QED
    BY <2>1, <2>2, <1>4 DEF Wake
<1>5. ASSUME NEW c \in Callers, TriggerNow(c) PROVE TypeOK'
  <2>1. triggers' \in 0..MaxTriggers
    BY <1>5, BoundAssumption DEF TypeOK, TriggerNow
  <2> QED
    BY <1>5, <2>1, BeginType DEF TypeOK, TriggerNow, Executors, schedulerVars, BatchState
<1> QED
  BY <1>1, <1>2, <1>3, <1>4, <1>5

\* A step of one executor that keeps the type of what the executor does, of the
\* table and of the counts keeps the types.
LEMMA GotoType ==
  ASSUME TypeOK, NEW e \in Executors, NEW b,
         b \in BatchState,
         Goto(e, b), jobs' \in [Jobs -> JobRow], calls' \in [Jobs -> Nat],
         raises' \in 0..MaxRaises
  PROVE  TypeOK'
BY DEF TypeOK, Goto, schedulerVars, BatchState

\* The steps of a batch keep the types.
LEMMA BatchType ==
  ASSUME TypeOK, NEW e \in Executors, BatchNext(e) \/ Raise(e)
  PROVE  TypeOK'
<1> DEFINE j == batch[e].job
<1>a. /\ j \in Jobs /\ batch[e].row \in JobRow /\ batch[e].asOf \in 0..MaxTime
      /\ batch[e].left \in 0..BatchSize /\ jobs[j] \in JobRow /\ now \in Nat
      /\ jobs \in [Jobs -> JobRow] /\ calls \in [Jobs -> Nat] /\ raises \in 0..MaxRaises
      /\ calls[j] + 1 \in Nat
  BY DEF TypeOK
<1>1. CASE Select(e)
  <2>1. CASE Goto(e, Rest(e))
    BY <1>1, <1>a, <2>1, GotoType, RestTypes DEF Select
  <2>2. CASE batch[e].left > 0 /\ ~Goto(e, Rest(e))
    <3> DEFINE asOf == IF batch[e].left = 1 THEN 0 ELSE batch[e].asOf
               b(k) == [batch[e] EXCEPT !.pc = "update", !.job = k, !.asOf = asOf, !.left = @ - 1]
    <3>1. PICK k \in Jobs : Goto(e, b(k))
      BY <1>1, <2>2 DEF Select
    <3>2. batch[e].left - 1 \in 0..BatchSize /\ asOf \in 0..MaxTime
      BY <1>a, <2>2, BoundAssumption
    <3>3. b(k) \in BatchState
      <4> HIDE DEF asOf
      <4> QED BY <3>2 DEF TypeOK, BatchStep, BatchState
    <3> HIDE DEF b
    <3> QED
      BY <1>1, <1>a, <3>1, <3>3, GotoType DEF Select
  <2> QED
    BY <1>1, <2>1, <2>2 DEF Select
<1>2. CASE Update(e)
  <2>1. jobs' \in [Jobs -> JobRow]
    BY <1>2, <1>a DEF Update, JobRow, JobStatus
  <2>2. [batch[e] EXCEPT !.pc = "reget"] \in BatchState
    BY DEF TypeOK, BatchStep, BatchState
  <2> QED
    BY <1>2, <1>a, <2>1, <2>2, GotoType DEF Update
<1>3. CASE Reget(e)
  <2>1. [batch[e] EXCEPT !.pc = "count", !.row = jobs[j]] \in
           BatchState
    BY <1>a DEF TypeOK, BatchStep, BatchState
  <2> QED
    BY <1>3, <1>a, <2>1, GotoType DEF Reget
<1>4. CASE Count(e)
  <2> DEFINE n == batch[e].row.attempts + 1
             row == [batch[e].row EXCEPT !.attempts = n]
  <2>1. n \in Nat
    BY <1>a DEF JobRow
  <2> HIDE DEF n
  <2>2. row \in JobRow
    BY <1>a, <2>1 DEF JobRow
  <2>3. Save(j, row) /\ Goto(e, [batch[e] EXCEPT !.pc = "execute", !.row = row])
        /\ UNCHANGED raises
    BY <1>4 DEF Count, n
  <2>4. calls' \in [Jobs -> Nat]
    BY <1>4, <1>a DEF Count
  <2> HIDE DEF row
  <2>5. jobs' \in [Jobs -> JobRow]
    BY <2>2, <2>3, <1>a, SaveEffect
  <2>6. [batch[e] EXCEPT !.pc = "execute", !.row = row] \in
           BatchState
    BY <2>2 DEF TypeOK, BatchStep, BatchState
  <2> QED
    BY <2>3, <2>4, <2>5, <2>6, <1>a, GotoType
<1>5. CASE Mark(e)
  <2>1. PICK row \in {[batch[e].row EXCEPT !.status = "succeeded"], FailedRow(batch[e].row)} :
          Save(j, row)
    BY <1>5 DEF Mark
  <2>2. row \in JobRow
    BY <2>1, <1>a, AnswerType
  <2>3. jobs' \in [Jobs -> JobRow]
    BY <2>1, <2>2, <1>a, SaveEffect
  <2> DEFINE b == [Stopped EXCEPT !.pc = "select", !.asOf = batch[e].asOf, !.left = batch[e].left]
  <2>4. b \in BatchState
    BY <1>a, FreshBatchType
  <2> HIDE DEF b
  <2>5. Goto(e, b) /\ UNCHANGED <<raises, calls>>
    BY <1>5 DEF Mark, b
  <2> QED
    BY <2>3, <2>4, <2>5, <1>a, GotoType
<1>6. CASE Raise(e)
  <2>1. raises' \in 0..MaxRaises
    BY <1>6, <1>a, BoundAssumption DEF Raise
  <2> QED
    BY <1>6, <1>a, <2>1, GotoType, RestTypes DEF Raise
<1> QED
  BY <1>1, <1>2, <1>3, <1>4, <1>5, <1>6 DEF BatchNext

\* A new job is a row, and the clock stays within its bound.
LEMMA OtherType ==
  ASSUME TypeOK, Tick \/ \E j \in Jobs, t \in 0..MaxTime : CreateIfNotExists(j, t)
  PROVE  TypeOK'
<1>1. CASE Tick
  BY <1>1, BoundAssumption DEF TypeOK, Tick, schedulerVars
<1>2. ASSUME NEW j \in Jobs, NEW t \in 0..MaxTime, CreateIfNotExists(j, t) PROVE TypeOK'
  <2>1. t \in Nat
    BY BoundAssumption
  <2>2. [NoRow EXCEPT !.status = "queued", !.publishAt = t] \in JobRow
    BY <2>1 DEF NoRow, JobRow, JobStatus, Pending
  <2> QED
    BY <1>2, <2>2 DEF TypeOK, CreateIfNotExists, schedulerVars
<1> QED
  BY <1>1, <1>2

LEMMA TypeStep ==
  ASSUME TypeOK, [Next]_vars PROVE TypeOK'
<1>1. CASE UNCHANGED vars
  BY <1>1 DEF TypeOK, vars, schedulerVars
<1> QED
  BY <1>1, ControlType, BatchType, OtherType DEF Next

-----------------------------------------------------------------------------
(* What a step of a batch does, field by field. *)

\* Only the batch of e moves.
Only(e) ==
  /\ UNCHANGED <<now, overlapped, schedulerVars>>
  /\ \A d \in Executors \ {e} : batch'[d] = batch[d]

LEMMA GotoEffect ==
  ASSUME TypeOK, NEW e \in Executors, NEW b, Goto(e, b)
  PROVE  Only(e) /\ batch'[e] = b
BY DEF TypeOK, Goto, Only

LEMMA SelectEffect ==
  ASSUME TypeOK, NEW e \in Executors, Select(e)
  PROVE  /\ Only(e) /\ UNCHANGED <<jobs, calls>> /\ batch[e].pc = "select"
         /\ batch'[e].asOf \in {0, batch[e].asOf}
         /\ \/ batch'[e] = Rest(e)
            \/ /\ batch'[e].pc = "update" /\ batch'[e].job \in Jobs
               /\ Runnable(batch'[e].job, batch[e].asOf)
<1>1. CASE Goto(e, Rest(e))
  BY <1>1, GotoEffect, RestTypes DEF Select
<1>2. CASE ~Goto(e, Rest(e))
  <2> DEFINE asOf == IF batch[e].left = 1 THEN 0 ELSE batch[e].asOf
             b(k) == [batch[e] EXCEPT !.pc = "update", !.job = k, !.asOf = asOf, !.left = @ - 1]
  <2>1. PICK k \in Jobs : Runnable(k, batch[e].asOf) /\ Goto(e, b(k))
    BY <1>2 DEF Select
  <2>2. asOf \in {0, batch[e].asOf}
    OBVIOUS
  <2>3. b(k).pc = "update" /\ b(k).job = k /\ b(k).asOf = asOf
    <3> HIDE DEF asOf
    <3> QED
      BY DEF TypeOK
  <2> HIDE DEF b
  <2> QED
    BY <2>1, <2>2, <2>3, GotoEffect DEF Select
<1> QED
  BY <1>1, <1>2

LEMMA UpdateEffect ==
  ASSUME TypeOK, NEW e \in Executors, Update(e)
  PROVE  /\ Only(e) /\ UNCHANGED calls /\ batch[e].pc = "update"
         /\ batch'[e].pc = "reget" /\ batch'[e].job = batch[e].job
         /\ batch'[e].asOf = batch[e].asOf
         /\ \A k \in Jobs :
              /\ jobs'[k].attempts = jobs[k].attempts
              /\ jobs'[k].status = IF k = batch[e].job /\ jobs[k].status \in Pending
                                   THEN "running" ELSE jobs[k].status
              /\ k # batch[e].job => jobs'[k] = jobs[k]
<1> DEFINE b == [batch[e] EXCEPT !.pc = "reget"]
<1>1. b.pc = "reget" /\ b.job = batch[e].job /\ b.asOf = batch[e].asOf
  BY DEF TypeOK
<1>2. Goto(e, b) /\ batch[e].pc = "update"
  BY DEF Update
<1> HIDE DEF b
<1>3. \A k \in Jobs :
        /\ jobs'[k].attempts = jobs[k].attempts
        /\ jobs'[k].status = IF k = batch[e].job /\ jobs[k].status \in Pending
                             THEN "running" ELSE jobs[k].status
        /\ k # batch[e].job => jobs'[k] = jobs[k]
  BY DEF Update, TypeOK, JobRow
<1> QED
  BY <1>1, <1>2, <1>3, GotoEffect DEF Update

LEMMA RegetEffect ==
  ASSUME TypeOK, NEW e \in Executors, Reget(e)
  PROVE  /\ Only(e) /\ UNCHANGED <<jobs, calls>> /\ batch[e].pc = "reget"
         /\ batch'[e].pc = "count" /\ batch'[e].job = batch[e].job
         /\ batch'[e].asOf = batch[e].asOf
         /\ batch'[e].row = jobs[batch[e].job]
<1> DEFINE b == [batch[e] EXCEPT !.pc = "count", !.row = jobs[batch[e].job]]
<1>1. b.pc = "count" /\ b.job = batch[e].job /\ b.asOf = batch[e].asOf
      /\ b.row = jobs[batch[e].job]
  BY DEF TypeOK
<1>2. Goto(e, b)
  BY DEF Reget
<1> HIDE DEF b
<1> QED
  BY <1>1, <1>2, GotoEffect DEF Reget

LEMMA CountEffect ==
  ASSUME TypeOK, NEW e \in Executors, Count(e)
  PROVE  /\ Only(e) /\ batch[e].pc = "count"
         /\ calls'[batch[e].job] = calls[batch[e].job] + 1
         /\ \A k \in Jobs \ {batch[e].job} : calls'[k] = calls[k]
         /\ batch'[e].pc = "execute" /\ batch'[e].job = batch[e].job
         /\ batch'[e].asOf = batch[e].asOf
         /\ batch'[e].row.attempts = batch[e].row.attempts + 1
         /\ batch'[e].row.status = batch[e].row.status
         /\ batch'[e].row \in JobRow
         /\ jobs'[batch[e].job].attempts = batch'[e].row.attempts
         /\ jobs'[batch[e].job].status = batch'[e].row.status
         /\ batch[e].row = jobs[batch[e].job] => jobs'[batch[e].job] = batch'[e].row
         /\ \A k \in Jobs \ {batch[e].job} : jobs'[k] = jobs[k]
<1> DEFINE j == batch[e].job
           n == batch[e].row.attempts + 1
           row == [batch[e].row EXCEPT !.attempts = n]
           b == [batch[e] EXCEPT !.pc = "execute", !.row = row]
<1>1. batch[e].row \in JobRow /\ j \in Jobs
  BY DEF TypeOK
<1>2. n \in Nat
  BY <1>1 DEF JobRow
<1>3. Save(j, row) /\ Goto(e, b)
  BY DEF Count
<1> HIDE DEF n
<1>4. row \in JobRow /\ row.attempts = n /\ row.status = batch[e].row.status
  BY <1>1, <1>2 DEF JobRow
<1> HIDE DEF row
<1>5. b.pc = "execute" /\ b.job = j /\ b.asOf = batch[e].asOf /\ b.row = row
  BY DEF TypeOK
<1>6. /\ jobs'[j].attempts = row.attempts /\ jobs'[j].status = row.status
      /\ jobs'[j] = [row EXCEPT !.publishAt = jobs[j].publishAt]
      /\ \A k \in Jobs \ {j} : jobs'[k] = jobs[k]
  BY <1>1, <1>3, <1>4, SaveEffect DEF TypeOK
<1>8. ASSUME batch[e].row = jobs[j] PROVE jobs'[j] = row
  <2>1. row.publishAt = jobs[j].publishAt
    BY <1>1, <1>8 DEF row, JobRow
  <2> QED
    BY <1>4, <1>6, <2>1 DEF JobRow
<1>9. /\ calls'[j] = calls[j] + 1
      /\ \A k \in Jobs \ {j} : calls'[k] = calls[k]
  BY <1>1 DEF Count, TypeOK
<1>7. batch'[e] = b /\ Only(e)
  BY <1>3, GotoEffect
<1> HIDE DEF b
<1> QED
  BY <1>4, <1>5, <1>6, <1>7, <1>8, <1>9 DEF Count, n

LEMMA MarkEffect ==
  ASSUME TypeOK, NEW e \in Executors, Mark(e)
  PROVE  /\ Only(e) /\ UNCHANGED calls /\ batch[e].pc = "execute"
         /\ batch'[e].pc = "select" /\ batch'[e].asOf = batch[e].asOf
         /\ jobs'[batch[e].job].attempts = batch[e].row.attempts
         /\ jobs'[batch[e].job].status \in {"succeeded", "retry_wait", "failed"}
         /\ jobs'[batch[e].job].status = "retry_wait" => batch[e].row.attempts < MaxAttempts
         /\ \A k \in Jobs \ {batch[e].job} : jobs'[k] = jobs[k]
<1> DEFINE b == [Stopped EXCEPT !.pc = "select", !.asOf = batch[e].asOf, !.left = batch[e].left]
<1>1. /\ batch[e].row \in JobRow /\ batch[e].job \in Jobs /\ now \in Nat
      /\ batch[e].asOf \in 0..MaxTime /\ batch[e].left \in 0..BatchSize
      /\ jobs \in [Jobs -> JobRow]
  BY DEF TypeOK
<1>2. b.pc = "select" /\ b.asOf = batch[e].asOf
  BY <1>1, StoppedType DEF BatchState
<1>3. Goto(e, b) /\ UNCHANGED calls /\ batch[e].pc = "execute"
  BY DEF Mark
<1> HIDE DEF b
<1>4. PICK row \in {[batch[e].row EXCEPT !.status = "succeeded"], FailedRow(batch[e].row)} :
        Save(batch[e].job, row)
  BY DEF Mark
<1>5. /\ row \in JobRow
      /\ row.attempts = batch[e].row.attempts
      /\ row.status \in {"succeeded", "retry_wait", "failed"}
      /\ row.status = "retry_wait" => row.attempts < MaxAttempts
  BY <1>1, AnswerType
<1>6. /\ jobs'[batch[e].job].status = row.status
      /\ jobs'[batch[e].job].attempts = row.attempts
      /\ \A k \in Jobs \ {batch[e].job} : jobs'[k] = jobs[k]
  BY <1>1, <1>4, <1>5, SaveEffect
<1> QED
  BY <1>2, <1>3, <1>5, <1>6, GotoEffect

LEMMA RaiseEffect ==
  ASSUME TypeOK, NEW e \in Executors, Raise(e)
  PROVE  Only(e) /\ UNCHANGED <<jobs, calls>> /\ Busy(e) /\ batch'[e] = Rest(e)
BY GotoEffect DEF Raise

-----------------------------------------------------------------------------
(* One polling thread. *)

\* A step of a batch neither ends the life of a thread nor begins one.
LEMMA BatchKeepsThreads ==
  ASSUME TypeOK, NEW e \in Executors, BatchNext(e) \/ Raise(e)
  PROVE  /\ UNCHANGED schedulerVars
         /\ \A t \in Threads : Alive(t)' <=> Alive(t)
<1>1. Only(e) /\ batch[e].pc \in BatchStep /\ (e \in Threads => batch'[e].pc # "stopped")
  BY SelectEffect, UpdateEffect, RegetEffect, CountEffect, MarkEffect, RaiseEffect, RestTypes
     DEF BatchNext, BatchStep, Busy
<1> QED
  BY <1>1 DEF Only, Alive, BatchStep, Executors

LEMMA PollerStep ==
  ASSUME TypeOK, TypeOK', PollerInv, [Next]_vars
  PROVE  PollerInv'
<1>1. CASE UNCHANGED vars
  BY <1>1 DEF vars, schedulerVars, PollerInv, Alive
<1>2. CASE Start
  <2>1. PICK t \in Threads :
          ~Alive(t) /\ thread' = t /\ batch' = [batch EXCEPT ![t] = Rest(t)]
    BY <1>2 DEF Start
  <2>2. \A s \in Threads : Alive(s)' <=> Alive(s) \/ s = t
    BY <2>1, RestTypes DEF Alive, TypeOK, Executors
  <2> QED
    BY <1>2, <2>1, <2>2 DEF Start, PollerInv
<1>3. CASE StopSignal
  BY <1>3 DEF StopSignal, PollerInv, Alive
<1>4. CASE StopJoined
  <2>1. \A s \in Threads : Alive(s)' <=> Alive(s)
    BY <1>4 DEF StopJoined, Alive
  <2> QED
    BY <1>4, <2>1 DEF StopJoined, PollerInv, TypeOK
<1>5. ASSUME NEW t \in Threads, Wake(t) PROVE PollerInv'
  <2>1. CASE stopEvent
    <3>1. \A s \in Threads : Alive(s)' => Alive(s)
      BY <1>5, <2>1, StoppedType DEF Wake, Alive, TypeOK, Executors
    <3> QED
      BY <1>5, <2>1, <3>1 DEF Wake, PollerInv, schedulerVars
  <2>2. CASE ~stopEvent
    <3>1. BeginBatch(t) /\ UNCHANGED schedulerVars
      BY <1>5, <2>2 DEF Wake
    <3>2. \A s \in Threads : Alive(s)' <=> Alive(s)
      BY <1>5, <3>1, BeginType DEF Wake, Alive, TypeOK, Executors
    <3> QED
      BY <3>1, <3>2 DEF PollerInv, schedulerVars, TypeOK
  <2> QED
    BY <2>1, <2>2
<1>6. ASSUME NEW c \in Callers, TriggerNow(c) PROVE PollerInv'
  <2>1. BeginBatch(c) /\ UNCHANGED schedulerVars
    BY <1>6 DEF TriggerNow
  <2>2. \A s \in Threads : Alive(s)' <=> Alive(s)
    BY <2>1, BeginType, ThreadAssumption DEF Alive, TypeOK, Executors
  <2> QED
    BY <2>1, <2>2 DEF PollerInv, schedulerVars, TypeOK
<1>7. ASSUME NEW e \in Executors, BatchNext(e) \/ Raise(e) PROVE PollerInv'
  BY <1>7, BatchKeepsThreads DEF PollerInv, schedulerVars, TypeOK
<1>8. ASSUME NEW j \in Jobs, NEW t \in 0..MaxTime, CreateIfNotExists(j, t) PROVE PollerInv'
  BY <1>8 DEF CreateIfNotExists, schedulerVars, PollerInv, Alive
<1>9. CASE Tick
  BY <1>9 DEF Tick, schedulerVars, PollerInv, Alive
<1> QED
  BY <1>1, <1>2, <1>3, <1>4, <1>5, <1>6, <1>7, <1>8, <1>9 DEF Next

-----------------------------------------------------------------------------
(* The steps outside a batch, as an executor sees them. *)

\* Executor e is about to select a job, waits or is over.
Unbound(e) == batch[e].pc \in {"select", "waiting", "stopped"}

LEMMA ControlEffect ==
  ASSUME TypeOK,
         \/ Start \/ StopSignal \/ StopJoined
         \/ \E t \in Threads : Wake(t)
         \/ \E c \in Callers : TriggerNow(c)
  PROVE  /\ UNCHANGED <<now, jobs, calls>>
         /\ \/ UNCHANGED <<batch, overlapped>>
            \/ \E e \in Executors :
                 /\ \A d \in Executors \ {e} : batch'[d] = batch[d]
                 /\ batch'[e].asOf \in {0, now} /\ Unbound(e)'
                 /\ \/ ~Busy(e)' /\ UNCHANGED overlapped
                    \/ overlapped' = (overlapped \/ \E f \in Executors \ {e} : Busy(f))
<1>1. CASE Start
  <2>1. PICK t \in Threads : batch' = [batch EXCEPT ![t] = Rest(t)]
    BY <1>1 DEF Start
  <2>2. t \in Executors /\ batch'[t] = Rest(t) /\ \A d \in Executors \ {t} : batch'[d] = batch[d]
    BY <2>1 DEF TypeOK, Executors
  <2>3. Unbound(t)' /\ ~Busy(t)'
    BY <2>2, RestTypes DEF Unbound, Busy, BatchStep
  <2> QED
    BY <1>1, <2>2, <2>3, RestTypes DEF Start
<1>2. CASE StopSignal \/ StopJoined
  BY <1>2 DEF StopSignal, StopJoined
<1>3. ASSUME NEW e \in Executors, BeginBatch(e)
      PROVE  /\ \A d \in Executors \ {e} : batch'[d] = batch[d]
             /\ batch'[e].asOf = now /\ Unbound(e)'
             /\ overlapped' = (overlapped \/ \E f \in Executors \ {e} : Busy(f))
  BY <1>3, BeginType DEF BeginBatch, Unbound, TypeOK
<1>4. ASSUME NEW t \in Threads, Wake(t), ~BeginBatch(t)
      PROVE  /\ \A d \in Executors \ {t} : batch'[d] = batch[d]
             /\ batch'[t].asOf = 0 /\ Unbound(t)' /\ ~Busy(t)' /\ UNCHANGED overlapped
  <2>1. batch' = [batch EXCEPT ![t] = Stopped] /\ UNCHANGED overlapped
    BY <1>4 DEF Wake
  <2>2. batch'[t] = Stopped /\ \A d \in Executors \ {t} : batch'[d] = batch[d]
    BY <2>1 DEF TypeOK, Executors
  <2>3. Stopped.pc = "stopped" /\ Stopped.asOf = 0
    BY DEF Stopped
  <2> QED
    BY <2>1, <2>2, <2>3 DEF Unbound, Busy, BatchStep
<1>5. CASE \E t \in Threads : Wake(t)
  BY <1>3, <1>4, <1>5 DEF Wake, Executors
<1>6. CASE \E c \in Callers : TriggerNow(c)
  BY <1>3, <1>6 DEF TriggerNow, Executors
<1> QED
  BY <1>1, <1>2, <1>5, <1>6

-----------------------------------------------------------------------------
(* The instant of a batch. *)

LEMMA InstantStep ==
  ASSUME TypeOK, InstantInv, [Next]_vars
  PROVE  InstantInv'
<1>1. \A e \in Executors : batch[e].asOf \in Nat /\ now \in Nat
  BY BoundAssumption DEF TypeOK
<1>2. CASE UNCHANGED vars
  BY <1>2 DEF vars, InstantInv
<1>3. CASE \/ Start \/ StopSignal \/ StopJoined
           \/ \E t \in Threads : Wake(t)
           \/ \E c \in Callers : TriggerNow(c)
  BY <1>1, <1>3, ControlEffect DEF InstantInv
<1>4. ASSUME NEW e \in Executors, BatchNext(e) \/ Raise(e) PROVE InstantInv'
  <2>1. Only(e) /\ batch'[e].asOf \in {0, batch[e].asOf}
    BY <1>4, SelectEffect, UpdateEffect, RegetEffect, CountEffect, MarkEffect, RaiseEffect,
       RestTypes DEF BatchNext
  <2> QED
    BY <1>1, <2>1 DEF InstantInv, Only
<1>5. ASSUME NEW j \in Jobs, NEW t \in 0..MaxTime, CreateIfNotExists(j, t) PROVE InstantInv'
  BY <1>5 DEF CreateIfNotExists, InstantInv
<1>6. CASE Tick
  BY <1>1, <1>6 DEF Tick, InstantInv
<1> QED
  BY <1>2, <1>3, <1>4, <1>5, <1>6 DEF Next

-----------------------------------------------------------------------------
(* The attempts of a job. *)

LEMMA OvercountStep ==
  ASSUME TypeOK, AttemptsNotOvercounted, [Next]_vars
  PROVE  AttemptsNotOvercounted'
<1>a. /\ \A j \in Jobs : calls[j] \in Nat /\ jobs[j] \in JobRow /\ jobs[j].attempts \in Nat
      /\ \A e \in Executors : batch[e].job \in Jobs /\ batch[e].row.attempts \in Nat
                              /\ batch[e].row \in JobRow
  BY DEF TypeOK, JobRow
<1> USE DEF AttemptsNotOvercounted
<1>1. CASE UNCHANGED vars
  BY <1>1 DEF vars
<1>2. CASE \/ Start \/ StopSignal \/ StopJoined
           \/ \E t \in Threads : Wake(t)
           \/ \E c \in Callers : TriggerNow(c)
  BY <1>2, ControlEffect DEF Unbound
<1>3. ASSUME NEW e \in Executors, BatchNext(e) \/ Raise(e) PROVE AttemptsNotOvercounted'
  <2>1. CASE Select(e)
    BY <2>1, SelectEffect, RestTypes DEF Only
  <2>2. CASE Update(e)
    BY <2>2, UpdateEffect DEF Only
  <2>3. CASE Reget(e)
    BY <1>a, <2>3, RegetEffect DEF Only
  <2>4. CASE Count(e)
    <3> DEFINE j == batch[e].job
    <3>1. batch[e].row.attempts <= calls[j] /\ j \in Jobs
      BY <1>a, <2>4, CountEffect
    <3>2. calls'[j] = calls[j] + 1 /\ \A k \in Jobs \ {j} : calls'[k] = calls[k]
      BY <2>4, CountEffect
    <3>3. batch'[e].row.attempts <= calls'[j] /\ jobs'[j].attempts <= calls'[j]
          /\ batch'[e].job = j
      BY <1>a, <2>4, CountEffect, <3>1
    <3>4. \A k \in Jobs : jobs'[k].attempts <= calls'[k]
      BY <1>a, <2>4, CountEffect, <3>1, <3>2, <3>3
    <3>5. \A d \in Executors \ {e} : batch'[d] = batch[d]
      BY <2>4, CountEffect DEF Only
    <3>6. \A k \in Jobs : calls[k] <= calls'[k]
      BY <1>a, <3>2
    <3>7. ASSUME NEW d \in Executors, batch'[d].pc \in {"count", "execute"}
          PROVE  batch'[d].row.attempts <= calls'[batch'[d].job]
      <4>1. CASE d = e
        BY <4>1, <3>3
      <4>2. CASE d # e
        <5>1. batch[d].row.attempts <= calls[batch[d].job] /\ batch'[d] = batch[d]
          BY <3>5, <3>7, <4>2
        <5>2. calls'[batch[d].job] \in Nat
          BY <1>a, <3>2
        <5> QED
          BY <5>1, <5>2, <1>a, <3>6
      <4> QED
        BY <4>1, <4>2
    <3> QED
      BY <3>4, <3>7
  <2>5. CASE Mark(e)
    BY <1>a, <2>5, MarkEffect DEF Only
  <2>6. CASE Raise(e)
    BY <2>6, RaiseEffect, RestTypes DEF Only
  <2> QED
    BY <1>3, <2>1, <2>2, <2>3, <2>4, <2>5, <2>6 DEF BatchNext
<1>4. ASSUME NEW j \in Jobs, NEW t \in 0..MaxTime, CreateIfNotExists(j, t)
      PROVE  AttemptsNotOvercounted'
  <2>1. jobs'[j].attempts = 0
    BY <1>4 DEF CreateIfNotExists, TypeOK, NoRow
  <2>2. \A k \in Jobs \ {j} : jobs'[k] = jobs[k]
    BY <1>4 DEF CreateIfNotExists, TypeOK
  <2> QED
    BY <1>a, <1>4, <2>1, <2>2 DEF CreateIfNotExists
<1>5. CASE Tick
  BY <1>5 DEF Tick
<1> QED
  BY <1>1, <1>2, <1>3, <1>4, <1>5 DEF Next

\* While nothing overlaps, a step of one executor that holds no job in a way
\* HolderInv speaks of, and leaves the rows alone, keeps SerialInv.
LEMMA QuietStep ==
  ASSUME SerialInv, ~overlapped, NEW e \in Executors,
         UNCHANGED <<now, jobs, calls>>,
         \A d \in Executors \ {e} : batch'[d] = batch[d],
         Unbound(e)',
         Busy(e)' => \A d \in Executors \ {e} : ~Busy(d)
  PROVE  SerialInv'
<1>1. \A d \in Executors \ {e} : (Busy(d)' <=> Busy(d)) /\ (HolderInv(d) => HolderInv(d)')
  BY DEF Busy, HolderInv, Runnable
<1>2. HolderInv(e)'
  BY DEF HolderInv, Unbound
<1> QED
  BY <1>1, <1>2 DEF SerialInv

\* While nothing overlaps, a step of the executor that is busy keeps SerialInv
\* when it keeps HolderInv of this executor and the counts.
LEMMA HolderStep ==
  ASSUME SerialInv, ~overlapped, NEW e \in Executors, Only(e), Busy(e),
         HolderInv(e)',
         \A j \in Jobs :
           /\ calls'[j] = jobs'[j].attempts /\ calls'[j] <= MaxAttempts
           /\ jobs'[j].status \in Pending => jobs'[j].attempts < MaxAttempts
           /\ jobs'[j].status = "absent" => jobs'[j].attempts = 0
  PROVE  SerialInv'
<1>1. \A d \in Executors \ {e} : ~Busy(d)
  BY DEF SerialInv
<1>2. \A d \in Executors \ {e} : ~Busy(d)'
  BY <1>1 DEF Only, Busy
<1>3. \A d \in Executors \ {e} : HolderInv(d)'
  BY <1>2 DEF HolderInv, Busy, BatchStep
<1> QED
  BY <1>2, <1>3 DEF SerialInv

LEMMA SerialStep ==
  ASSUME TypeOK, TypeOK', InstantInv, SerialInv, [Next]_vars
  PROVE  SerialInv'
<1>0. /\ \A j \in Jobs : calls[j] \in Nat /\ jobs[j] \in JobRow /\ jobs[j].attempts \in Nat
                         /\ jobs[j].publishAt \in Nat /\ jobs[j].nextRetry \in Nat
      /\ \A e \in Executors : batch[e].job \in Jobs /\ batch[e].row \in JobRow
                              /\ batch[e].asOf \in Nat /\ batch[e].asOf <= now
      /\ MaxAttempts \in Nat \ {0} /\ now \in Nat
  BY BoundAssumption DEF TypeOK, JobRow, InstantInv
<1> SUFFICES ASSUME ~overlapped' PROVE SerialInv'
  BY DEF SerialInv
<1>1. CASE UNCHANGED vars
  BY <1>1 DEF vars, SerialInv, HolderInv, Busy, Runnable
<1>2. CASE \/ Start \/ StopSignal \/ StopJoined
           \/ \E t \in Threads : Wake(t)
           \/ \E c \in Callers : TriggerNow(c)
  <2>1. ~overlapped
    BY <1>2, ControlEffect
  <2>2. CASE UNCHANGED batch
    BY <1>2, <2>1, <2>2, ControlEffect DEF SerialInv, HolderInv, Busy, Runnable
  <2>3. CASE ~UNCHANGED batch
    BY <1>2, <2>1, <2>3, ControlEffect, QuietStep
  <2> QED
    BY <2>2, <2>3
<1>3. ASSUME NEW e \in Executors, BatchNext(e) \/ Raise(e) PROVE SerialInv'
  <2> DEFINE j == batch[e].job
  <2>0. /\ ~overlapped /\ Busy(e) /\ Only(e) /\ HolderInv(e)
        /\ \A d \in Executors \ {e} : ~Busy(d)
        /\ \A k \in Jobs :
             /\ calls[k] = jobs[k].attempts /\ calls[k] <= MaxAttempts
             /\ jobs[k].status \in Pending => jobs[k].attempts < MaxAttempts
             /\ jobs[k].status = "absent" => jobs[k].attempts = 0
    <3>1. ~overlapped /\ Busy(e) /\ Only(e)
      BY <1>3, SelectEffect, UpdateEffect, RegetEffect, CountEffect, MarkEffect, RaiseEffect
         DEF BatchNext, Busy, BatchStep, Only
    <3> QED
      BY <3>1 DEF SerialInv
  <2>1. CASE Select(e)
    <3>1. CASE batch'[e] = Rest(e)
      BY <2>0, <2>1, <3>1, SelectEffect, RestTypes, QuietStep DEF Only, Unbound
    <3>2. CASE batch'[e] # Rest(e)
      <4>1. batch'[e].pc = "update" /\ batch'[e].job \in Jobs
            /\ Runnable(batch'[e].job, batch[e].asOf) /\ UNCHANGED <<jobs, calls, now>>
        BY <2>1, <3>2, SelectEffect DEF Only
      <4>2. Runnable(batch'[e].job, now)
        BY <1>0, <4>1 DEF Runnable
      <4>3. HolderInv(e)'
        BY <4>1, <4>2 DEF HolderInv, Runnable
      <4> QED
        BY <2>0, <4>1, <4>3, HolderStep
    <3> QED
      BY <3>1, <3>2
  <2>2. CASE Update(e)
    <3>1. jobs[j].status \in Pending /\ jobs[j].attempts < MaxAttempts
      BY <1>0, <2>0, <2>2, UpdateEffect DEF HolderInv, Runnable, Pending
    <3>2. batch'[e].pc = "reget" /\ batch'[e].job = j
          /\ jobs'[j].status = "running" /\ jobs'[j].attempts = jobs[j].attempts
      BY <1>0, <2>2, <3>1, UpdateEffect
    <3>3. HolderInv(e)'
      BY <3>1, <3>2 DEF HolderInv
    <3>4. \A k \in Jobs :
            /\ calls'[k] = jobs'[k].attempts /\ calls'[k] <= MaxAttempts
            /\ jobs'[k].status \in Pending => jobs'[k].attempts < MaxAttempts
            /\ jobs'[k].status = "absent" => jobs'[k].attempts = 0
      BY <2>0, <2>2, UpdateEffect DEF Pending
    <3> QED
      BY <2>0, <3>3, <3>4, HolderStep
  <2>3. CASE Reget(e)
    <3>1. HolderInv(e)'
      BY <2>0, <2>3, RegetEffect DEF HolderInv
    <3> QED
      BY <2>0, <2>3, <3>1, RegetEffect, HolderStep
  <2>4. CASE Count(e)
    <3>1. batch[e].row = jobs[j] /\ jobs[j].status = "running" /\ jobs[j].attempts < MaxAttempts
      BY <2>0, <2>4, CountEffect DEF HolderInv
    <3>2. /\ batch'[e].pc = "execute" /\ batch'[e].job = j /\ jobs'[j] = batch'[e].row
          /\ jobs'[j].status = "running" /\ jobs'[j].attempts = jobs[j].attempts + 1
          /\ calls'[j] = calls[j] + 1
      BY <2>4, <3>1, CountEffect
    <3>3. HolderInv(e)'
      BY <3>2 DEF HolderInv
    <3>4. \A k \in Jobs \ {j} : jobs'[k] = jobs[k] /\ calls'[k] = calls[k]
      BY <2>4, CountEffect
    <3>5. /\ calls'[j] = jobs'[j].attempts /\ calls'[j] <= MaxAttempts
          /\ jobs'[j].status \notin Pending \cup {"absent"}
      BY <1>0, <2>0, <3>1, <3>2 DEF Pending
    <3>6. \A k \in Jobs :
            /\ calls'[k] = jobs'[k].attempts /\ calls'[k] <= MaxAttempts
            /\ jobs'[k].status \in Pending => jobs'[k].attempts < MaxAttempts
            /\ jobs'[k].status = "absent" => jobs'[k].attempts = 0
      BY <2>0, <3>4, <3>5
    <3> QED
      BY <2>0, <3>3, <3>6, HolderStep
  <2>5. CASE Mark(e)
    <3>1. batch[e].row = jobs[j]
      BY <2>0, <2>5, MarkEffect DEF HolderInv
    <3>2. HolderInv(e)'
      BY <2>5, MarkEffect DEF HolderInv
    <3>3. /\ jobs'[j].attempts = jobs[j].attempts /\ UNCHANGED calls
          /\ jobs'[j].status \in {"succeeded", "retry_wait", "failed"}
          /\ jobs'[j].status = "retry_wait" => jobs[j].attempts < MaxAttempts
          /\ \A k \in Jobs \ {j} : jobs'[k] = jobs[k]
      BY <2>5, <3>1, MarkEffect
    <3>4. \A k \in Jobs :
            /\ calls'[k] = jobs'[k].attempts /\ calls'[k] <= MaxAttempts
            /\ jobs'[k].status \in Pending => jobs'[k].attempts < MaxAttempts
            /\ jobs'[k].status = "absent" => jobs'[k].attempts = 0
      BY <2>0, <3>3 DEF Pending
    <3> QED
      BY <2>0, <3>2, <3>4, HolderStep
  <2>6. CASE Raise(e)
    BY <2>0, <2>6, RaiseEffect, RestTypes, QuietStep DEF Only, Unbound
  <2> QED
    BY <1>3, <2>1, <2>2, <2>3, <2>4, <2>5, <2>6 DEF BatchNext
<1>4. ASSUME NEW j \in Jobs, NEW t \in 0..MaxTime, CreateIfNotExists(j, t) PROVE SerialInv'
  <2>1. /\ jobs'[j].attempts = 0 /\ jobs'[j].status = "queued" /\ jobs[j].status = "absent"
        /\ \A k \in Jobs \ {j} : jobs'[k] = jobs[k]
        /\ UNCHANGED <<now, batch, calls, overlapped>>
    BY <1>4 DEF CreateIfNotExists, TypeOK, NoRow
  <2>2. ASSUME NEW e \in Executors, HolderInv(e) PROVE HolderInv(e)'
    <3>1. CASE batch[e].job = j
      BY <2>1, <2>2, <3>1 DEF HolderInv, Runnable
    <3>2. CASE batch[e].job # j
      <4>1. jobs'[batch[e].job] = jobs[batch[e].job]
        BY <1>0, <2>1, <3>2
      <4> QED
        BY <2>1, <2>2, <4>1 DEF HolderInv, Runnable
    <3> QED
      BY <3>1, <3>2
  <2> QED
    BY <1>0, <2>1, <2>2 DEF SerialInv, Busy, Pending
<1>5. CASE Tick
  <2>1. now' = now + 1 /\ UNCHANGED <<jobs, batch, calls, overlapped>>
    BY <1>5 DEF Tick
  <2>2. \A e \in Executors : HolderInv(e) => HolderInv(e)'
    BY <1>0, <2>1 DEF HolderInv, Runnable
  <2> QED
    BY <2>1, <2>2 DEF SerialInv, Busy
<1> QED
  BY <1>1, <1>2, <1>3, <1>4, <1>5 DEF Next

-----------------------------------------------------------------------------
(* The theorems. *)

Inductive ==
  TypeOK /\ PollerInv /\ InstantInv /\ AttemptsNotOvercounted /\ SerialInv

LEMMA InductiveInit ==
  ASSUME Init PROVE Inductive
<1>1. TypeOK
  BY InitType
<1>2. \A e \in Executors : batch[e].pc = "stopped" /\ batch[e].asOf = 0
  BY DEF Init, Stopped
<1>3. \A j \in Jobs : calls[j] = 0 /\ jobs[j].attempts = 0 /\ jobs[j].status = "absent"
  BY DEF Init, NoRow
<1>4. PollerInv
  BY <1>2 DEF Init, PollerInv, Alive, Executors
<1>5. InstantInv
  BY <1>2 DEF Init, InstantInv
<1>6. AttemptsNotOvercounted
  BY <1>2, <1>3 DEF AttemptsNotOvercounted
<1>7. SerialInv
  BY <1>2, <1>3, BoundAssumption DEF SerialInv, HolderInv, Busy, BatchStep, Pending
<1> QED
  BY <1>1, <1>4, <1>5, <1>6, <1>7 DEF Inductive

LEMMA InductiveStep ==
  ASSUME Inductive, [Next]_vars PROVE Inductive'
BY TypeStep, PollerStep, InstantStep, OvercountStep, SerialStep DEF Inductive

LEMMA InductiveHolds == Spec => []Inductive
<1>1. Init => Inductive
  BY InductiveInit
<1>2. Inductive /\ [Next]_vars => Inductive'
  BY InductiveStep
<1> QED
  BY <1>1, <1>2, PTL DEF Spec

\* DevJobScheduler.start and stop: the variables keep their types, the scheduler
\* that says it runs has a live thread and a clear event, and without a join
\* that timed out there is never a second polling thread.
THEOREM PollerTheorem == Spec => []PollerSound
<1>1. Inductive => PollerSound
  BY DEF Inductive, PollerSound, OnePoller, AtMostOnePoller, RunningHasPoller, PollerInv
<1> QED
  BY <1>1, InductiveHolds, PTL

\* DevJobRunner._execute_and_update: the recorded attempts are never more than
\* the executions begun, whatever overlaps; and without overlapping batches no
\* job is executed more than max_attempts times, whatever raises.
THEOREM AttemptsTheorem == Spec => []AttemptsHonest
<1>1. SerialInv => AttemptsBounded
  BY DEF SerialInv, AttemptsBounded
<1>2. Inductive => AttemptsHonest
  BY <1>1 DEF Inductive, AttemptsHonest
<1> QED
  BY <1>2, InductiveHolds, PTL

\* R3 in the development runner: without overlapping batches the conditional
\* UPDATE of a claim finds the row as due as the SELECT before it did.
THEOREM DueTheorem == Spec => StartsWhenDue
<1> DEFINE Due ==
      \A j \in Jobs :
        ~overlapped' /\ jobs[j].status \in Pending /\ jobs'[j].status = "running" =>
          \/ jobs[j].status = "queued" /\ jobs[j].publishAt <= now
          \/ jobs[j].status = "retry_wait" /\ jobs[j].nextRetry <= now
<1>1. ASSUME Inductive, [Next]_vars PROVE Due
  <2> SUFFICES ASSUME NEW j \in Jobs, ~overlapped', jobs[j].status \in Pending,
                      jobs'[j].status = "running"
               PROVE  Runnable(j, now)
    BY DEF Runnable
  <2>0. TypeOK /\ SerialInv /\ jobs[j].status # "running" /\ jobs'[j] # jobs[j]
    BY <1>1 DEF Inductive, Pending
  <2>1. PICK e \in Executors : BatchNext(e) \/ Raise(e)
    <3>1. CASE \/ Start \/ StopSignal \/ StopJoined
               \/ \E t \in Threads : Wake(t)
               \/ \E c \in Callers : TriggerNow(c)
      BY <2>0, <3>1, ControlEffect
    <3>2. ~ \E k \in Jobs, t \in 0..MaxTime : CreateIfNotExists(k, t)
      BY <2>0 DEF CreateIfNotExists, TypeOK, NoRow
    <3>3. ~ Tick /\ ~ UNCHANGED vars
      BY <2>0 DEF Tick, vars
    <3> QED
      BY <1>1, <3>1, <3>2, <3>3 DEF Next
  <2>2. Only(e) /\ ~overlapped /\ HolderInv(e)
    <3>1. Only(e)
      BY <2>0, <2>1, SelectEffect, UpdateEffect, RegetEffect, CountEffect, MarkEffect,
         RaiseEffect DEF BatchNext
    <3> QED
      BY <2>0, <3>1 DEF Only, SerialInv
  <2>3. CASE Update(e)
    BY <2>0, <2>2, <2>3, UpdateEffect DEF HolderInv
  <2>4. CASE Count(e)
    <3>1. batch[e].job # j
      BY <2>0, <2>2, <2>4, CountEffect DEF HolderInv
    <3> QED
      BY <2>0, <2>4, <3>1, CountEffect
  <2>5. CASE Mark(e)
    BY <2>0, <2>5, MarkEffect
  <2> QED
    BY <2>0, <2>1, <2>3, <2>4, <2>5, SelectEffect, RegetEffect, RaiseEffect DEF BatchNext
<1>2. Spec => [][Due]_vars
  BY <1>1, InductiveHolds, PTL DEF Spec
<1> QED
  BY <1>2 DEF StartsWhenDue

=============================================================================
