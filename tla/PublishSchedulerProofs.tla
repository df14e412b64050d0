----------------------- MODULE PublishSchedulerProofs -----------------------
(***************************************************************************)
(* Proofs about PublishScheduler, for every set of jobs, contents, workers *)
(* and administrators and every value of the bounds.                       *)
(***************************************************************************)
EXTENDS PublishScheduler, TLAPS

-----------------------------------------------------------------------------
(* The values the actions write are rows. *)

\* A row built by create_publish_job is a row.
LEMMA NewRowType ==
  ASSUME NEW c \in Contents, NEW t \in Nat, NEW off \in Int
  PROVE  NewRow(c, t, off) \in JobRow
BY DEF NewRow, JobRow, JobStatus, Pending

\* Absence of a row is encoded as a row.
LEMMA NoRowType == NoRow \in JobRow
<1>1. SomeContent \in Contents
  BY DataAssumption DEF SomeContent
<1>2. NewRow(SomeContent, 0, 0) \in JobRow
  BY <1>1, NewRowType
<1> QED
  BY <1>2 DEF NoRow, JobRow, JobStatus

\* The values of a process that does nothing.
LEMMA IdleTypes ==
  /\ SomeJob \in Jobs
  /\ Idle \in [pc: WorkerStep, job: Jobs, row: JobRow]
  /\ NoRequest \in [op: {"none", "schedule", "unschedule", "reschedule"},
                    job: Jobs, row: JobRow]
<1>1. SomeJob \in Jobs
  BY DataAssumption DEF SomeJob
<1> QED
  BY <1>1, NoRowType DEF Idle, NoRequest, WorkerStep

\* calculate_next_retry looks its table up within its bounds.
LEMMA NextRetryType ==
  ASSUME now \in Nat, NEW n \in Nat \ {0}
  PROVE  NextRetry(n) \in Nat \ {0}
<1> DEFINE i == IF n < Len(Backoff) THEN n ELSE Len(Backoff)
<1>1. Backoff \in Seq(Nat \ {0}) /\ Backoff # <<>>
  BY RetryAssumption
<1>2. Len(Backoff) \in Nat /\ Len(Backoff) > 0
  BY <1>1
<1>3. i \in 1..Len(Backoff)
  BY <1>2
<1>4. Backoff[i] \in Nat \ {0}
  BY <1>1, <1>3
<1>5. NextRetry(n) = now + Backoff[i]
  BY DEF NextRetry
<1> QED
  BY <1>4, <1>5

\* What _handle_failure writes is a row.
LEMMA FailedRowType ==
  ASSUME now \in Nat, NEW row \in JobRow
  PROVE  FailedRow(row) \in JobRow
<1> DEFINE n == row.attempts + 1
<1>1. n \in Nat \ {0}
  BY DEF JobRow
<1>2. NextRetry(n) \in Nat
  BY <1>1, NextRetryType
<1> HIDE DEF n
<1>3. [row EXCEPT !.status = "retry_wait", !.attempts = n,
                  !.nextRetry = NextRetry(n), !.claimedBy = NoWorker] \in JobRow
  BY <1>1, <1>2 DEF JobRow, JobStatus, Pending
<1>4. [row EXCEPT !.status = "failed", !.attempts = n, !.claimedBy = NoWorker] \in JobRow
  BY <1>1 DEF JobRow, JobStatus, Terminal
<1> QED
  BY <1>3, <1>4 DEF FailedRow, n

\* What execute_job writes after a success is a row.
LEMMA SucceededRowType ==
  ASSUME NEW row \in JobRow
  PROVE  [row EXCEPT !.status = "succeeded", !.attempts = @ + 1] \in JobRow
<1> DEFINE n == row.attempts + 1
<1>1. n \in Nat
  BY DEF JobRow
<1> HIDE DEF n
<1>2. [row EXCEPT !.status = "succeeded", !.attempts = n] \in JobRow
  BY <1>1 DEF JobRow, JobStatus, Terminal
<1> QED
  BY <1>2 DEF n

\* What claim_job writes is a row.
LEMMA ClaimedRowType ==
  ASSUME NEW row \in JobRow, NEW w \in Workers
  PROVE  [row EXCEPT !.status = "running", !.claimedBy = w] \in JobRow
BY DEF JobRow, JobStatus

\* A copy that reschedule moved is a row.
LEMMA MovedRowType ==
  ASSUME NEW row \in JobRow, NEW t \in Nat, NEW k \in Int
  PROVE  [row EXCEPT !.publishAt = t, !.key = k] \in JobRow
BY DEF JobRow

\* An upsert keeps the table a table.
LEMMA SaveType ==
  ASSUME NEW j \in Jobs, NEW row \in JobRow,
         jobs \in [Jobs -> JobRow], Save(j, row)
  PROVE  jobs' \in [Jobs -> JobRow]
BY DEF Save

-----------------------------------------------------------------------------
(* Type correctness. *)

\* The steps of the administrators' requests keep the types.
LEMMA AdminType ==
  ASSUME TypeOK, NEW a \in Admins, AdminNext(a)
  PROVE  TypeOK'
<1> USE DEF TypeOK
<1> DEFINE Request == [op: {"none", "schedule", "unschedule", "reschedule"},
                       job: Jobs, row: JobRow]
<1>1. ASSUME NEW op \in {"schedule", "unschedule", "reschedule"}, NEW j \in Jobs,
             NEW row \in JobRow, Arrive(a, op, j, row), used' \subseteq Jobs
      PROVE  TypeOK'
  <2>1. requests' \in 0..MaxRequests
    BY <1>1, TimeAssumption DEF Arrive
  <2>2. admin' \in [Admins -> Request]
    BY <1>1 DEF Arrive
  <2> QED
    BY <1>1, <2>1, <2>2 DEF Arrive, historyVars
<1>2. ASSUME Finish(a), jobs' \in [Jobs -> JobRow], clobbered' \subseteq Jobs
      PROVE  TypeOK'
  <2>1. admin' \in [Admins -> Request]
    BY <1>2, IdleTypes DEF Finish
  <2> QED
    BY <1>2, <2>1 DEF Finish
<1>3. CASE ScheduleCheck(a)
  <2>1. PICK c \in Contents, t \in 0..MaxTime, off \in Offsets, j \in Jobs \ used :
          /\ used' = used \cup {j}
          /\ Arrive(a, "schedule", j, NewRow(c, t, off))
    BY <1>3 DEF ScheduleCheck
  <2>2. NewRow(c, t, off) \in JobRow
    BY NewRowType, TimeAssumption, OffsetAssumption
  <2> QED
    BY <1>1, <2>1, <2>2
<1>4. CASE ScheduleSave(a)
  BY <1>2, <1>4, SaveType DEF ScheduleSave
<1>5. CASE UnscheduleCheck(a)
  BY <1>1, <1>5, NoRowType DEF UnscheduleCheck
<1>6. CASE UnscheduleDelete(a)
  BY <1>2, <1>6, NoRowType DEF UnscheduleDelete
<1>7. CASE RescheduleCheck(a)
  <2>1. PICK j \in Jobs, t \in 0..MaxTime, off \in Offsets :
          /\ Arrive(a, "reschedule", j, [jobs[j] EXCEPT !.publishAt = t, !.key = t + off])
          /\ UNCHANGED used
    BY <1>7 DEF RescheduleCheck
  <2>2. t \in Nat /\ t + off \in Int
    BY TimeAssumption, OffsetAssumption
  <2>3. [jobs[j] EXCEPT !.publishAt = t, !.key = t + off] \in JobRow
    BY <2>2, MovedRowType
  <2> QED
    BY <1>1, <2>1, <2>3
<1>8. CASE RescheduleSave(a)
  BY <1>2, <1>8, SaveType DEF RescheduleSave
<1> QED
  BY <1>3, <1>4, <1>5, <1>6, <1>7, <1>8 DEF AdminNext

\* The steps of a worker keep the types.
LEMMA WorkerType ==
  ASSUME TypeOK, NEW w \in Workers, WorkerNext(w) \/ Crash(w)
  PROVE  TypeOK'
<1> USE DEF TypeOK
<1> DEFINE Local == [pc: WorkerStep, job: Jobs, row: JobRow]
<1>0. worker[w] \in Local /\ worker[w].job \in Jobs /\ worker[w].row \in JobRow
  OBVIOUS
<1>1. ASSUME NEW r \in Local, Step(w, r), content' \in [Contents -> ContentStatus],
             jobs' \in [Jobs -> JobRow], calls' \in [Jobs -> Nat], published' \subseteq Jobs
      PROVE  TypeOK'
  <2>1. worker' \in [Workers -> Local]
    BY <1>1 DEF Step
  <2> QED
    BY <1>1, <2>1 DEF Step
<1>2. \A pc \in WorkerStep : [worker[w] EXCEPT !.pc = pc] \in Local
  BY <1>0
<1>3. CASE ListDue(w)
  <2>1. PICK j \in Due : Step(w, [Idle EXCEPT !.pc = "listed", !.job = j])
    BY <1>3 DEF ListDue
  <2>2. [Idle EXCEPT !.pc = "listed", !.job = j] \in Local
    BY IdleTypes DEF Due, WorkerStep
  <2> QED
    BY <1>1, <1>3, <2>1, <2>2 DEF ListDue
<1>4. CASE Claim(w)
  <2> DEFINE j   == worker[w].job
             row == [jobs[j] EXCEPT !.status = "running", !.claimedBy = w]
  <2>1. row \in JobRow
    BY <1>0, ClaimedRowType
  <2>2. CASE jobs' = [jobs EXCEPT ![j] = row]
             /\ Step(w, [pc |-> "claimed", job |-> j, row |-> row])
    <3>1. [pc |-> "claimed", job |-> j, row |-> row] \in Local
      BY <1>0, <2>1 DEF WorkerStep
    <3>2. jobs' \in [Jobs -> JobRow]
      BY <2>1, <2>2
    <3> QED
      BY <1>1, <1>4, <2>2, <3>1, <3>2 DEF Claim
  <2>3. CASE UNCHANGED jobs /\ Step(w, Idle)
    BY <1>1, <1>4, <2>3, IdleTypes DEF Claim
  <2> QED
    BY <1>4, <2>2, <2>3 DEF Claim
<1>5. CASE Begin(w)
  <2>1. calls' \in [Jobs -> Nat]
    BY <1>0, <1>5 DEF Begin
  <2>2. \E r \in Local : Step(w, r)
    BY <1>2, <1>5, IdleTypes DEF Begin, WorkerStep
  <2> QED
    BY <1>1, <1>5, <2>1, <2>2 DEF Begin
<1>6. CASE PublishRead(w)
  <2>1. \E r \in Local : Step(w, r)
    BY <1>2, <1>6 DEF PublishRead, WorkerStep
  <2> QED
    BY <1>1, <1>6, <2>1 DEF PublishRead
<1>7. CASE PublishWrite(w)
  <2>1. \E r \in Local : Step(w, r)
    BY <1>2, <1>7 DEF PublishWrite, WorkerStep
  <2>2. content' \in [Contents -> ContentStatus] /\ published' \subseteq Jobs
    BY <1>0, <1>7 DEF PublishWrite, ContentStatus, JobRow
  <2> QED
    BY <1>1, <1>7, <2>1, <2>2 DEF PublishWrite
<1>8. CASE SaveSuccess(w)
  <2> DEFINE row == [worker[w].row EXCEPT !.status = "succeeded", !.attempts = @ + 1]
  <2>1. row \in JobRow
    BY <1>0, SucceededRowType
  <2>2. jobs' \in [Jobs -> JobRow]
    BY <1>0, <1>8, <2>1, SaveType DEF SaveSuccess
  <2> QED
    BY <1>1, <1>8, <2>2, IdleTypes DEF SaveSuccess
<1>9. CASE SaveFailure(w)
  <2>1. FailedRow(worker[w].row) \in JobRow
    BY <1>0, FailedRowType, TimeAssumption
  <2>2. jobs' \in [Jobs -> JobRow]
    BY <1>0, <1>9, <2>1, SaveType DEF SaveFailure
  <2> QED
    BY <1>1, <1>9, <2>2, IdleTypes DEF SaveFailure
<1>10. CASE Crash(w)
  BY <1>1, <1>10, IdleTypes DEF Crash
<1> QED
  BY <1>3, <1>4, <1>5, <1>6, <1>7, <1>8, <1>9, <1>10 DEF WorkerNext

\* Initially and after every step the variables have their types.
LEMMA InitType == Init => TypeOK
BY NoRowType, IdleTypes, TimeAssumption DEF Init, TypeOK, ContentStatus

LEMMA NextType == TypeOK /\ [Next]_vars => TypeOK'
<1> SUFFICES ASSUME TypeOK, [Next]_vars PROVE TypeOK'
  OBVIOUS
<1>1. ASSUME NEW c \in Contents, EditContent(c) PROVE TypeOK'
  BY <1>1 DEF EditContent, TypeOK, historyVars
<1>2. ASSUME NEW c \in Contents, DeleteContent(c) PROVE TypeOK'
  BY <1>2, NoRowType DEF DeleteContent, TypeOK, ContentStatus, historyVars
<1>3. CASE Tick
  BY <1>3, TimeAssumption DEF Tick, TypeOK, historyVars
<1>4. CASE UNCHANGED vars
  BY <1>4 DEF TypeOK, vars, historyVars
<1> QED
  BY <1>1, <1>2, <1>3, <1>4, AdminType, WorkerType DEF Next

\* Every variable of the scheduler keeps its type in every behaviour.
THEOREM TypeCorrect == Spec => []TypeOK
BY InitType, NextType, PTL DEF Spec

-----------------------------------------------------------------------------
(* What a step leaves alone. *)

\* A step of one worker is not a step of another, and touches no row and no
\* count but those of the job the worker had in hand.
LEMMA WorkerFrame ==
  ASSUME TypeOK, NEW w \in Workers, WorkerNext(w) \/ Crash(w)
  PROVE  /\ UNCHANGED <<now, used, requests, admin, clobbered>>
         /\ \A v \in Workers : v # w => worker'[v] = worker[v]
         /\ \A k \in Jobs : k # worker[w].job => jobs'[k] = jobs[k] /\ calls'[k] = calls[k]
<1> USE DEF TypeOK, Step
<1>1. CASE ListDue(w)
  BY <1>1 DEF ListDue
<1>2. CASE Claim(w)
  BY <1>2 DEF Claim
<1>3. CASE Begin(w)
  BY <1>3 DEF Begin
<1>4. CASE PublishRead(w)
  BY <1>4 DEF PublishRead
<1>5. CASE PublishWrite(w)
  BY <1>5 DEF PublishWrite
<1>6. CASE SaveSuccess(w)
  BY <1>6 DEF SaveSuccess, Save
<1>7. CASE SaveFailure(w)
  BY <1>7 DEF SaveFailure, Save
<1>8. CASE Crash(w)
  BY <1>8 DEF Crash
<1> QED
  BY <1>1, <1>2, <1>3, <1>4, <1>5, <1>6, <1>7, <1>8 DEF WorkerNext

\* A request is not a step of another request or of a worker, and touches no
\* row but that of its job.
LEMMA AdminFrame ==
  ASSUME TypeOK, NEW a \in Admins, AdminNext(a)
  PROVE  /\ UNCHANGED <<now, content, worker, calls, published>>
         /\ clobbered \subseteq clobbered'
         /\ \A b \in Admins : b # a => admin'[b] = admin[b]
         /\ \A k \in Jobs : k # admin[a].job => jobs'[k] = jobs[k]
<1> USE DEF TypeOK, Arrive, Finish, historyVars
<1>1. CASE ScheduleCheck(a)
  BY <1>1 DEF ScheduleCheck
<1>2. CASE ScheduleSave(a)
  BY <1>2 DEF ScheduleSave, Save
<1>3. CASE UnscheduleCheck(a)
  BY <1>3 DEF UnscheduleCheck
<1>4. CASE UnscheduleDelete(a)
  BY <1>4 DEF UnscheduleDelete
<1>5. CASE RescheduleCheck(a)
  BY <1>5 DEF RescheduleCheck
<1>6. CASE RescheduleSave(a)
  BY <1>6 DEF RescheduleSave, Save
<1> QED
  BY <1>1, <1>2, <1>3, <1>4, <1>5, <1>6 DEF AdminNext

\* What happens to a content item is seen by no process, and removes rows.
LEMMA ContentFrame ==
  ASSUME TypeOK, NEW c \in Contents, EditContent(c) \/ DeleteContent(c)
  PROVE  /\ UNCHANGED <<now, used, requests, worker, admin, historyVars>>
         /\ \A k \in Jobs : jobs'[k] = jobs[k] \/ jobs'[k] = NoRow
BY DEF EditContent, DeleteContent, TypeOK

\* The status of the row that stands for none.
LEMMA NoRowStatus == NoRow.status = "absent"
BY DEF NoRow, NewRow

-----------------------------------------------------------------------------
(* R3: nothing is published early. *)

\* The time check of execute_job is made on the copy that is then published,
\* and the clock does not go back.
LEMMA EarlyStep ==
  TypeOK /\ NeverPublishEarly /\ [Next]_vars => NeverPublishEarly'
<1> SUFFICES ASSUME TypeOK, NeverPublishEarly, [Next]_vars
             PROVE  NeverPublishEarly'
  OBVIOUS
<1>1. ASSUME NEW a \in Admins, AdminNext(a) PROVE NeverPublishEarly'
  BY <1>1, AdminFrame DEF NeverPublishEarly
<1>2. ASSUME NEW w \in Workers, WorkerNext(w) \/ Crash(w) PROVE NeverPublishEarly'
  <2> DEFINE Working == {"reading", "writing", "wrote"}
  <2>1. SUFFICES worker'[w].pc \in Working => worker'[w].row.publishAt <= now'
    BY <1>2, WorkerFrame DEF NeverPublishEarly
  <2> USE DEF TypeOK, NeverPublishEarly, Step
  <2>2. CASE ListDue(w)
    BY <2>2 DEF ListDue, Idle
  <2>3. CASE Claim(w)
    BY <2>3 DEF Claim, Idle
  <2>4. CASE Begin(w)
    BY <2>4 DEF Begin, Idle
  <2>5. CASE PublishRead(w)
    BY <2>5 DEF PublishRead
  <2>6. CASE PublishWrite(w)
    BY <2>6 DEF PublishWrite
  <2>7. CASE SaveSuccess(w) \/ SaveFailure(w) \/ Crash(w)
    BY <2>7 DEF SaveSuccess, SaveFailure, Crash, Idle
  <2> QED
    BY <1>2, <2>2, <2>3, <2>4, <2>5, <2>6, <2>7 DEF WorkerNext
<1>3. ASSUME NEW c \in Contents, EditContent(c) \/ DeleteContent(c) PROVE NeverPublishEarly'
  BY <1>3, ContentFrame DEF NeverPublishEarly
<1>4. CASE Tick
  BY <1>4, TimeAssumption DEF Tick, NeverPublishEarly, TypeOK, JobRow
<1>5. CASE UNCHANGED vars
  BY <1>5 DEF vars, NeverPublishEarly
<1> QED
  BY <1>1, <1>2, <1>3, <1>4, <1>5 DEF Next

\* No worker publishes a job before its instant.
THEOREM PublishedInTime == Spec => []NeverPublishEarly
<1>1. Init => NeverPublishEarly
  BY DEF Init, NeverPublishEarly, Idle
<1> QED
  BY <1>1, InitType, NextType, EarlyStep, PTL DEF Spec

-----------------------------------------------------------------------------
(* Ids are fresh, and a queued row has not been tried. *)

\* A request whose check has just passed has the operation and job it was
\* given; a request that is done has none.
LEMMA RequestStep ==
  ASSUME TypeOK, NEW a \in Admins, AdminNext(a)
  PROVE  \/ admin'[a].op = "none" /\ used' = used
         \/ /\ admin'[a].op = "schedule" /\ admin'[a].job \notin used
            /\ used' = used \cup {admin'[a].job}
            /\ admin'[a].row.status = "queued" /\ admin'[a].row.attempts = 0
            /\ admin[a].op = "none" /\ jobs' = jobs /\ clobbered' = clobbered
         \/ /\ admin'[a].op \in {"unschedule", "reschedule"}
            /\ jobs[admin'[a].job].status = "queued"
            /\ admin'[a].op = "reschedule" =>
                 /\ admin'[a].row.status = "queued"
                 /\ admin'[a].row.attempts = jobs[admin'[a].job].attempts
            /\ used' = used
            /\ admin[a].op = "none" /\ jobs' = jobs /\ clobbered' = clobbered
<1> USE DEF TypeOK
<1>1. CASE ScheduleCheck(a)
  <2>1. PICK c \in Contents, t \in 0..MaxTime, off \in Offsets, j \in Jobs \ used :
          /\ used' = used \cup {j}
          /\ Arrive(a, "schedule", j, NewRow(c, t, off))
    BY <1>1 DEF ScheduleCheck
  <2> QED
    BY <2>1 DEF NewRow, Arrive, historyVars
<1>2. CASE UnscheduleCheck(a)
  BY <1>2 DEF UnscheduleCheck, Arrive, historyVars
<1>3. CASE RescheduleCheck(a)
  <2>1. PICK j \in Jobs, t \in 0..MaxTime, off \in Offsets :
          /\ jobs[j].status = "queued"
          /\ Arrive(a, "reschedule", j, [jobs[j] EXCEPT !.publishAt = t, !.key = t + off])
          /\ UNCHANGED used
    BY <1>3 DEF RescheduleCheck
  <2>2. jobs[j] \in JobRow
    OBVIOUS
  <2>3. [jobs[j] EXCEPT !.publishAt = t, !.key = t + off].status = "queued"
    BY <2>1, <2>2 DEF JobRow
  <2>4. [jobs[j] EXCEPT !.publishAt = t, !.key = t + off].attempts = jobs[j].attempts
    BY <2>2 DEF JobRow
  <2>5. admin'[a].op = "reschedule" /\ admin'[a].job = j
        /\ admin'[a].row = [jobs[j] EXCEPT !.publishAt = t, !.key = t + off]
    BY <2>1 DEF Arrive
  <2> QED
    BY <2>1, <2>3, <2>4, <2>5 DEF Arrive, historyVars
<1>4. CASE ScheduleSave(a) \/ UnscheduleDelete(a) \/ RescheduleSave(a)
  BY <1>4 DEF ScheduleSave, UnscheduleDelete, RescheduleSave, Finish, NoRequest
<1> QED
  BY <1>1, <1>2, <1>3, <1>4 DEF AdminNext

\* What a request that writes leaves in the table.
LEMMA RequestWrite ==
  ASSUME TypeOK, NEW a \in Admins, AdminNext(a)
  PROVE  \/ jobs' = jobs
         \/ /\ admin[a].op = "schedule" /\ admin'[a].op = "none" /\ used' = used
            /\ jobs' = [jobs EXCEPT ![admin[a].job] = admin[a].row]
         \/ /\ admin[a].op = "unschedule" /\ admin'[a].op = "none" /\ used' = used
            /\ jobs' = [jobs EXCEPT ![admin[a].job] = NoRow]
         \/ /\ admin[a].op = "reschedule" /\ admin'[a].op = "none" /\ used' = used
            /\ jobs' = [jobs EXCEPT ![admin[a].job] = admin[a].row]
            /\ jobs[admin[a].job].status = "queued" \/ admin[a].job \in clobbered'
<1> USE DEF TypeOK, Arrive, Finish, NoRequest, Save
<1>1. CASE ScheduleCheck(a) \/ UnscheduleCheck(a) \/ RescheduleCheck(a)
  BY <1>1 DEF ScheduleCheck, UnscheduleCheck, RescheduleCheck
<1>2. CASE ScheduleSave(a)
  BY <1>2 DEF ScheduleSave
<1>3. CASE UnscheduleDelete(a)
  BY <1>3 DEF UnscheduleDelete
<1>4. CASE RescheduleSave(a)
  BY <1>4 DEF RescheduleSave
<1> QED
  BY <1>1, <1>2, <1>3, <1>4 DEF AdminNext

\* What a worker's step does to the job in its hands: it takes a pending row,
\* or it goes on with a job it holds, or it lets go.
LEMMA HoldStep ==
  ASSUME TypeOK, NEW w \in Workers, WorkerNext(w) \/ Crash(w)
  PROVE  LET j == worker[w].job IN
         \/ /\ worker'[w].pc \in {"idle", "listed"} /\ jobs' = jobs /\ calls' = calls
         \/ /\ worker[w].pc = "listed" /\ jobs[j].status \in Pending
            /\ worker'[w].pc = "claimed" /\ worker'[w].job = j
            /\ worker'[w].row.attempts = jobs[j].attempts
            /\ jobs'[j].status = "running" /\ jobs'[j].attempts = jobs[j].attempts
            /\ calls' = calls
         \/ /\ Holds(w, j) /\ jobs' = jobs
            /\ worker'[w].pc \notin {"idle", "listed", "claimed"} /\ worker'[w].job = j
            /\ worker'[w].row = worker[w].row
            /\ calls' = IF worker[w].pc = "claimed" THEN [calls EXCEPT ![j] = @ + 1] ELSE calls
         \/ /\ Holds(w, j) /\ worker[w].pc # "claimed"
            /\ worker'[w].pc = "idle" /\ calls' = calls
            /\ \/ /\ jobs'[j].status = "succeeded" /\ worker[w].pc = "wrote"
                  /\ jobs'[j].attempts = worker[w].row.attempts + 1
               \/ jobs'[j] = FailedRow(worker[w].row)
<1> USE DEF TypeOK, Step, Holds
<1> DEFINE j == worker[w].job
<1>0. worker[w].row \in JobRow /\ jobs[j] \in JobRow
  OBVIOUS
<1>1. CASE ListDue(w)
  BY <1>1 DEF ListDue, Idle
<1>2. CASE Claim(w)
  <2> DEFINE row == [jobs[j] EXCEPT !.status = "running", !.claimedBy = w]
  <2>1. row.status = "running" /\ row.attempts = jobs[j].attempts
    BY <1>0 DEF JobRow
  <2>2. CASE UNCHANGED jobs /\ Step(w, Idle)
    BY <1>2, <2>2 DEF Claim, Idle
  <2>3. CASE jobs[j].status \in Pending /\ jobs' = [jobs EXCEPT ![j] = row]
             /\ Step(w, [pc |-> "claimed", job |-> j, row |-> row])
    <3> HIDE DEF row
    <3>1. worker'[w] = [pc |-> "claimed", job |-> j, row |-> row] /\ jobs'[j] = row
      BY <2>3
    <3>2. worker'[w].pc = "claimed" /\ worker'[w].job = j /\ worker'[w].row = row
      BY <3>1
    <3> QED
      BY <1>2, <2>1, <2>3, <3>1, <3>2 DEF Claim
  <2> QED
    BY <1>2, <2>2, <2>3 DEF Claim
<1>3. CASE Begin(w)
  BY <1>3 DEF Begin, Idle
<1>4. CASE PublishRead(w)
  BY <1>4 DEF PublishRead
<1>5. CASE PublishWrite(w)
  BY <1>5 DEF PublishWrite
<1>6. CASE SaveSuccess(w)
  <2> DEFINE n   == worker[w].row.attempts + 1
             row == [worker[w].row EXCEPT !.status = "succeeded", !.attempts = n]
  <2> HIDE DEF n
  <2>1. row.status = "succeeded" /\ row.attempts = n
    BY <1>0 DEF JobRow
  <2> HIDE DEF row
  <2>2. jobs' = jobs \/ jobs'[j] = row
    BY <1>6 DEF SaveSuccess, Save, row, n
  <2> QED
    BY <1>6, <2>1, <2>2 DEF SaveSuccess, Idle, n
<1>7. CASE SaveFailure(w)
  BY <1>7 DEF SaveFailure, Save, Idle
<1>8. CASE Crash(w)
  BY <1>8 DEF Crash, Idle
<1> QED
  BY <1>1, <1>2, <1>3, <1>4, <1>5, <1>6, <1>7, <1>8 DEF WorkerNext

\* The requests and the workers keep ids fresh.
LEMMA FreshStep == TypeOK /\ FreshIds /\ [Next]_vars => FreshIds'
<1> SUFFICES ASSUME TypeOK, FreshIds, [Next]_vars PROVE FreshIds'
  OBVIOUS
<1> USE DEF TypeOK
<1>1. ASSUME NEW a \in Admins, AdminNext(a) PROVE FreshIds'
  <2>1. UNCHANGED <<worker, calls>> /\ \A b \in Admins : b # a => admin'[b] = admin[b]
    BY <1>1, AdminFrame
  <2>2. \A k \in Jobs : Untouched(k)' <=> jobs'[k].status = "absent" /\ calls[k] = 0
                                            /\ \A w \in Workers : ~Holds(w, k)
    BY <2>1 DEF Untouched, Holds
  <2>3. admin[a].job \in Jobs /\ admin'[a].job \in Jobs
    BY <1>1, AdminType
  <2>4. CASE admin'[a].op = "none" /\ used' = used
    <3>1. ASSUME NEW k \in Jobs \ used
          PROVE  Untouched(k)' /\ \A b \in Admins : admin'[b].op = "none" \/ admin'[b].job # k
      <4>1. jobs'[k] = jobs[k]
        BY <1>1, <3>1, RequestWrite DEF FreshIds
      <4> QED
        BY <2>1, <2>2, <2>4, <3>1, <4>1 DEF FreshIds, Untouched
    <3>2. ASSUME NEW b \in Admins, admin'[b].op = "schedule"
          PROVE  /\ Untouched(admin[b].job)' /\ admin'[b] = admin[b]
                 /\ \A d \in Admins : admin'[d].op # "none" /\ admin'[d].job = admin[b].job => d = b
      <4>1. b # a /\ admin'[b] = admin[b]
        BY <2>1, <2>4, <3>2
      <4>2. jobs'[admin[b].job] = jobs[admin[b].job]
        BY <1>1, <3>2, <4>1, RequestWrite DEF FreshIds
      <4> QED
        BY <2>1, <2>2, <2>4, <3>2, <4>1, <4>2, SMTT(30) DEF FreshIds, Untouched
    <3> QED
      BY <2>4, <3>1, <3>2 DEF FreshIds
  <2>5. CASE /\ admin'[a].op = "schedule" /\ admin'[a].job \notin used
             /\ used' = used \cup {admin'[a].job} /\ jobs' = jobs
    <3>1. \A k \in Jobs : Untouched(k)' <=> Untouched(k)
      BY <2>2, <2>5 DEF Untouched
    <3>2. Untouched(admin'[a].job)
          /\ \A b \in Admins : admin[b].op = "none" \/ admin[b].job # admin'[a].job
      BY <2>3, <2>5 DEF FreshIds
    <3>3. \A b \in Admins : admin[b].op = "schedule" =>
            Untouched(admin[b].job) /\ admin[b].job \in Jobs /\ admin[b].job \in used
      BY DEF FreshIds
    <3>4. \A k \in Jobs \ used' :
            Untouched(k)' /\ \A b \in Admins : admin'[b].op = "none" \/ admin'[b].job # k
      BY <2>1, <2>5, <3>1 DEF FreshIds
    <3>5. ASSUME NEW b \in Admins, admin'[b].op = "schedule"
          PROVE  /\ Untouched(admin[b].job)'
                 /\ \A d \in Admins : admin'[d].op # "none" /\ admin'[d].job = admin'[b].job => d = b
      <4>1. CASE b = a
        BY <2>1, <2>3, <3>1, <3>2, <4>1
      <4>2. CASE b # a
        BY <2>1, <2>5, <3>1, <3>2, <3>3, <3>5, <4>2 DEF FreshIds
      <4> QED
        BY <4>1, <4>2
    <3> QED
      BY <3>4, <3>5 DEF FreshIds
  <2>6. CASE /\ admin'[a].op \in {"unschedule", "reschedule"}
             /\ jobs[admin'[a].job].status = "queued" /\ used' = used /\ jobs' = jobs
    BY <2>1, <2>2, <2>3, <2>6, SMTT(30) DEF FreshIds, Untouched
  <2> QED
    BY <1>1, <2>4, <2>5, <2>6, RequestStep
<1>2. ASSUME NEW w \in Workers, WorkerNext(w) \/ Crash(w) PROVE FreshIds'
  <2>1. UNCHANGED <<used, admin>>
    BY <1>2, WorkerFrame
  <2>2. ASSUME NEW k \in Jobs, Untouched(k) PROVE Untouched(k)'
    <3>1. jobs'[k].status = "absent" /\ calls'[k] = 0 /\ ~Holds(w, k)'
      BY <1>2, <2>2, WorkerFrame, HoldStep DEF Untouched, Holds, Pending
    <3>2. \A v \in Workers : v # w => ~Holds(v, k)'
      BY <1>2, <2>2, WorkerFrame DEF Untouched, Holds
    <3> QED
      BY <3>1, <3>2 DEF Untouched
  <2> QED
    BY <2>1, <2>2 DEF FreshIds
<1>3. ASSUME NEW c \in Contents, EditContent(c) \/ DeleteContent(c) PROVE FreshIds'
  <2>1. \A k \in Jobs : Untouched(k) => Untouched(k)'
    BY <1>3, ContentFrame, NoRowStatus DEF Untouched, Holds, historyVars
  <2> QED
    BY <1>3, <2>1, ContentFrame DEF FreshIds
<1>4. CASE Tick \/ UNCHANGED vars
  BY <1>4 DEF Tick, vars, historyVars, FreshIds, Untouched, Holds
<1> QED
  BY <1>1, <1>2, <1>3, <1>4 DEF Next

\* No step brings a tried row back to the queue.
LEMMA QueuedStep == TypeOK /\ QueuedUntried /\ [Next]_vars => QueuedUntried'
<1> SUFFICES ASSUME TypeOK, QueuedUntried, [Next]_vars PROVE QueuedUntried'
  OBVIOUS
<1> USE DEF TypeOK
<1>1. ASSUME NEW a \in Admins, AdminNext(a) PROVE QueuedUntried'
  <2>1. \A b \in Admins : b # a => admin'[b] = admin[b]
    BY <1>1, AdminFrame
  <2>2. admin'[a].job \in Jobs
    BY <1>1, AdminType
  <2>3. admin'[a].op \in {"schedule", "reschedule"} =>
          admin'[a].row.status = "queued" /\ admin'[a].row.attempts = 0
    BY <1>1, <2>2, RequestStep DEF QueuedUntried
  <2>4. \A j \in Jobs : jobs'[j].status = "queued" => jobs'[j].attempts = 0
    BY <1>1, RequestWrite, NoRowStatus, ZenonT(40) DEF QueuedUntried
  <2> QED
    BY <2>1, <2>3, <2>4 DEF QueuedUntried
<1>2. ASSUME NEW w \in Workers, WorkerNext(w) \/ Crash(w) PROVE QueuedUntried'
  <2> DEFINE j == worker[w].job
  <2>1. worker[w].row \in JobRow
    OBVIOUS
  <2>2. jobs'[j] = jobs[j] \/ jobs'[j].status # "queued"
    <3>1. FailedRow(worker[w].row).status # "queued"
      BY <2>1 DEF FailedRow, JobRow
    <3> QED
      BY <1>2, <3>1, HoldStep
  <2>3. \A k \in Jobs : jobs'[k].status = "queued" => jobs'[k].attempts = 0
    BY <1>2, <2>2, WorkerFrame DEF QueuedUntried
  <2> QED
    BY <1>2, <2>3, WorkerFrame DEF QueuedUntried
<1>3. ASSUME NEW c \in Contents, EditContent(c) \/ DeleteContent(c) PROVE QueuedUntried'
  BY <1>3, ContentFrame, NoRowStatus DEF QueuedUntried
<1>4. CASE Tick \/ UNCHANGED vars
  BY <1>4 DEF Tick, vars, QueuedUntried
<1> QED
  BY <1>1, <1>2, <1>3, <1>4 DEF Next

-----------------------------------------------------------------------------
(* I4: one worker at a time. *)

\* A pending job has no holder, so that the claim makes the only one.
LEMMA HeldStep == TypeOK /\ FreshIds /\ HeldByOwner /\ [Next]_vars => HeldByOwner'
<1> SUFFICES ASSUME TypeOK, FreshIds, HeldByOwner, [Next]_vars PROVE HeldByOwner'
  OBVIOUS
<1> USE DEF TypeOK
<1>1. ASSUME NEW a \in Admins, AdminNext(a) PROVE HeldByOwner'
  <2>1. worker' = worker /\ clobbered \subseteq clobbered'
    BY <1>1, AdminFrame
  <2>2. ASSUME NEW j \in Jobs \ clobbered', NEW w \in Workers, Holds(w, j)
        PROVE  jobs'[j].status \in {"running", "absent"}
    <3>1. jobs[j].status \in {"running", "absent"}
      BY <2>1, <2>2 DEF HeldByOwner
    <3>2. \A b \in Admins : ~(admin[b].op = "schedule" /\ admin[b].job = j)
      BY <2>2 DEF FreshIds, Untouched
    <3> QED
      BY <1>1, <2>2, <3>1, <3>2, RequestWrite, NoRowStatus
  <2> QED
    BY <2>1, <2>2 DEF HeldByOwner, OneWorkerPerJob, Holds
<1>2. ASSUME NEW w \in Workers, WorkerNext(w) \/ Crash(w) PROVE HeldByOwner'
  <2> DEFINE i == worker[w].job
  <2>1. clobbered' = clobbered /\ \A v \in Workers : v # w => worker'[v] = worker[v]
    BY <1>2, WorkerFrame
  <2>2. ASSUME NEW j \in Jobs, Holds(w, j)'
        PROVE  /\ j = i
               /\ \/ jobs[j].status \in Pending /\ jobs'[j].status = "running"
                  \/ Holds(w, j) /\ jobs'[j] = jobs[j]
    BY <1>2, <2>2, HoldStep DEF Holds
  <2>3. ASSUME NEW j \in Jobs \ clobbered, NEW v \in Workers, v # w, Holds(v, j)
        PROVE  ~Holds(w, j)' /\ jobs'[j].status \in {"running", "absent"}
    <3>1. jobs[j].status \in {"running", "absent"} /\ ~Holds(w, j)
      BY <2>3 DEF HeldByOwner, OneWorkerPerJob
    <3>2. ~Holds(w, j)'
      BY <2>2, <3>1 DEF Pending
    <3>3. jobs'[j] = jobs[j]
      BY <1>2, <3>1, WorkerFrame, HoldStep DEF Pending
    <3> QED
      BY <3>1, <3>2, <3>3
  <2>4. ASSUME NEW j \in Jobs \ clobbered, Holds(w, j)'
        PROVE  jobs'[j].status \in {"running", "absent"}
    BY <2>2, <2>4 DEF HeldByOwner
  <2>5. \A v \in Workers, j \in Jobs : v # w => (Holds(v, j)' <=> Holds(v, j))
    BY <2>1 DEF Holds
  <2>6. OneWorkerPerJob'
    BY <2>1, <2>3, <2>5 DEF OneWorkerPerJob, HeldByOwner
  <2> QED
    BY <2>1, <2>3, <2>4, <2>5, <2>6 DEF HeldByOwner
<1>3. ASSUME NEW c \in Contents, EditContent(c) \/ DeleteContent(c) PROVE HeldByOwner'
  BY <1>3, ContentFrame, NoRowStatus DEF HeldByOwner, OneWorkerPerJob, Holds, historyVars
<1>4. CASE Tick \/ UNCHANGED vars
  BY <1>4 DEF Tick, vars, historyVars, HeldByOwner, OneWorkerPerJob, Holds
<1> QED
  BY <1>1, <1>2, <1>3, <1>4 DEF Next

-----------------------------------------------------------------------------
(* I3: the retries are bounded. *)

\* What _handle_failure writes below the last attempt.
LEMMA FailedRowAttempts ==
  ASSUME NEW row \in JobRow
  PROVE  /\ FailedRow(row).status \in {"retry_wait", "failed"}
         /\ FailedRow(row).status = "retry_wait" =>
              FailedRow(row).attempts = row.attempts + 1 /\ row.attempts + 1 < MaxAttempts
<1> DEFINE n == row.attempts + 1
<1> HIDE DEF n
<1>1. [row EXCEPT !.status = "retry_wait", !.attempts = n,
                  !.nextRetry = NextRetry(n), !.claimedBy = NoWorker].attempts = n
  BY DEF JobRow
<1>2. [row EXCEPT !.status = "failed", !.attempts = n, !.claimedBy = NoWorker].status = "failed"
  BY DEF JobRow
<1>3. [row EXCEPT !.status = "retry_wait", !.attempts = n,
                  !.nextRetry = NextRetry(n), !.claimedBy = NoWorker].status = "retry_wait"
  BY DEF JobRow
<1> QED
  BY <1>1, <1>2, <1>3 DEF FailedRow, n

\* The count of a job that no stale reschedule touched is covered by its row.
LEMMA CoverStep ==
  TypeOK /\ FreshIds /\ QueuedUntried /\ HeldByOwner /\ AttemptsCover /\ [Next]_vars
    => AttemptsCover'
<1> SUFFICES ASSUME TypeOK, FreshIds, QueuedUntried, HeldByOwner, AttemptsCover, [Next]_vars
             PROVE  AttemptsCover'
  OBVIOUS
<1> USE DEF TypeOK
<1>1. ASSUME NEW a \in Admins, AdminNext(a) PROVE AttemptsCover'
  <2>1. UNCHANGED <<worker, calls>> /\ clobbered \subseteq clobbered'
    BY <1>1, AdminFrame
  <2>2. ASSUME NEW j \in Jobs \ clobbered'
        PROVE  \/ jobs'[j] = jobs[j] \/ jobs'[j].status = "absent"
               \/ calls[j] = 0 /\ jobs'[j].status = "queued"
    <3>1. Covered(j)
      BY <2>1, <2>2 DEF AttemptsCover
    <3> QED
      BY <1>1, <2>2, <3>1, RequestWrite, NoRowStatus
      DEF Covered, QueuedUntried, FreshIds, Untouched
  <2> QED
    BY <2>1, <2>2 DEF AttemptsCover, Covered, Holds
<1>2. ASSUME NEW w \in Workers, WorkerNext(w) \/ Crash(w) PROVE AttemptsCover'
  <2> SUFFICES ASSUME NEW j \in Jobs \ clobbered PROVE Covered(j)'
    BY <1>2, WorkerFrame DEF AttemptsCover
  <2>1. Covered(j) /\ jobs[j] \in JobRow /\ worker[w].row \in JobRow
    BY DEF AttemptsCover
  <2>2. calls[j] \in Nat /\ MaxAttempts \in Nat \ {0}
        /\ jobs[j].attempts \in Nat /\ worker[w].row.attempts \in Nat
    BY <2>1, RetryAssumption DEF JobRow
  <2>3. \A v \in Workers : v # w => worker'[v] = worker[v]
    BY <1>2, WorkerFrame
  <2>4. CASE j # worker[w].job
    <3>1. jobs'[j] = jobs[j] /\ calls'[j] = calls[j]
      BY <1>2, <2>4, WorkerFrame
    <3>2. ~Holds(w, j)'
      BY <1>2, <2>4, HoldStep DEF Holds
    <3> QED
      BY <2>1, <2>3, <3>1, <3>2 DEF Covered, Holds
  <2>5. CASE j = worker[w].job /\ worker'[w].pc \in {"idle", "listed"}
             /\ jobs' = jobs /\ calls' = calls
    BY <2>1, <2>3, <2>5 DEF Covered, Holds
  <2>6. CASE /\ j = worker[w].job /\ jobs[j].status \in Pending
             /\ worker'[w].pc = "claimed" /\ worker'[w].job = j
             /\ worker'[w].row.attempts = jobs[j].attempts
             /\ jobs'[j].status = "running" /\ calls' = calls
    <3>1. \A v \in Workers : ~Holds(v, j)
      BY <2>6 DEF HeldByOwner, Pending
    <3>2. calls[j] <= jobs[j].attempts /\ jobs[j].attempts < MaxAttempts
      BY <2>1, <2>2, <2>6 DEF Covered, QueuedUntried, Pending
    <3> QED
      BY <2>1, <2>2, <2>3, <2>6, <3>1, <3>2 DEF Covered, Holds
  <2>7. CASE /\ j = worker[w].job /\ Holds(w, j) /\ jobs' = jobs
             /\ worker'[w].pc \notin {"idle", "listed", "claimed"} /\ worker'[w].job = j
             /\ worker'[w].row = worker[w].row
             /\ calls' = IF worker[w].pc = "claimed" THEN [calls EXCEPT ![j] = @ + 1] ELSE calls
    <3>1. jobs[j].status \in {"running", "absent"}
          /\ \A v \in Workers : v # w => ~Holds(v, j)
      BY <2>7 DEF HeldByOwner, OneWorkerPerJob
    <3>2. calls'[j] <= worker[w].row.attempts + 1 /\ worker[w].row.attempts < MaxAttempts
      BY <2>1, <2>2, <2>7 DEF Covered
    <3>3. calls'[j] \in Nat
      BY <2>2, <2>7
    <3>4. calls'[j] <= MaxAttempts
      BY <2>2, <3>2, <3>3
    <3> QED
      BY <2>2, <2>3, <2>7, <3>1, <3>2, <3>4 DEF Covered, Holds
  <2>8. CASE /\ j = worker[w].job /\ Holds(w, j) /\ worker[w].pc # "claimed"
             /\ worker'[w].pc = "idle" /\ calls' = calls
             /\ jobs'[j].status = "succeeded" \/ jobs'[j] = FailedRow(worker[w].row)
    <3>1. \A v \in Workers : v # w => ~Holds(v, j)
      BY <2>8 DEF HeldByOwner, OneWorkerPerJob
    <3>2. calls[j] <= worker[w].row.attempts + 1
      BY <2>1, <2>2, <2>8 DEF Covered
    <3>3. jobs'[j].status = "retry_wait" =>
            jobs'[j].attempts = worker[w].row.attempts + 1 /\ jobs'[j].attempts < MaxAttempts
      BY <2>1, <2>8, FailedRowAttempts
    <3>4. jobs'[j].status # "queued"
      BY <2>1, <2>8, FailedRowAttempts
    <3> QED
      BY <2>1, <2>3, <2>8, <3>1, <3>2, <3>3, <3>4 DEF Covered, Holds
  <2> QED
    BY <1>2, <2>4, <2>5, <2>6, <2>7, <2>8, HoldStep
<1>3. ASSUME NEW c \in Contents, EditContent(c) \/ DeleteContent(c) PROVE AttemptsCover'
  BY <1>3, ContentFrame, NoRowStatus DEF AttemptsCover, Covered, Holds, historyVars
<1>4. CASE Tick \/ UNCHANGED vars
  BY <1>4 DEF Tick, vars, historyVars, AttemptsCover, Covered, Holds
<1> QED
  BY <1>1, <1>2, <1>3, <1>4 DEF Next

-----------------------------------------------------------------------------
(* A recorded success is a publication. *)

\* A worker reports what its own publisher call wrote.
LEMMA WroteStep ==
  TypeOK /\ WroteWasPublished /\ [Next]_vars
    => WroteWasPublished' /\ published \subseteq published'
<1> SUFFICES ASSUME TypeOK, WroteWasPublished, [Next]_vars
             PROVE  WroteWasPublished' /\ published \subseteq published'
  OBVIOUS
<1> USE DEF TypeOK, WroteWasPublished
<1>1. ASSUME NEW a \in Admins, AdminNext(a)
      PROVE  WroteWasPublished' /\ published \subseteq published'
  BY <1>1, AdminFrame
<1>2. ASSUME NEW w \in Workers, WorkerNext(w) \/ Crash(w)
      PROVE  WroteWasPublished' /\ published \subseteq published'
  <2>1. published \subseteq published' /\ (worker'[w].pc = "wrote" => worker'[w].job \in published')
    <3> USE DEF Step
    <3>1. CASE ListDue(w)
      BY <3>1 DEF ListDue, Idle
    <3>2. CASE Claim(w)
      BY <3>2 DEF Claim, Idle
    <3>3. CASE Begin(w)
      BY <3>3 DEF Begin, Idle
    <3>4. CASE PublishRead(w)
      BY <3>4 DEF PublishRead
    <3>5. CASE PublishWrite(w)
      BY <3>5 DEF PublishWrite
    <3>6. CASE SaveSuccess(w) \/ SaveFailure(w) \/ Crash(w)
      BY <3>6 DEF SaveSuccess, SaveFailure, Crash, Idle
    <3> QED
      BY <1>2, <3>1, <3>2, <3>3, <3>4, <3>5, <3>6 DEF WorkerNext
  <2> QED
    BY <1>2, <2>1, WorkerFrame
<1>3. ASSUME NEW c \in Contents, EditContent(c) \/ DeleteContent(c)
      PROVE  WroteWasPublished' /\ published \subseteq published'
  BY <1>3, ContentFrame DEF historyVars
<1>4. CASE Tick \/ UNCHANGED vars
  BY <1>4 DEF Tick, vars, historyVars
<1> QED
  BY <1>1, <1>2, <1>3, <1>4 DEF Next

\* Only a worker that published writes "succeeded": the copies that the
\* requests write are queued.
LEMMA SucceededStep ==
  TypeOK /\ QueuedUntried /\ WroteWasPublished /\ SucceededWasPublished /\ [Next]_vars
    => SucceededWasPublished'
<1> SUFFICES ASSUME TypeOK, QueuedUntried, WroteWasPublished, SucceededWasPublished, [Next]_vars
             PROVE  SucceededWasPublished'
  OBVIOUS
<1> USE DEF TypeOK
<1>0. published \subseteq published'
  BY WroteStep
<1>1. ASSUME NEW a \in Admins, AdminNext(a) PROVE SucceededWasPublished'
  <2>1. \A j \in Jobs : jobs'[j].status = "succeeded" => jobs[j].status = "succeeded"
    BY <1>1, RequestWrite, NoRowStatus DEF QueuedUntried
  <2> QED
    BY <1>0, <2>1 DEF SucceededWasPublished
<1>2. ASSUME NEW w \in Workers, WorkerNext(w) \/ Crash(w) PROVE SucceededWasPublished'
  <2> DEFINE i == worker[w].job
  <2>1. \A j \in Jobs : j # i => jobs'[j] = jobs[j]
    BY <1>2, WorkerFrame
  <2>2. jobs'[i].status = "succeeded" => jobs[i].status = "succeeded" \/ worker[w].pc = "wrote"
    BY <1>2, HoldStep, FailedRowAttempts
  <2> QED
    BY <1>0, <2>1, <2>2 DEF SucceededWasPublished, WroteWasPublished
<1>3. ASSUME NEW c \in Contents, EditContent(c) \/ DeleteContent(c) PROVE SucceededWasPublished'
  BY <1>0, <1>3, ContentFrame, NoRowStatus DEF SucceededWasPublished
<1>4. CASE Tick \/ UNCHANGED vars
  BY <1>4 DEF Tick, vars, historyVars, SucceededWasPublished
<1> QED
  BY <1>1, <1>2, <1>3, <1>4 DEF Next

-----------------------------------------------------------------------------
(* The theorems. *)

\* The invariant holds initially.
LEMMA InductiveInit == Init => Inductive
<1> SUFFICES ASSUME Init PROVE Inductive
  OBVIOUS
<1>1. TypeOK
  BY InitType
<1>2. NeverPublishEarly /\ WroteWasPublished
  BY DEF Init, NeverPublishEarly, WroteWasPublished, Idle
<1>3. \A j \in Jobs : Untouched(j)
  BY NoRowStatus DEF Init, Untouched, Holds, Idle
<1>4. \A a \in Admins : admin[a].op = "none"
  BY DEF Init, NoRequest
<1>5. FreshIds
  BY <1>3, <1>4 DEF FreshIds
<1>6. QueuedUntried /\ HeldByOwner /\ SucceededWasPublished
  BY <1>3, <1>4 DEF QueuedUntried, HeldByOwner, OneWorkerPerJob, SucceededWasPublished, Untouched
<1>7. AttemptsCover
  BY <1>3, RetryAssumption DEF AttemptsCover, Covered, Untouched
<1> QED
  BY <1>1, <1>2, <1>5, <1>6, <1>7 DEF Inductive

\* Every step preserves it.
LEMMA InductiveStep == Inductive /\ [Next]_vars => Inductive'
BY NextType, EarlyStep, FreshStep, QueuedStep, HeldStep, CoverStep, WroteStep, SucceededStep
DEF Inductive

\* The inductive invariant of the scheduler holds in every behaviour.
THEOREM InductiveHolds == Spec => []Inductive
BY InductiveInit, InductiveStep, PTL DEF Spec

\* Two workers never hold the same job, unless a stale reschedule wrote its row.
THEOREM Exclusive == Spec => []OneWorkerPerJob
<1>1. Inductive => OneWorkerPerJob
  BY DEF Inductive, HeldByOwner
<1> QED
  BY <1>1, InductiveHolds, PTL

\* The publisher is called at most max_attempts times for a job, crashes included.
THEOREM RetriesBounded == Spec => []AttemptsBounded
<1>1. Inductive => AttemptsBounded
  BY DEF Inductive, AttemptsCover, Covered, AttemptsBounded
<1> QED
  BY <1>1, InductiveHolds, PTL

\* A job recorded as succeeded wrote its content item.
THEOREM SuccessIsReal == Spec => []SucceededWasPublished
<1>1. Inductive => SucceededWasPublished
  BY DEF Inductive
<1> QED
  BY <1>1, InductiveHolds, PTL

\* A finished job keeps its verdict: the row of a held job is running or gone,
\* so that no worker writes over a verdict.
LEMMA VerdictStep ==
  Inductive /\ [Next]_vars =>
    [\A j \in Jobs \ clobbered' :
       jobs[j].status \in Terminal => jobs'[j].status \in {jobs[j].status, "absent"}]_vars
<1> SUFFICES ASSUME Inductive, [Next]_vars, NEW j \in Jobs \ clobbered',
                    jobs[j].status \in Terminal
             PROVE  jobs'[j].status \in {jobs[j].status, "absent"}
  OBVIOUS
<1> USE DEF TypeOK, Inductive, Terminal
<1>1. ASSUME NEW a \in Admins, AdminNext(a) PROVE jobs'[j].status \in {jobs[j].status, "absent"}
  BY <1>1, RequestWrite, NoRowStatus DEF FreshIds, Untouched
<1>2. ASSUME NEW w \in Workers, WorkerNext(w) \/ Crash(w) PROVE jobs'[j] = jobs[j]
  <2>1. j \in Jobs \ clobbered
    BY <1>2, WorkerFrame
  <2>2. ~Holds(w, j)
    BY <2>1 DEF HeldByOwner
  <2> QED
    BY <1>2, <2>2, WorkerFrame, HoldStep DEF Pending
<1>3. ASSUME NEW c \in Contents, EditContent(c) \/ DeleteContent(c)
      PROVE  jobs'[j].status \in {jobs[j].status, "absent"}
  BY <1>3, ContentFrame, NoRowStatus
<1>4. CASE Tick \/ UNCHANGED vars
  BY <1>4 DEF Tick, vars
<1> QED
  BY <1>1, <1>2, <1>3, <1>4 DEF Next

\* A verdict is never taken back or replaced.
THEOREM VerdictsStand == Spec => FinishedStaysFinished
BY VerdictStep, InductiveHolds, PTL DEF Spec, FinishedStaysFinished

-----------------------------------------------------------------------------
(* The table implements SM2 of the PublishJob entity, crashes included, when  *)
(* nothing but schedule and the workers writes it.                            *)

\* With no blind write, the row of a held job is the holder's copy of it.
LifecycleInv ==
  /\ Inductive
  /\ clobbered = {}
  /\ \A a \in Admins : admin[a].op \in {"none", "schedule"}
  /\ \A j \in Jobs : jobs[j].status = "absent" => jobs[j].attempts = 0
  /\ \A w \in Workers, j \in Jobs : Holds(w, j) =>
       jobs[j].status = "running" /\ jobs[j].attempts = worker[w].row.attempts

\* The attempts that _handle_failure records.
LEMMA FailedRowCounts ==
  ASSUME NEW row \in JobRow
  PROVE  /\ FailedRow(row).attempts = row.attempts + 1
         /\ FailedRow(row).status =
              IF row.attempts + 1 < MaxAttempts THEN "retry_wait" ELSE "failed"
<1> DEFINE n == row.attempts + 1
<1> HIDE DEF n
<1>1. [row EXCEPT !.status = "retry_wait", !.attempts = n,
                  !.nextRetry = NextRetry(n), !.claimedBy = NoWorker].attempts = n
  BY DEF JobRow
<1>2. [row EXCEPT !.status = "failed", !.attempts = n, !.claimedBy = NoWorker].attempts = n
  BY DEF JobRow
<1>3. [row EXCEPT !.status = "failed", !.attempts = n, !.claimedBy = NoWorker].status = "failed"
  BY DEF JobRow
<1>4. [row EXCEPT !.status = "retry_wait", !.attempts = n,
                  !.nextRetry = NextRetry(n), !.claimedBy = NoWorker].status = "retry_wait"
  BY DEF JobRow
<1> QED
  BY <1>1, <1>2, <1>3, <1>4 DEF FailedRow, n

\* A step that changes one row is a move of that job.
LEMMA RowMove ==
  ASSUME TypeOK, TypeOK', NEW j \in Jobs, NEW from, NEW to,
         \A k \in Jobs : k # j => jobs'[k] = jobs[k],
         jobs[j].status \in from, jobs'[j].status = to
  PROVE  Lifecycle!Move(j, from, to)
BY DEF TypeOK, Lifecycle!Move

\* The same for the attempts recorded.
LEMMA RowCount ==
  ASSUME TypeOK, TypeOK', NEW j \in Jobs,
         \A k \in Jobs : k # j => jobs'[k] = jobs[k]
  PROVE  /\ jobs'[j].attempts = jobs[j].attempts =>
              [k \in Jobs |-> jobs[k].attempts]' = [k \in Jobs |-> jobs[k].attempts]
         /\ jobs'[j].attempts = jobs[j].attempts + 1 =>
              [k \in Jobs |-> jobs[k].attempts]' =
                [[k \in Jobs |-> jobs[k].attempts] EXCEPT ![j] = @ + 1]
BY DEF TypeOK

\* The strengthened invariant holds initially.
LEMMA LifecycleInit == Init => LifecycleInv /\ Lifecycle!LifeInit
<1> SUFFICES ASSUME Init PROVE LifecycleInv /\ Lifecycle!LifeInit
  OBVIOUS
<1>1. \A j \in Jobs : jobs[j].status = "absent" /\ jobs[j].attempts = 0
  BY DEF Init, NoRow, NewRow
<1>2. \A w \in Workers, j \in Jobs : ~Holds(w, j)
  BY DEF Init, Holds, Idle
<1>3. Lifecycle!LifeInit
  BY <1>1 DEF Lifecycle!LifeInit
<1> QED
  BY <1>1, <1>2, <1>3, InductiveInit DEF LifecycleInv, Init, NoRequest

\* Every step is a step of the life cycle or leaves it alone.
LEMMA LifecycleStep ==
  ASSUME AdminOps = {"schedule"}, "delete" \notin ContentOps,
         LifecycleInv, [Next]_vars
  PROVE  LifecycleInv' /\ [Lifecycle!LifeNext]_(Lifecycle!lifeVars)
<1>0. Inductive' /\ TypeOK /\ TypeOK'
  BY InductiveStep, NextType DEF LifecycleInv, Inductive
<1> DEFINE Rest == UNCHANGED jobs => UNCHANGED Lifecycle!lifeVars
<1>1. Rest
  BY DEF Lifecycle!lifeVars
<1>2. ASSUME NEW a \in Admins, AdminNext(a)
      PROVE  LifecycleInv' /\ [Lifecycle!LifeNext]_(Lifecycle!lifeVars)
  <2>1. ScheduleCheck(a) \/ ScheduleSave(a)
    BY <1>2 DEF AdminNext, UnscheduleCheck, UnscheduleDelete, RescheduleCheck, RescheduleSave,
                Arrive, LifecycleInv
  <2>2. clobbered' = {} /\ worker' = worker
    BY <2>1 DEF ScheduleCheck, ScheduleSave, Arrive, Finish, historyVars, LifecycleInv
  <2>3. \A b \in Admins : admin'[b].op \in {"none", "schedule"}
    BY <1>0, <2>1 DEF ScheduleCheck, ScheduleSave, Arrive, Finish, NoRequest, LifecycleInv, TypeOK
  <2>4. CASE jobs' = jobs
    BY <1>0, <1>1, <2>2, <2>3, <2>4 DEF LifecycleInv, Holds
  <2>5. CASE admin[a].op = "schedule" /\ jobs' = [jobs EXCEPT ![admin[a].job] = admin[a].row]
    <3> DEFINE i == admin[a].job
    <3>1. /\ i \in Jobs /\ jobs[i].status = "absent" /\ jobs[i].attempts = 0
          /\ jobs'[i].status = "queued" /\ jobs'[i].attempts = 0
          /\ \A k \in Jobs : k # i => jobs'[k] = jobs[k]
          /\ \A w \in Workers : ~Holds(w, i)
      BY <1>0, <2>5 DEF LifecycleInv, Inductive, FreshIds, QueuedUntried, Untouched, TypeOK
    <3>2. Lifecycle!Move(i, {"absent"}, "queued")
      BY <1>0, <3>1, RowMove
    <3>3. [k \in Jobs |-> jobs[k].attempts]' = [k \in Jobs |-> jobs[k].attempts]
      BY <1>0, <3>1, RowCount
    <3>4. Lifecycle!LifeNext
      BY <3>1, <3>2, <3>3 DEF Lifecycle!LifeNext, Lifecycle!Create
    <3> QED
      BY <1>0, <2>2, <2>3, <3>1, <3>4 DEF LifecycleInv, Holds
  <2> QED
    BY <1>0, <1>2, <2>4, <2>5, RequestWrite DEF LifecycleInv
<1>3. ASSUME NEW w \in Workers, WorkerNext(w) \/ Crash(w)
      PROVE  LifecycleInv' /\ [Lifecycle!LifeNext]_(Lifecycle!lifeVars)
  <2> DEFINE i == worker[w].job
  <2>1. /\ i \in Jobs /\ worker[w].row \in JobRow /\ jobs[i] \in JobRow
        /\ clobbered' = {} /\ admin' = admin
        /\ \A v \in Workers : v # w => worker'[v] = worker[v]
        /\ \A k \in Jobs : k # i => jobs'[k] = jobs[k]
    BY <1>0, <1>3, WorkerFrame DEF LifecycleInv, TypeOK
  <2>2. \A v \in Workers : v # w /\ Holds(w, i) => ~Holds(v, i)
    BY <2>1 DEF LifecycleInv, Inductive, HeldByOwner, OneWorkerPerJob
  <2>3. CASE jobs' = jobs /\ worker'[w].pc \in {"idle", "listed"}
    BY <1>0, <1>1, <2>1, <2>3 DEF LifecycleInv, Holds
  <2>4. CASE /\ jobs[i].status \in Pending /\ worker'[w].pc = "claimed" /\ worker'[w].job = i
             /\ worker'[w].row.attempts = jobs[i].attempts
             /\ jobs'[i].status = "running" /\ jobs'[i].attempts = jobs[i].attempts
    <3>1. Lifecycle!Move(i, {"queued", "retry_wait"}, "running")
      BY <1>0, <2>1, <2>4, RowMove DEF Pending
    <3>2. [k \in Jobs |-> jobs[k].attempts]' = [k \in Jobs |-> jobs[k].attempts]
      BY <1>0, <2>1, <2>4, RowCount
    <3>3. Lifecycle!LifeNext
      BY <2>1, <3>1, <3>2 DEF Lifecycle!LifeNext, Lifecycle!Start
    <3>4. \A v \in Workers : ~Holds(v, i)
      BY <2>1, <2>4 DEF LifecycleInv, Pending
    <3> QED
      BY <1>0, <2>1, <2>4, <3>3, <3>4 DEF LifecycleInv, Holds
  <2>5. CASE /\ Holds(w, i) /\ jobs' = jobs /\ worker'[w].job = i
             /\ worker'[w].row = worker[w].row
    BY <1>0, <1>1, <2>1, <2>5 DEF LifecycleInv, Holds
  <2>6. CASE /\ Holds(w, i) /\ worker'[w].pc = "idle"
             /\ \/ /\ jobs'[i].status = "succeeded"
                   /\ jobs'[i].attempts = worker[w].row.attempts + 1
                \/ jobs'[i] = FailedRow(worker[w].row)
    <3>1. jobs[i].status = "running" /\ jobs[i].attempts = worker[w].row.attempts
      BY <2>1, <2>6 DEF LifecycleInv
    <3>2. jobs'[i].attempts = jobs[i].attempts + 1
      BY <2>1, <2>6, <3>1, FailedRowCounts
    <3>3. \/ jobs'[i].status = "succeeded"
          \/ jobs'[i].status = "retry_wait" /\ jobs[i].attempts + 1 < MaxAttempts
          \/ jobs'[i].status = "failed" /\ jobs[i].attempts + 1 >= MaxAttempts
      <4>1. jobs[i].attempts + 1 \in Nat /\ MaxAttempts \in Nat
        BY <2>1, RetryAssumption, SMTT(30) DEF JobRow
      <4> QED
        BY <2>1, <2>6, <3>1, <4>1, FailedRowCounts
    <3>4. ASSUME NEW to, jobs'[i].status = to PROVE Lifecycle!Finish(i, to)
      <4>1. Lifecycle!Move(i, {"running"}, to)
        BY <1>0, <2>1, <3>1, <3>4, RowMove
      <4>2. [k \in Jobs |-> jobs[k].attempts]' =
              [[k \in Jobs |-> jobs[k].attempts] EXCEPT ![i] = @ + 1]
        BY <1>0, <2>1, <3>2, RowCount
      <4> QED
        BY <4>1, <4>2 DEF Lifecycle!Finish
    <3>5. jobs'[i].status = "succeeded" => Lifecycle!Succeed(i)
      BY <3>4 DEF Lifecycle!Succeed
    <3>6. /\ jobs'[i].status = "retry_wait" => Lifecycle!Finish(i, "retry_wait")
          /\ jobs'[i].status = "failed" => Lifecycle!Finish(i, "failed")
      BY <3>4
    <3>7. Lifecycle!LifeNext
      <4>1. [k \in Jobs |-> jobs[k].attempts][i] = jobs[i].attempts
        BY <2>1
      <4>2. Lifecycle!Succeed(i) \/ Lifecycle!WaitForRetry(i) \/ Lifecycle!GiveUp(i)
        BY <3>3, <3>5, <3>6, <4>1 DEF Lifecycle!WaitForRetry, Lifecycle!GiveUp
      <4> QED
        BY <2>1, <4>2
        DEF Lifecycle!LifeNext, Lifecycle!Succeed, Lifecycle!WaitForRetry, Lifecycle!GiveUp,
            Lifecycle!Finish, Lifecycle!Move
    <3>8. \A j \in Jobs : ~Holds(w, j)'
      BY <2>6 DEF Holds
    <3>9. \A v \in Workers, j \in Jobs : Holds(v, j)' => j # i /\ Holds(v, j) /\ v # w
      <4>1. \A v \in Workers : v # w => ~Holds(v, i)
        BY <2>2, <2>6
      <4>2. \A v \in Workers, j \in Jobs : v # w /\ Holds(v, j)' => Holds(v, j)
        BY <2>1 DEF Holds
      <4> QED
        BY <3>8, <4>1, <4>2
    <3>10. \A v \in Workers, j \in Jobs : Holds(v, j)' =>
             jobs'[j].status = "running" /\ jobs'[j].attempts = worker'[v].row.attempts
      BY <2>1, <3>9 DEF LifecycleInv
    <3>11. \A j \in Jobs : jobs'[j].status = "absent" => jobs'[j].attempts = 0
      BY <2>1, <3>3 DEF LifecycleInv
    <3> QED
      BY <1>0, <2>1, <3>7, <3>10, <3>11 DEF LifecycleInv
  <2> QED
    BY <1>0, <1>3, <2>3, <2>4, <2>5, <2>6, HoldStep
<1>4. ASSUME NEW c \in Contents, EditContent(c) \/ DeleteContent(c)
      PROVE  LifecycleInv' /\ [Lifecycle!LifeNext]_(Lifecycle!lifeVars)
  <2>1. UNCHANGED <<jobs, worker, admin, clobbered>>
    BY <1>4 DEF EditContent, DeleteContent, historyVars
  <2> QED
    BY <1>0, <1>1, <2>1 DEF LifecycleInv, Holds
<1>5. CASE Tick \/ UNCHANGED vars
  <2>1. UNCHANGED <<jobs, worker, admin, clobbered>>
    BY <1>5 DEF Tick, vars, historyVars
  <2> QED
    BY <1>0, <1>1, <2>1 DEF LifecycleInv, Holds
<1> QED
  BY <1>2, <1>3, <1>4, <1>5 DEF Next

\* Scheduling and running jobs follows SM2, whatever crashes.
THEOREM ImplementsLifecycle ==
  ASSUME AdminOps = {"schedule"}, "delete" \notin ContentOps
  PROVE  Spec => JobLifecycle
<1>1. LifecycleInv /\ [Next]_vars => LifecycleInv' /\ [Lifecycle!LifeNext]_(Lifecycle!lifeVars)
  BY LifecycleStep
<1> QED
  BY <1>1, LifecycleInit, PTL DEF Spec, JobLifecycle, Lifecycle!LifeSpec

=============================================================================
