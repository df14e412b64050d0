-------------------------- MODULE PublishScheduler --------------------------
(***************************************************************************)
(* The scheduled-publishing subsystem: SchedulerService                    *)
(* (src/src/components/scheduler/_impl.py) over the SQL job table          *)
(* (SQLitePublishJobRepo, src/src/adapters/sqlite/repos.py) and the        *)
(* publisher that moves a content item to "published"                      *)
(* (ContentPublisher, src/src/api/routes/admin_schedule.py).               *)
(*                                                                         *)
(* Every SQL statement is atomic, a Python call that issues several is     *)
(* not: a worker and an administrator's request are processes that keep a  *)
(* private copy of the row they read and may be interrupted between two    *)
(* calls of the repository.  A crash of a worker loses its copy and leaves *)
(* the table as it is.                                                     *)
(***************************************************************************)
EXTENDS Integers, Sequences, FiniteSets

CONSTANTS
  Jobs,         \* job ids (uuid4: an id is handed out once)
  Contents,     \* content items
  Workers,      \* processes that call run_due_jobs or publish_now
  Admins,       \* request threads of the scheduling endpoints
  NoWorker,     \* claimed_by IS NULL
  MaxTime,      \* bound on the clock
  MaxRequests,  \* bound on the number of administrators' requests
  MaxAttempts,  \* SchedulerConfig.max_attempts
  Backoff,      \* SchedulerConfig.backoff_seconds, in ticks
  Grace,        \* SchedulerConfig.publish_grace_seconds, in ticks
  Offsets,      \* UTC offsets that a caller's publish time may carry, in ticks
  AdminOps,     \* the scheduling endpoints in use
  ContentOps,   \* what else happens to a content item: "edit", "delete"
  CanCrash      \* whether a worker may stop between two steps

ASSUME DataAssumption == Jobs # {} /\ Contents # {}
ASSUME WorkerAssumption == NoWorker \notin Workers
ASSUME TimeAssumption == MaxTime \in Nat /\ MaxRequests \in Nat /\ Grace \in Nat
ASSUME RetryAssumption ==
  /\ MaxAttempts \in Nat \ {0}
  /\ Backoff \in Seq(Nat \ {0})
  /\ Backoff # <<>>
ASSUME OffsetAssumption == Offsets \subseteq Int
ASSUME OpsAssumption ==
  /\ AdminOps \subseteq {"schedule", "unschedule", "reschedule"}
  /\ ContentOps \subseteq {"edit", "delete"}
  /\ CanCrash \in BOOLEAN

VARIABLES
  now,          \* the clock
  content,      \* status of every content item, "absent" when it has no row
  jobs,         \* the publish_jobs table; status "absent" when there is no row
  used,         \* job ids handed out so far
  requests,     \* administrators' requests so far
  worker,       \* what every worker is doing, with its copy of a row
  admin,        \* what every request thread is doing, with its copy of a row
  calls,        \* history: publisher calls made for every job
  published,    \* history: jobs whose publisher call wrote the content item
  clobbered     \* history: jobs whose row a stale reschedule wrote back

tableVars == <<now, content, jobs, used, requests>>
historyVars == <<calls, published, clobbered>>
vars == <<now, content, jobs, used, requests, worker, admin, historyVars>>

-----------------------------------------------------------------------------
(* Rows and process states. *)

ContentStatus == {"absent", "draft", "scheduled", "published", "archived"}
Pending == {"queued", "retry_wait"}
Terminal == {"succeeded", "failed"}
JobStatus == Pending \cup Terminal \cup {"running", "absent"}

\* publishAt is the instant, key the text the SQL comparisons see: the wall
\* clock of an ISO string, which differs from the instant by its UTC offset.
\* nextRetry = 0 stands for NULL (a retry time is never 0).
JobRow == [content: Contents, publishAt: Nat, key: Int, status: JobStatus,
           attempts: Nat, nextRetry: Nat, claimedBy: Workers \cup {NoWorker}]

\* The row create_publish_job builds.
NewRow(c, t, off) ==
  [content |-> c, publishAt |-> t, key |-> t + off, status |-> "queued",
   attempts |-> 0, nextRetry |-> 0, claimedBy |-> NoWorker]

SomeContent == CHOOSE c \in Contents : TRUE
SomeJob == CHOOSE j \in Jobs : TRUE
NoRow == [NewRow(SomeContent, 0, 0) EXCEPT !.status = "absent"]

WorkerStep == {"idle", "listed", "claimed", "reading", "writing", "wrote", "refused"}
Idle == [pc |-> "idle", job |-> SomeJob, row |-> NoRow]
NoRequest == [op |-> "none", job |-> SomeJob, row |-> NoRow]

\* A worker that claim_job gave a row to and that is not done with it.
Holds(w, j) == worker[w].pc \notin {"idle", "listed"} /\ worker[w].job = j

\* can_transition for a change of status; whether a date needed by
\* "scheduled" is set and in the future is left open.
CanTransition(s, t) ==
  CASE s = "draft"     -> t \in {"published", "scheduled", "archived"}
    [] s = "scheduled" -> t \in {"published", "draft", "archived"}
    [] s = "published" -> t \in {"archived", "draft"}
    [] s = "archived"  -> t = "draft"
    [] OTHER           -> FALSE

\* Mutant: the listing forgets the jobs that wait for a retry.
DueQueuedOnly == {j \in Jobs : jobs[j].status = "queued" /\ jobs[j].key <= now}

\* list_due_jobs: the text of the publish time is compared, not the instant.
Due == {j \in Jobs : /\ jobs[j].status \in Pending
                     /\ jobs[j].nextRetry <= now
                     /\ jobs[j].key <= now}

\* get_by_idempotency_key: the rows with this content and this text.
SameKey(c, k) ==
  {j \in Jobs : jobs[j].status # "absent" /\ jobs[j].content = c /\ jobs[j].key = k}

\* _is_future with the grace period.
Schedulable(t) == t + Grace > now

\* calculate_next_retry below the last attempt: n counts this failure.
NextRetry(n) == now + Backoff[IF n < Len(Backoff) THEN n ELSE Len(Backoff)]

\* SQLitePublishJobRepo.save: an upsert that writes every column.  A row whose
\* content item is gone violates the foreign key: nothing is written and the
\* call raises.
Save(j, row) ==
  jobs' = IF content[row.content] = "absent" THEN jobs ELSE [jobs EXCEPT ![j] = row]

Init ==
  /\ now = 0
  /\ content = [c \in Contents |-> "draft"]
  /\ jobs = [j \in Jobs |-> NoRow]
  /\ used = {}
  /\ requests = 0
  /\ worker = [w \in Workers |-> Idle]
  /\ admin = [a \in Admins |-> NoRequest]
  /\ calls = [j \in Jobs |-> 0]
  /\ published = {}
  /\ clobbered = {}

-----------------------------------------------------------------------------
(* The scheduling endpoints: each reads and checks, then writes. *)

Arrive(a, op, j, row) ==
  /\ op \in AdminOps
  /\ admin[a].op = "none"
  /\ requests < MaxRequests
  /\ requests' = requests + 1
  /\ admin' = [admin EXCEPT ![a] = [op |-> op, job |-> j, row |-> row]]
  /\ UNCHANGED <<now, content, jobs, worker, historyVars>>

Finish(a) ==
  /\ admin' = [admin EXCEPT ![a] = NoRequest]
  /\ UNCHANGED <<now, content, used, requests, worker, calls, published>>

\* schedule, up to the save: an existing row for the key is returned as it is.
ScheduleCheck(a) ==
  \E c \in Contents, t \in 0..MaxTime, off \in Offsets, j \in Jobs \ used :
    /\ Schedulable(t)
    /\ SameKey(c, t + off) = {}
    /\ used' = used \cup {j}
    /\ Arrive(a, "schedule", j, NewRow(c, t, off))

ScheduleSave(a) ==
  /\ admin[a].op = "schedule"
  /\ Save(admin[a].job, admin[a].row)
  /\ UNCHANGED clobbered
  /\ Finish(a)

\* unschedule: only a queued job is cancelled, the DELETE checks nothing.
UnscheduleCheck(a) ==
  \E j \in Jobs :
    /\ jobs[j].status = "queued"
    /\ Arrive(a, "unschedule", j, NoRow)
    /\ UNCHANGED used

UnscheduleDelete(a) ==
  /\ admin[a].op = "unschedule"
  /\ jobs' = [jobs EXCEPT ![admin[a].job] = NoRow]
  /\ UNCHANGED clobbered
  /\ Finish(a)

\* Mutant: a job that waits for its retry can be rescheduled too.
ReschedulePending(a) ==
  \E j \in Jobs, t \in 0..MaxTime, off \in Offsets :
    /\ jobs[j].status \in Pending
    /\ Schedulable(t)
    /\ SameKey(jobs[j].content, t + off) \subseteq {j}
    /\ Arrive(a, "reschedule", j, [jobs[j] EXCEPT !.publishAt = t, !.key = t + off])
    /\ UNCHANGED used

\* reschedule, up to the save: a queued job, a time that is not past, and no
\* other job at that time (one row is fetched: any of several).
RescheduleCheck(a) ==
  \E j \in Jobs, t \in 0..MaxTime, off \in Offsets :
    LET same == SameKey(jobs[j].content, t + off) IN
    /\ jobs[j].status = "queued"
    /\ Schedulable(t)
    /\ same = {} \/ j \in same
    /\ Arrive(a, "reschedule", j, [jobs[j] EXCEPT !.publishAt = t, !.key = t + off])
    /\ UNCHANGED used

\* The whole copy is written back, whatever became of the row meanwhile.
RescheduleSave(a) ==
  LET j == admin[a].job IN
  /\ admin[a].op = "reschedule"
  /\ Save(j, admin[a].row)
  /\ clobbered' = IF jobs[j].status = "queued" THEN clobbered ELSE clobbered \cup {j}
  /\ Finish(a)

-----------------------------------------------------------------------------
(* A worker: claim_next, then execute_job. *)

Step(w, r) ==
  /\ worker' = [worker EXCEPT ![w] = r]
  /\ UNCHANGED <<now, used, requests, admin, clobbered>>

\* claim_next: the first due row, unless its instant is not reached yet.
ListDue(w) ==
  \E j \in Due :
    /\ worker[w].pc = "idle"
    /\ \A k \in Due : jobs[j].key <= jobs[k].key
    /\ jobs[j].publishAt <= now
    /\ Step(w, [Idle EXCEPT !.pc = "listed", !.job = j])
    /\ UNCHANGED <<content, jobs, calls, published>>

\* Mutant: an UPDATE without the condition on the status.
ClaimBlind(w) ==
  LET j   == worker[w].job
      row == [jobs[j] EXCEPT !.status = "running", !.claimedBy = w]
  IN
  /\ worker[w].pc = "listed"
  /\ jobs[j].status # "absent"
  /\ jobs' = [jobs EXCEPT ![j] = row]
  /\ Step(w, [pc |-> "claimed", job |-> j, row |-> row])
  /\ UNCHANGED <<content, calls, published>>

\* claim_job: UPDATE ... WHERE id = ? AND status is pending RETURNING *.
Claim(w) ==
  LET j   == worker[w].job
      row == [jobs[j] EXCEPT !.status = "running", !.claimedBy = w]
  IN
  /\ worker[w].pc = "listed"
  /\ \/ /\ jobs[j].status \in Pending
        /\ jobs' = [jobs EXCEPT ![j] = row]
        /\ Step(w, [pc |-> "claimed", job |-> j, row |-> row])
     \/ /\ jobs[j].status \notin Pending
        /\ UNCHANGED jobs
        /\ Step(w, Idle)
  /\ UNCHANGED <<content, calls, published>>

\* Mutant: execute_job relies on the time check of claim_next.
BeginUnchecked(w) ==
  /\ worker[w].pc = "claimed"
  /\ Step(w, [worker[w] EXCEPT !.pc = "reading"])
  /\ calls' = [calls EXCEPT ![worker[w].job] = @ + 1]
  /\ UNCHANGED <<content, jobs, published>>

\* execute_job before the publisher is called: a job that is early is left as
\* it is, in state running.
Begin(w) ==
  /\ worker[w].pc = "claimed"
  /\ \/ /\ worker[w].row.publishAt <= now
        /\ Step(w, [worker[w] EXCEPT !.pc = "reading"])
        /\ calls' = [calls EXCEPT ![worker[w].job] = @ + 1]
     \/ /\ worker[w].row.publishAt > now
        /\ Step(w, Idle)
        /\ UNCHANGED calls
  /\ UNCHANGED <<content, jobs, published>>

\* Mutant: an item that cannot be published counts as done.
PublishReadLenient(w) ==
  LET s == content[worker[w].row.content] IN
  /\ worker[w].pc = "reading"
  /\ IF s = "published" \/ CanTransition(s, "published")
     THEN Step(w, [worker[w] EXCEPT !.pc = "writing"])
     ELSE Step(w, [worker[w] EXCEPT !.pc = "wrote"])
  /\ UNCHANGED <<content, jobs, calls, published>>

\* publish reads the item: a missing item, an illegal transition and any other
\* exception come back as an error.
PublishRead(w) ==
  LET s == content[worker[w].row.content] IN
  /\ worker[w].pc = "reading"
  /\ \/ /\ s = "published" \/ CanTransition(s, "published")
        /\ Step(w, [worker[w] EXCEPT !.pc = "writing"])
     \/ Step(w, [worker[w] EXCEPT !.pc = "refused"])
  /\ UNCHANGED <<content, jobs, calls, published>>

\* publish writes the item back, whatever became of it since the read; the
\* write may raise, which publish turns into an error.
PublishWrite(w) ==
  /\ worker[w].pc = "writing"
  /\ \/ /\ content' = [content EXCEPT ![worker[w].row.content] = "published"]
        /\ published' = published \cup {worker[w].job}
        /\ Step(w, [worker[w] EXCEPT !.pc = "wrote"])
     \/ /\ UNCHANGED <<content, published>>
        /\ Step(w, [worker[w] EXCEPT !.pc = "refused"])
  /\ UNCHANGED <<jobs, calls>>

\* execute_job after a success: the worker's copy replaces the row.
SaveSuccess(w) ==
  /\ worker[w].pc = "wrote"
  /\ Save(worker[w].job, [worker[w].row EXCEPT !.status = "succeeded", !.attempts = @ + 1])
  /\ Step(w, Idle)
  /\ UNCHANGED <<content, calls, published>>

\* Mutant: one attempt too many.
FailedRowOffByOne(row) ==
  LET n == row.attempts + 1 IN
  IF n <= MaxAttempts
  THEN [row EXCEPT !.status = "retry_wait", !.attempts = n,
                   !.nextRetry = NextRetry(n), !.claimedBy = NoWorker]
  ELSE [row EXCEPT !.status = "failed", !.attempts = n, !.claimedBy = NoWorker]

\* Mutant: a retry that is not counted.
FailedRowUncounted(row) ==
  [row EXCEPT !.status = "retry_wait", !.nextRetry = NextRetry(1), !.claimedBy = NoWorker]

\* The row _handle_failure writes.
FailedRow(row) ==
  LET n == row.attempts + 1 IN
  IF n < MaxAttempts
  THEN [row EXCEPT !.status = "retry_wait", !.attempts = n,
                   !.nextRetry = NextRetry(n), !.claimedBy = NoWorker]
  ELSE [row EXCEPT !.status = "failed", !.attempts = n, !.claimedBy = NoWorker]

SaveFailure(w) ==
  /\ worker[w].pc = "refused"
  /\ Save(worker[w].job, FailedRow(worker[w].row))
  /\ Step(w, Idle)
  /\ UNCHANGED <<content, calls, published>>

\* The process stops: the copy is lost, nothing in the table is undone.
Crash(w) ==
  /\ CanCrash
  /\ worker[w].pc # "idle"
  /\ Step(w, Idle)
  /\ UNCHANGED <<content, jobs, calls, published>>

-----------------------------------------------------------------------------
(* The rest of the system, as this subsystem sees it. *)

\* Another request saves the item it read.  Its move was legal for the status it
\* read, which may be long gone, as the item may be: any status can be written.
EditContent(c) ==
  /\ "edit" \in ContentOps
  /\ \E s \in ContentStatus \ {"absent"} : content' = [content EXCEPT ![c] = s]
  /\ UNCHANGED <<now, jobs, used, requests, worker, admin, historyVars>>

\* SQLiteContentRepo.delete removes the item's jobs in the same transaction.  The
\* content component refuses a published item by a status it read before.
DeleteContent(c) ==
  /\ "delete" \in ContentOps
  /\ content[c] # "absent"
  /\ content' = [content EXCEPT ![c] = "absent"]
  /\ jobs' = [j \in Jobs |-> IF jobs[j].content = c THEN NoRow ELSE jobs[j]]
  /\ UNCHANGED <<now, used, requests, worker, admin, historyVars>>

Tick ==
  /\ now < MaxTime
  /\ now' = now + 1
  /\ UNCHANGED <<content, jobs, used, requests, worker, admin, historyVars>>

AdminNext(a) ==
  \/ ScheduleCheck(a)
  \/ ScheduleSave(a)
  \/ UnscheduleCheck(a)
  \/ UnscheduleDelete(a)
  \/ RescheduleCheck(a)
  \/ RescheduleSave(a)

\* run_due_jobs repeats claim_next and execute_job.
WorkerNext(w) ==
  \/ ListDue(w)
  \/ Claim(w)
  \/ Begin(w)
  \/ PublishRead(w)
  \/ PublishWrite(w)
  \/ SaveSuccess(w)
  \/ SaveFailure(w)

Next ==
  \/ \E a \in Admins : AdminNext(a)
  \/ \E w \in Workers : WorkerNext(w) \/ Crash(w)
  \/ \E c \in Contents : EditContent(c) \/ DeleteContent(c)
  \/ Tick

Spec == Init /\ [][Next]_vars

-----------------------------------------------------------------------------
(* Properties. *)

\* Every variable has its type.
TypeOK ==
  /\ now \in 0..MaxTime
  /\ content \in [Contents -> ContentStatus]
  /\ jobs \in [Jobs -> JobRow]
  /\ used \subseteq Jobs
  /\ requests \in 0..MaxRequests
  /\ worker \in [Workers -> [pc: WorkerStep, job: Jobs, row: JobRow]]
  /\ admin \in [Admins -> [op: {"none", "schedule", "unschedule", "reschedule"},
                           job: Jobs, row: JobRow]]
  /\ calls \in [Jobs -> Nat]
  /\ published \subseteq Jobs
  /\ clobbered \subseteq Jobs

\* R3 (never_publish_early): no worker is past the time check of execute_job
\* with a job whose instant has not come, although the listing compares texts
\* and a reschedule may move the row between the listing and the claim.
NeverPublishEarly ==
  \A w \in Workers :
    worker[w].pc \in {"reading", "writing", "wrote"} => worker[w].row.publishAt <= now

\* I4: two workers never hold the same job, unless a reschedule wrote its
\* stale copy over a row that was no longer queued (claim_job's conditional
\* UPDATE is what keeps them apart; an upsert that re-creates a cancelled row
\* must not open it to a second worker while the first still runs).
OneWorkerPerJob ==
  \A j \in Jobs \ clobbered : \A v, w \in Workers :
    Holds(v, j) /\ Holds(w, j) => v = w

\* I4 as src/src/components/scheduler/contract.md:32 states it: jobs are claimed
\* so that no job is executed by two workers at a time.
NoDoubleExecution ==
  \A j \in Jobs : \A v, w \in Workers : Holds(v, j) /\ Holds(w, j) => v = w

\* I1 as src/src/components/scheduler/contract.md:29 states it: one job for a
\* content item and an instant.
OneJobPerKey ==
  \A j, k \in Jobs :
    /\ jobs[j].status # "absent" /\ jobs[k].status # "absent"
    /\ jobs[j].content = jobs[k].content
    /\ jobs[j].publishAt = jobs[k].publishAt
    => j = k

\* I3: the publisher is called at most max_attempts times for a job, counting
\* the calls of workers that crashed, with the same exception.
AttemptsBounded == \A j \in Jobs \ clobbered : calls[j] <= MaxAttempts

\* A job recorded as succeeded did write its content item.
SucceededWasPublished ==
  \A j \in Jobs : jobs[j].status = "succeeded" => j \in published

\* SM2: a finished job is never pending or running again and never changes
\* its verdict, with the same exception.
FinishedStaysFinished ==
  [][\A j \in Jobs \ clobbered' :
       jobs[j].status \in Terminal => jobs'[j].status \in {jobs[j].status, "absent"}]_vars

\* SM2 of the PublishJob entity, a job for a job.  Cancelling, rescheduling and
\* deleting content write rows without looking at them again, so the promise is
\* for a table that only schedule and the workers write (AdminOps = {"schedule"},
\* "delete" not in ContentOps).
Lifecycle == INSTANCE PublishJobLifecycle WITH
  state <- [j \in Jobs |-> jobs[j].status],
  tries <- [j \in Jobs |-> jobs[j].attempts]

JobLifecycle == Lifecycle!LifeSpec

\* Somebody keeps calling run_due_jobs and the clock goes on.  Nothing is
\* assumed of the administrators or of the content.
FairSpec ==
  /\ Spec
  /\ \A w \in Workers : WF_vars(WorkerNext(w))
  /\ WF_vars(Tick)

\* A job ends, or waits for a retry beyond the modelled clock.
Settled(j) ==
  \/ jobs[j].status \in Terminal
  \/ jobs[j].status = "retry_wait" /\ jobs[j].nextRetry > MaxTime

\* I5, I3: every job in the table is run when it is due, retried after each
\* failure, and comes to an end; a job that keeps failing at the head of the
\* listing does not hold back the ones behind it.
EveryJobSettles == \A j \in Jobs : jobs[j].status # "absent" ~> Settled(j)

-----------------------------------------------------------------------------
(* The inductive invariant behind the properties above. *)

\* A new id names nothing but the request that is about to insert its row.
Untouched(j) ==
  /\ jobs[j].status = "absent"
  /\ calls[j] = 0
  /\ \A w \in Workers : ~Holds(w, j)

FreshIds ==
  /\ \A j \in Jobs \ used : Untouched(j) /\ \A a \in Admins : admin[a].op = "none" \/ admin[a].job # j
  /\ \A a \in Admins : admin[a].op = "schedule" =>
       /\ Untouched(admin[a].job)
       /\ \A b \in Admins : admin[b].op # "none" /\ admin[b].job = admin[a].job => b = a

\* A queued row, in the table or in a request's hands, has not been tried.
QueuedUntried ==
  /\ \A j \in Jobs : jobs[j].status = "queued" => jobs[j].attempts = 0
  /\ \A a \in Admins : admin[a].op \in {"schedule", "reschedule"} =>
       admin[a].row.status = "queued" /\ admin[a].row.attempts = 0

\* A job that is held is running for its holder, or its row has been removed;
\* no second worker holds it.
HeldByOwner ==
  /\ OneWorkerPerJob
  /\ \A j \in Jobs \ clobbered : \A w \in Workers :
       Holds(w, j) => jobs[j].status \in {"running", "absent"}

\* The attempts recorded in a row cover the publisher calls already made.
Covered(j) ==
  /\ calls[j] <= MaxAttempts
  /\ jobs[j].status = "queued" => calls[j] = 0
  /\ jobs[j].status = "retry_wait" =>
       calls[j] <= jobs[j].attempts /\ jobs[j].attempts < MaxAttempts
  /\ \A w \in Workers : Holds(w, j) =>
       /\ worker[w].row.attempts < MaxAttempts
       /\ calls[j] <= worker[w].row.attempts + (IF worker[w].pc = "claimed" THEN 0 ELSE 1)

AttemptsCover == \A j \in Jobs \ clobbered : Covered(j)

WroteWasPublished ==
  \A w \in Workers : worker[w].pc = "wrote" => worker[w].job \in published

\* All that is needed, and no more, to carry the properties over every step.
Inductive ==
  /\ TypeOK
  /\ NeverPublishEarly
  /\ FreshIds
  /\ QueuedUntried
  /\ HeldByOwner
  /\ AttemptsCover
  /\ SucceededWasPublished
  /\ WroteWasPublished

=============================================================================
