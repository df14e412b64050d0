--------------------------- MODULE MemoryScheduler ---------------------------
(***************************************************************************)
(* SchedulerService (src/src/components/scheduler/_impl.py) over the job   *)
(* repository the scheduling routes are wired to: MockPublishJobRepo, one  *)
(* instance per process (src/src/api/routes/admin_schedule.py).            *)
(*                                                                         *)
(* Endpoints run in threads that share Python objects: the table is a dict *)
(* from job ids to objects, a thread that read a job holds the object and  *)
(* not a copy, and claim_job puts a new object in the place of the old     *)
(* one.  A job has the object its schedule call created and one for every  *)
(* worker that claimed it.  Whether a publisher call succeeds is left open.*)
(***************************************************************************)
EXTENDS Integers, Sequences, FiniteSets, SequencesExt

CONSTANTS
  Jobs,         \* job ids
  Contents,     \* content items
  Workers,      \* request threads of run-due-jobs and publish-now
  Admins,       \* request threads of the scheduling endpoints
  Creator,      \* the owner of the object that schedule creates
  MaxTime,      \* bound on the clock
  MaxRequests,  \* bound on the number of administrators' requests
  MaxRestarts,  \* bound on the number of restarts
  MaxAttempts,  \* SchedulerConfig.max_attempts
  RetryDelay,   \* the first of SchedulerConfig.backoff_seconds, in ticks
  Grace         \* SchedulerConfig.publish_grace_seconds, in ticks

ASSUME SetAssumption == Jobs # {} /\ Contents # {} /\ Creator \notin Workers
ASSUME BoundAssumption ==
  /\ MaxTime \in Nat /\ MaxRequests \in Nat /\ MaxRestarts \in Nat /\ Grace \in Nat
  /\ MaxAttempts \in Nat \ {0} /\ RetryDelay \in Nat \ {0}

Owners == Workers \cup {Creator}

VARIABLES
  now,       \* the clock
  order,     \* the keys of the dict, in insertion order
  table,     \* the object every key of the dict refers to, by its owner
  object,    \* the objects of every job
  claimed,   \* MockPublishJobRepo.claimed_jobs
  used,      \* job ids handed out so far
  requests,  \* administrators' requests so far
  restarts,  \* restarts so far
  admin,     \* what every request thread is doing
  worker,    \* what every worker is doing
  calls,     \* history: publisher calls made for every job
  raced      \* history: jobs claimed by two workers between check and add

counters == <<used, requests, restarts>>
vars == <<now, order, table, object, claimed, counters, admin, worker, calls, raced>>

Pending == {"queued", "retry_wait"}
JobObject == [content: Contents, publishAt: Nat, attempts: Nat, nextRetry: Nat,
              status: Pending \cup {"running", "succeeded", "failed"}]

\* The object create_publish_job builds.
NewJob(c, t) ==
  [content |-> c, publishAt |-> t, attempts |-> 0, nextRetry |-> 0, status |-> "queued"]

SomeContent == CHOOSE c \in Contents : TRUE
SomeJob == CHOOSE j \in Jobs : TRUE
NoRequest == [op |-> "none", job |-> SomeJob, owner |-> Creator, at |-> 0]
Idle == [pc |-> "idle", job |-> SomeJob, owner |-> Creator]

Known(j) == j \in ToSet(order)
Stored(j) == object[j][table[j]]

\* dict[j] = the object of o: a new key goes to the end.
Put(j, o) ==
  /\ table' = [table EXCEPT ![j] = o]
  /\ order' = IF Known(j) THEN order ELSE Append(order, j)

\* get_by_idempotency_key: the first job with this content and this instant.
SameKey(c, t) ==
  LET Match(j) == Stored(j).content = c /\ Stored(j).publishAt = t
  IN  {order[i] : i \in {m \in DOMAIN order :
                          Match(order[m]) /\ \A k \in 1..(m - 1) : ~Match(order[k])}}

Schedulable(t) == t + Grace > now

\* list_due_jobs.
IsDue(j) ==
  \/ Stored(j).status = "queued" /\ Stored(j).publishAt <= now
  \/ Stored(j).status = "retry_wait" /\ Stored(j).nextRetry <= now

Init ==
  /\ now = 0
  /\ order = <<>>
  /\ table = [j \in Jobs |-> Creator]
  /\ object = [j \in Jobs |-> [o \in Owners |-> NewJob(SomeContent, 0)]]
  /\ claimed = {}
  /\ used = {} /\ requests = 0 /\ restarts = 0
  /\ admin = [a \in Admins |-> NoRequest]
  /\ worker = [w \in Workers |-> Idle]
  /\ calls = [j \in Jobs |-> 0]
  /\ raced = {}

-----------------------------------------------------------------------------
(* The scheduling endpoints. *)

Arrive(a, request) ==
  /\ admin[a].op = "none"
  /\ requests < MaxRequests
  /\ requests' = requests + 1
  /\ admin' = [admin EXCEPT ![a] = request]
  /\ UNCHANGED <<now, order, table, claimed, restarts, worker, calls, raced>>

Continue(a, request) ==
  /\ admin' = [admin EXCEPT ![a] = request]
  /\ UNCHANGED <<now, claimed, counters, worker, calls, raced>>

\* schedule, up to the save.
ScheduleCheck(a) ==
  \E c \in Contents, t \in 0..MaxTime, j \in Jobs \ used :
    /\ Schedulable(t)
    /\ SameKey(c, t) = {}
    /\ used' = used \cup {j}
    /\ object' = [object EXCEPT ![j][Creator] = NewJob(c, t)]
    /\ Arrive(a, [op |-> "schedule", job |-> j, owner |-> Creator, at |-> t])

\* The save of schedule and of reschedule.
RequestSave(a) ==
  /\ admin[a].op \in {"schedule", "resave"}
  /\ Put(admin[a].job, admin[a].owner)
  /\ Continue(a, NoRequest)
  /\ UNCHANGED object

UnscheduleCheck(a) ==
  \E j \in ToSet(order) :
    /\ Stored(j).status = "queued"
    /\ Arrive(a, [NoRequest EXCEPT !.op = "unschedule", !.job = j])
    /\ UNCHANGED <<object, used>>

\* dict.pop: the job may be gone by then.
UnscheduleDelete(a) ==
  /\ admin[a].op = "unschedule"
  /\ \/ \E i \in DOMAIN order : order[i] = admin[a].job /\ order' = RemoveAt(order, i)
     \/ ~Known(admin[a].job) /\ UNCHANGED order
  /\ Continue(a, NoRequest)
  /\ UNCHANGED <<table, object>>

\* reschedule holds the object it found.
RescheduleCheck(a) ==
  \E j \in ToSet(order), t \in 0..MaxTime :
    /\ Stored(j).status = "queued"
    /\ Schedulable(t)
    /\ SameKey(Stored(j).content, t) \subseteq {j}
    /\ Arrive(a, [op |-> "reschedule", job |-> j, owner |-> table[j], at |-> t])
    /\ UNCHANGED <<object, used>>

\* The assignment to its publish time is seen by whoever holds the object.
RescheduleMutate(a) ==
  /\ admin[a].op = "reschedule"
  /\ object' = [object EXCEPT ![admin[a].job][admin[a].owner].publishAt = admin[a].at]
  /\ Continue(a, [admin[a] EXCEPT !.op = "resave"])
  /\ UNCHANGED <<order, table>>

-----------------------------------------------------------------------------
(* A worker: claim_next, then execute_job. *)

Step(w, r) ==
  /\ worker' = [worker EXCEPT ![w] = r]
  /\ UNCHANGED <<now, counters, admin>>

\* The first due job in the order of the dict.
ListDue(w) ==
  \E i \in DOMAIN order :
    /\ worker[w].pc = "idle"
    /\ IsDue(order[i])
    /\ \A k \in 1..(i - 1) : ~IsDue(order[k])
    /\ Stored(order[i]).publishAt <= now
    /\ Step(w, [Idle EXCEPT !.pc = "listed", !.job = order[i]])
    /\ UNCHANGED <<order, table, object, claimed, calls, raced>>

\* claim_job up to the tests: a job that was ever claimed is refused.
ClaimCheck(w) ==
  LET j == worker[w].job IN
  /\ worker[w].pc = "listed"
  /\ \/ /\ j \notin claimed /\ Known(j)
        /\ Stored(j).status \in Pending
        /\ Step(w, [pc |-> "checked", job |-> j, owner |-> table[j]])
     \/ /\ j \in claimed \/ ~Known(j) \/ Stored(j).status \notin Pending
        /\ Step(w, Idle)
  /\ UNCHANGED <<order, table, object, claimed, calls, raced>>

\* Mutant: the job that was found is modified and not replaced.
ClaimInPlace(w) ==
  LET j == worker[w].job
      o == worker[w].owner
  IN
  /\ worker[w].pc = "checked"
  /\ claimed' = claimed \cup {j}
  /\ raced' = IF j \in claimed THEN raced \cup {j} ELSE raced
  /\ object' = [object EXCEPT ![j][o].status = "running"]
  /\ Put(j, o)
  /\ Step(w, [worker[w] EXCEPT !.pc = "claimed"])
  /\ UNCHANGED calls

\* claim_job after the tests.
ClaimTake(w) ==
  LET j == worker[w].job
      o == worker[w].owner
  IN
  /\ worker[w].pc = "checked"
  /\ claimed' = claimed \cup {j}
  /\ raced' = IF j \in claimed THEN raced \cup {j} ELSE raced
  /\ object' = [object EXCEPT ![j][w] = [object[j][o] EXCEPT !.status = "running"]]
  /\ Put(j, w)
  /\ Step(w, [worker[w] EXCEPT !.pc = "claimed", !.owner = w])
  /\ UNCHANGED calls

\* execute_job up to the call of the publisher.
Begin(w) ==
  LET j == worker[w].job IN
  /\ worker[w].pc = "claimed"
  /\ \/ /\ object[j][worker[w].owner].publishAt <= now
        /\ calls' = [calls EXCEPT ![j] = @ + 1]
        /\ Step(w, [worker[w] EXCEPT !.pc = "publishing"])
     \/ /\ object[j][worker[w].owner].publishAt > now
        /\ Step(w, Idle)
        /\ UNCHANGED calls
  /\ UNCHANGED <<order, table, object, claimed, raced>>

\* The object after a success, and after a failure (_handle_failure).
Succeeded(job) == [job EXCEPT !.status = "succeeded", !.attempts = @ + 1]
Failed(job) ==
  LET n == job.attempts + 1 IN
  IF n < MaxAttempts
  THEN [job EXCEPT !.status = "retry_wait", !.attempts = n, !.nextRetry = now + RetryDelay]
  ELSE [job EXCEPT !.status = "failed", !.attempts = n]

\* Mutant: a failure gives the claim back.
ExecuteReleasing(w) ==
  LET j == worker[w].job
      o == worker[w].owner
  IN
  /\ worker[w].pc = "publishing"
  /\ object' = [object EXCEPT ![j][o] = Failed(@)]
  /\ Put(j, o)
  /\ claimed' = claimed \ {j}
  /\ Step(w, Idle)
  /\ UNCHANGED <<calls, raced>>

\* execute_job after the publisher answered.
Execute(w) ==
  LET j == worker[w].job
      o == worker[w].owner
  IN
  /\ worker[w].pc = "publishing"
  /\ \/ object' = [object EXCEPT ![j][o] = Succeeded(@)]
     \/ object' = [object EXCEPT ![j][o] = Failed(@)]
  /\ Put(j, o)
  /\ Step(w, Idle)
  /\ UNCHANGED <<claimed, calls, raced>>

-----------------------------------------------------------------------------

\* The process restarts: the module-level instance is a new one.
Restart ==
  /\ restarts < MaxRestarts
  /\ restarts' = restarts + 1
  /\ order' = <<>>
  /\ claimed' = {}
  /\ admin' = [a \in Admins |-> NoRequest]
  /\ worker' = [w \in Workers |-> Idle]
  /\ UNCHANGED <<now, table, object, used, requests, calls, raced>>

Tick ==
  /\ now < MaxTime
  /\ now' = now + 1
  /\ UNCHANGED <<order, table, object, claimed, counters, admin, worker, calls, raced>>

AdminNext(a) ==
  \/ ScheduleCheck(a)
  \/ RequestSave(a)
  \/ UnscheduleCheck(a)
  \/ UnscheduleDelete(a)
  \/ RescheduleCheck(a)
  \/ RescheduleMutate(a)

WorkerNext(w) == ListDue(w) \/ ClaimCheck(w) \/ ClaimTake(w) \/ Begin(w) \/ Execute(w)

Next ==
  \/ \E a \in Admins : AdminNext(a)
  \/ \E w \in Workers : WorkerNext(w)
  \/ Restart
  \/ Tick

Spec == Init /\ [][Next]_vars

-----------------------------------------------------------------------------
(* Properties. *)

\* Every variable has its type.
TypeOK ==
  /\ now \in 0..MaxTime
  /\ order \in Seq(used) /\ IsInjective(order)
  /\ table \in [Jobs -> Owners]
  /\ object \in [Jobs -> [Owners -> JobObject]]
  /\ claimed \subseteq used /\ used \subseteq Jobs
  /\ requests \in 0..MaxRequests /\ restarts \in 0..MaxRestarts
  /\ admin \in [Admins -> [op: {"none", "schedule", "unschedule", "reschedule", "resave"},
                           job: Jobs, owner: Owners, at: 0..MaxTime]]
  /\ worker \in [Workers -> [pc: {"idle", "listed", "checked", "claimed", "publishing"},
                             job: Jobs, owner: Owners]]
  /\ calls \in [Jobs -> Nat]
  /\ raced \subseteq Jobs

\* R3: the job a worker publishes is due all the time it is published.  A
\* request that moves a job shares the object it found with every other thread:
\* it must never be the object a worker passed the time check with.
NeverPublishEarly ==
  \A w \in Workers : worker[w].pc = "publishing" =>
    object[worker[w].job][worker[w].owner].publishAt <= now

\* I4: the publisher is called once for a job, whatever a reschedule wrote over
\* its state and although a restart forgets the claims, unless two workers were
\* between the test of claimed_jobs and the addition to it.
CalledOnce == \A j \in Jobs \ raced : calls[j] <= 1

\* The table, the claims and the objects keep their types, and a job is called once.
TableSound == TypeOK /\ CalledOnce

\* Somebody keeps calling run-due-jobs, and the clock goes on.
FairSpec ==
  /\ Spec
  /\ \A w \in Workers : WF_vars(WorkerNext(w))
  /\ WF_vars(Tick)

\* I3 as src/src/components/scheduler/contract.md:31 states it: a failed job is
\* retried, once its delay is over.
RetryHappens ==
  \A j \in Jobs :
    (Known(j) /\ Stored(j).status = "retry_wait" /\ Stored(j).nextRetry <= now)
      ~> ~(Known(j) /\ Stored(j).status = "retry_wait")

=============================================================================
