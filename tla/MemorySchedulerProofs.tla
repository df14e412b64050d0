------------------------ MODULE MemorySchedulerProofs ------------------------
(***************************************************************************)
(* Proofs about MemoryScheduler, for every set of jobs, items, workers and *)
(* administrators, and every bound.                                        *)
(***************************************************************************)
EXTENDS MemoryScheduler, SequenceTheorems, TLAPS

Holding == {"checked", "claimed", "publishing"}
Claiming == {"claimed", "publishing"}

\* The objects of workers are never queued once the table refers to them, so a
\* request holds the object schedule made; a worker that claimed holds its own.
OwnerInv ==
  /\ \A a \in Admins : admin[a].owner = Creator
  /\ \A j \in Jobs, w \in Workers : table[j] = w => object[j][w].status # "queued"
  /\ \A w \in Workers : worker[w].pc \in Claiming => worker[w].owner = w

\* Only ids that were handed out are worked on.
UsedInv ==
  /\ \A a \in Admins : admin[a].op # "none" => admin[a].job \in used
  /\ \A w \in Workers : worker[w].pc # "idle" => worker[w].job \in used
  /\ \A j \in Jobs : calls[j] # 0 => j \in used

\* No thread of this process can bring the job back into the table.
Gone(j) ==
  /\ ~Known(j)
  /\ \A a \in Admins : admin[a].op # "none" => admin[a].job # j
  /\ \A w \in Workers : worker[w].pc \in Holding => worker[w].job # j

\* A call was made under a claim that is kept, or the job is gone with a restart;
\* a worker that is about to call is the only one, and nobody called before it.
OnceInv ==
  \A j \in Jobs \ raced :
    /\ calls[j] <= 1
    /\ calls[j] # 0 => j \in claimed \/ Gone(j)
    /\ \A w \in Workers : worker[w].pc \in Claiming /\ worker[w].job = j => j \in claimed
    /\ \A w \in Workers : worker[w].pc = "claimed" /\ worker[w].job = j =>
         /\ calls[j] = 0
         /\ \A v \in Workers : worker[v].pc = "claimed" /\ worker[v].job = j => v = w

MemoryInv == TypeOK /\ NeverPublishEarly /\ OwnerInv /\ UsedInv /\ OnceInv
-----------------------------------------------------------------------------
(* The dict. *)

\* What is left of an injective sequence without one of its elements.
LEMMA RemovedKey ==
  ASSUME NEW S, NEW s \in Seq(S), IsInjective(s), NEW i \in DOMAIN s
  PROVE  /\ RemoveAt(s, i) \in Seq(S)
         /\ IsInjective(RemoveAt(s, i))
         /\ ToSet(RemoveAt(s, i)) \subseteq ToSet(s)
<1> DEFINE left == SubSeq(s, 1, i - 1)
           right == SubSeq(s, i + 1, Len(s))
           rest == left \o right
<1>1. /\ Len(s) \in Nat /\ DOMAIN s = 1..Len(s) /\ i \in 1..Len(s)
      /\ \A k \in 1..Len(s) : s[k] \in S
  BY LenProperties, ElementOfSeq
<1>2. /\ left \in Seq(S) /\ Len(left) = i - 1
      /\ \A k \in 1..(i - 1) : left[k] = s[k]
  <2>1. \A k \in 1..(i - 1) : s[k] \in S
    BY <1>1
  <2>2. /\ left \in Seq(S)
        /\ Len(left) = IF 1 <= i - 1 THEN i - 1 - 1 + 1 ELSE 0
        /\ \A k \in 1..(i - 1 - 1 + 1) : left[k] = s[1 + k - 1]
    BY <1>1, <2>1, SubSeqProperties
  <2> HIDE DEF left
  <2>3. i \in Nat /\ i >= 1 /\ i - 1 - 1 + 1 = i - 1 /\ \A k \in Nat : 1 + k - 1 = k
    BY <1>1
  <2>4. Len(left) = i - 1
    BY <2>2, <2>3
  <2>5. \A k \in 1..(i - 1) : left[k] = s[k]
    BY <2>2, <2>3
  <2> QED
    BY <2>2, <2>4, <2>5
<1>3. /\ right \in Seq(S) /\ Len(right) = Len(s) - i
      /\ \A k \in 1..(Len(s) - i) : right[k] = s[k + i]
  <2>1. \A k \in (i + 1)..Len(s) : s[k] \in S
    BY <1>1
  <2>2. /\ right \in Seq(S)
        /\ Len(right) = IF i + 1 <= Len(s) THEN Len(s) - (i + 1) + 1 ELSE 0
        /\ \A k \in 1..(Len(s) - (i + 1) + 1) : right[k] = s[i + 1 + k - 1]
    BY <1>1, <2>1, SubSeqProperties
  <2> HIDE DEF right
  <2>3. /\ Len(s) \in Nat /\ i \in Nat /\ i >= 1 /\ i <= Len(s)
        /\ Len(s) - (i + 1) + 1 = Len(s) - i /\ \A k \in Nat : i + 1 + k - 1 = k + i
    BY <1>1
  <2>4. Len(right) = Len(s) - i
    BY <2>2, <2>3
  <2>5. ASSUME NEW k \in 1..(Len(s) - i)
        PROVE  right[k] = s[k + i]
    <3>1. k \in 1..(Len(s) - (i + 1) + 1) /\ i + 1 + k - 1 = k + i
      BY <2>3
    <3>2. right[k] = s[i + 1 + k - 1]
      BY <2>2, <3>1
    <3> QED
      BY <3>1, <3>2
  <2> QED
    BY <2>2, <2>4, <2>5
<1> HIDE DEF left, right
<1>4. /\ rest \in Seq(S) /\ Len(rest) = Len(left) + Len(right)
      /\ \A k \in 1..(Len(left) + Len(right)) :
            rest[k] = IF k <= Len(left) THEN left[k] ELSE right[k - Len(left)]
  BY <1>2, <1>3, ConcatProperties
<1> HIDE DEF rest
<1> DEFINE place(k) == IF k < i THEN k ELSE k + 1
<1>5. ASSUME NEW k \in 1..Len(rest)
      PROVE  place(k) \in 1..Len(s) /\ rest[k] = s[place(k)]
  <2>1. CASE k < i
    BY <1>1, <1>2, <1>3, <1>4, <2>1
  <2>2. CASE ~(k < i)
    <3>1. rest[k] = right[k - (i - 1)] /\ k - (i - 1) \in 1..(Len(s) - i)
      BY <1>1, <1>2, <1>3, <1>4, <2>2, SMTT(30)
    <3>2. right[k - (i - 1)] = s[k - (i - 1) + i]
      BY <1>3, <3>1
    <3>3. k - (i - 1) + i = k + 1
      BY <1>1
    <3>4. rest[k] = s[k + 1] /\ place(k) = k + 1
      BY <2>2, <3>1, <3>2, <3>3
    <3>5. k + 1 \in 1..Len(s)
      BY <1>1, <1>2, <1>3, <1>4, <2>2
    <3> QED
      BY <3>4, <3>5
  <2> QED
    BY <2>1, <2>2
<1>6. DOMAIN rest = 1..Len(rest)
  BY <1>4, LenProperties
<1>7. IsInjective(rest)
  <2>1. ASSUME NEW k \in 1..Len(rest), NEW m \in 1..Len(rest), rest[k] = rest[m]
        PROVE  k = m
    <3>1. s[place(k)] = s[place(m)] /\ place(k) \in DOMAIN s /\ place(m) \in DOMAIN s
      BY <1>1, <1>5, <2>1
    <3>2. place(k) = place(m)
      BY <3>1 DEF IsInjective
    <3>3. Len(rest) \in Nat
      BY <1>4, LenProperties
    <3> QED
      BY <1>1, <3>2, <3>3
  <2> QED
    BY <1>6, <2>1 DEF IsInjective
<1>8. ToSet(rest) \subseteq ToSet(s)
  BY <1>1, <1>5, <1>6 DEF ToSet
<1> QED
  BY <1>4, <1>7, <1>8 DEF RemoveAt, rest, left, right

\* An assignment to a key of the dict.
LEMMA PutEffect ==
  ASSUME TypeOK, NEW j \in used, NEW o \in Owners, Put(j, o)
  PROVE  /\ order' \in Seq(used) /\ IsInjective(order')
         /\ table' \in [Jobs -> Owners]
         /\ \A k \in Jobs : table'[k] = IF k = j THEN o ELSE table[k]
         /\ \A k \in Jobs : Known(k)' => Known(k) \/ k = j
<1>1. /\ order \in Seq(used) /\ IsInjective(order) /\ table \in [Jobs -> Owners]
      /\ j \in Jobs
  BY DEF TypeOK
<1>2. table' = [table EXCEPT ![j] = o]
  BY DEF Put
<1>3. CASE Known(j)
  <2>1. order' = order
    BY <1>3 DEF Put
  <2> QED
    BY <1>1, <1>2, <2>1 DEF Known
<1>4. CASE ~Known(j)
  <2>1. order' = Append(order, j)
    BY <1>4 DEF Put
  <2>2. /\ order' \in Seq(used) /\ Len(order') = Len(order) + 1
        /\ \A i \in 1..Len(order) : order'[i] = order[i]
        /\ order'[Len(order) + 1] = j
    BY <1>1, <2>1, AppendProperties
  <2>3. /\ Len(order) \in Nat /\ DOMAIN order = 1..Len(order)
        /\ DOMAIN order' = 1..Len(order')
    BY <1>1, <2>2, LenProperties
  <2>4. \A i \in DOMAIN order : order[i] # j
    BY <1>4 DEF Known, ToSet
  <2>5. \A i \in DOMAIN order' : i \in DOMAIN order \/ i = Len(order) + 1
    BY <2>2, <2>3
  <2>6. IsInjective(order')
    BY <1>1, <2>2, <2>3, <2>4, <2>5 DEF IsInjective
  <2>7. \A k \in Jobs : k \in ToSet(order') => k \in ToSet(order) \/ k = j
    BY <2>2, <2>3, <2>5 DEF ToSet
  <2> QED
    BY <1>1, <1>2, <2>2, <2>6, <2>7 DEF Known
<1> QED
  BY <1>3, <1>4
-----------------------------------------------------------------------------
(* What the steps of requests and of workers have in common. *)

\* A step that leaves the workers, the claims and the calls alone keeps a call
\* the only one, when nothing brings a job that is gone back.
LEMMA RequestOnce ==
  ASSUME MemoryInv, UNCHANGED <<worker, claimed, calls, raced>>,
         \A j \in used : Gone(j) => Gone(j)'
  PROVE  OnceInv'
<1> SUFFICES ASSUME NEW j \in Jobs \ raced
             PROVE  /\ calls[j] <= 1
                    /\ calls[j] # 0 => j \in claimed \/ Gone(j)'
                    /\ \A w \in Workers : worker[w].pc \in Claiming /\ worker[w].job = j =>
                         j \in claimed
                    /\ \A w \in Workers : worker[w].pc = "claimed" /\ worker[w].job = j =>
                         /\ calls[j] = 0
                         /\ \A v \in Workers :
                              worker[v].pc = "claimed" /\ worker[v].job = j => v = w
  BY DEF OnceInv
<1>1. calls[j] # 0 => j \in used
  BY DEF MemoryInv, UsedInv
<1> QED
  BY <1>1 DEF MemoryInv, OnceInv

RequestKinds == {"none", "schedule", "unschedule", "reschedule", "resave"}
Requests == [op: RequestKinds, job: Jobs, owner: Owners, at: 0..MaxTime]
WorkerStates == [pc: {"idle", "listed", "checked", "claimed", "publishing"},
                 job: Jobs, owner: Owners]

LEMMA NoRequestType == NoRequest \in Requests /\ NoRequest.op = "none" /\ NoRequest.owner = Creator
<1>1. SomeJob \in Jobs /\ Creator \in Owners /\ 0 \in 0..MaxTime
  BY SetAssumption, BoundAssumption DEF SomeJob, Owners
<1> QED
  BY <1>1 DEF NoRequest, Requests, RequestKinds

LEMMA IdleType == Idle \in WorkerStates /\ Idle.pc = "idle"
<1>1. SomeJob \in Jobs /\ Creator \in Owners
  BY SetAssumption DEF SomeJob, Owners
<1> QED
  BY <1>1 DEF Idle, WorkerStates

\* The next record of one thread.
LEMMA AdminType ==
  ASSUME TypeOK, NEW a \in Admins, NEW r \in Requests, admin' = [admin EXCEPT ![a] = r]
  PROVE  /\ admin' \in [Admins -> Requests]
         /\ \A b \in Admins : admin'[b] = IF b = a THEN r ELSE admin[b]
BY DEF TypeOK, Requests, RequestKinds

LEMMA WorkerType ==
  ASSUME TypeOK, NEW w \in Workers, NEW r \in WorkerStates, worker' = [worker EXCEPT ![w] = r]
  PROVE  /\ worker' \in [Workers -> WorkerStates]
         /\ \A v \in Workers : worker'[v] = IF v = w THEN r ELSE worker[v]
BY DEF TypeOK, WorkerStates

\* The next value of one object.
LEMMA ObjectType ==
  ASSUME TypeOK, NEW j \in Jobs, NEW o \in Owners, NEW r \in JobObject,
         object' = [object EXCEPT ![j][o] = r]
  PROVE  /\ object' \in [Jobs -> [Owners -> JobObject]]
         /\ \A k \in Jobs, p \in Owners :
              object'[k][p] = IF k = j /\ p = o THEN r ELSE object[k][p]
<1>1. object \in [Jobs -> [Owners -> JobObject]]
  BY DEF TypeOK
<1>2. object' = [object EXCEPT ![j] = [object[j] EXCEPT ![o] = r]]
  OBVIOUS
<1>3. [object[j] EXCEPT ![o] = r] \in [Owners -> JobObject]
  BY <1>1
<1> QED
  BY <1>1, <1>2, <1>3

LEMMA NewJobType ==
  ASSUME NEW c \in Contents, NEW t \in Nat
  PROVE  NewJob(c, t) \in JobObject
BY DEF NewJob, JobObject, Pending

\* The time of an object that is moved.
LEMMA MovedType ==
  ASSUME NEW r \in JobObject, NEW t \in Nat
  PROVE  /\ [r EXCEPT !.publishAt = t] \in JobObject
         /\ [r EXCEPT !.publishAt = t].status = r.status
BY DEF JobObject

-----------------------------------------------------------------------------
(* The scheduling endpoints. *)

LEMMA ScheduleCheckStep ==
  ASSUME MemoryInv, NEW a \in Admins, ScheduleCheck(a)
  PROVE  MemoryInv'
<1>1. PICK c \in Contents, t \in 0..MaxTime, j \in Jobs \ used :
        /\ used' = used \cup {j}
        /\ object' = [object EXCEPT ![j][Creator] = NewJob(c, t)]
        /\ Arrive(a, [op |-> "schedule", job |-> j, owner |-> Creator, at |-> t])
  BY DEF ScheduleCheck
<1> DEFINE request == [op |-> "schedule", job |-> j, owner |-> Creator, at |-> t]
<1>2. /\ requests < MaxRequests /\ requests' = requests + 1
      /\ admin' = [admin EXCEPT ![a] = request]
      /\ UNCHANGED <<now, order, table, claimed, restarts, worker, calls, raced>>
  BY <1>1 DEF Arrive
<1>3. request \in Requests /\ request.op = "schedule" /\ request.job = j /\ request.owner = Creator
  BY DEF Requests, RequestKinds, Owners
<1> HIDE DEF request
<1>4. /\ admin' \in [Admins -> Requests]
      /\ \A b \in Admins : admin'[b] = IF b = a THEN request ELSE admin[b]
  BY <1>2, <1>3, AdminType DEF MemoryInv
<1>5. /\ object' \in [Jobs -> [Owners -> JobObject]]
      /\ \A k \in Jobs, p \in Owners :
           object'[k][p] = IF k = j /\ p = Creator THEN NewJob(c, t) ELSE object[k][p]
  <2>1. NewJob(c, t) \in JobObject /\ Creator \in Owners /\ j \in Jobs
    BY BoundAssumption, NewJobType DEF Owners
  <2> QED
    BY <1>1, <2>1, ObjectType, ZenonT(40) DEF MemoryInv
<1>6. TypeOK'
  <2>1. order' \in Seq(used') /\ IsInjective(order')
    BY <1>1, <1>2, SeqMonotonic DEF MemoryInv, TypeOK
  <2>2. requests' \in 0..MaxRequests
    BY <1>2, BoundAssumption DEF MemoryInv, TypeOK
  <2> QED
    BY <1>1, <1>2, <1>4, <1>5, <2>1, <2>2 DEF MemoryInv, TypeOK, Requests, RequestKinds
<1>7. \A k \in Jobs, w \in Workers : object'[k][w] = object[k][w]
  BY <1>5, SetAssumption DEF Owners
<1>8. OwnerInv'
  BY <1>2, <1>3, <1>4, <1>7 DEF MemoryInv, OwnerInv
<1>9. NeverPublishEarly'
  <2>1. ASSUME NEW w \in Workers, worker[w].pc = "publishing"
        PROVE  object'[worker[w].job][worker[w].owner] = object[worker[w].job][worker[w].owner]
    BY <1>7, <2>1 DEF MemoryInv, OwnerInv, Claiming, TypeOK
  <2> QED
    BY <1>2, <2>1 DEF MemoryInv, NeverPublishEarly
<1>10. UsedInv'
  BY <1>1, <1>2, <1>3, <1>4 DEF MemoryInv, UsedInv
<1>11. \A k \in used : Gone(k) => Gone(k)'
  BY <1>2, <1>3, <1>4 DEF Gone, Known
<1>12. OnceInv'
  BY <1>2, <1>11, RequestOnce
<1> QED
  BY <1>6, <1>8, <1>9, <1>10, <1>12 DEF MemoryInv

LEMMA RequestSaveStep ==
  ASSUME MemoryInv, NEW a \in Admins, RequestSave(a)
  PROVE  MemoryInv'
<1>1. /\ admin[a].op \in {"schedule", "resave"}
      /\ Put(admin[a].job, admin[a].owner)
      /\ admin' = [admin EXCEPT ![a] = NoRequest]
      /\ UNCHANGED <<object, now, claimed, used, requests, restarts, worker, calls, raced>>
  BY DEF RequestSave, Continue, counters
<1>2. admin[a].job \in used /\ admin[a].owner = Creator /\ Creator \in Owners
  BY <1>1 DEF MemoryInv, UsedInv, OwnerInv, Owners
<1>3. /\ order' \in Seq(used) /\ IsInjective(order')
      /\ table' \in [Jobs -> Owners]
      /\ \A k \in Jobs : table'[k] = IF k = admin[a].job THEN Creator ELSE table[k]
      /\ \A k \in Jobs : Known(k)' => Known(k) \/ k = admin[a].job
  BY <1>1, <1>2, PutEffect DEF MemoryInv
<1>4. /\ admin' \in [Admins -> Requests]
      /\ \A b \in Admins : admin'[b] = IF b = a THEN NoRequest ELSE admin[b]
  BY <1>1, NoRequestType, AdminType DEF MemoryInv
<1>5. TypeOK'
  BY <1>1, <1>3, <1>4 DEF MemoryInv, TypeOK, Requests, RequestKinds
<1>6. OwnerInv'
  BY <1>1, <1>3, <1>4, NoRequestType, SetAssumption DEF MemoryInv, OwnerInv
<1>7. NeverPublishEarly'
  BY <1>1 DEF MemoryInv, NeverPublishEarly
<1>8. UsedInv'
  BY <1>1, <1>4, NoRequestType DEF MemoryInv, UsedInv
<1>9. \A k \in used : Gone(k) => Gone(k)'
  <2>1. \A k \in used : Gone(k) => k # admin[a].job
    BY <1>1 DEF Gone
  <2> QED
    BY <1>1, <1>3, <1>4, <2>1, NoRequestType DEF Gone, MemoryInv, TypeOK
<1>10. OnceInv'
  BY <1>1, <1>9, RequestOnce
<1> QED
  BY <1>5, <1>6, <1>7, <1>8, <1>10 DEF MemoryInv

\* The keys of the dict are ids that were handed out.
LEMMA KnownUsed ==
  ASSUME TypeOK
  PROVE  ToSet(order) \subseteq used /\ used \subseteq Jobs
<1>1. \A i \in DOMAIN order : order[i] \in used
  BY ElementOfSeq, LenProperties DEF TypeOK
<1> QED
  BY <1>1 DEF ToSet, TypeOK

\* What the checks of unschedule and of reschedule have in common.
LEMMA ArriveStep ==
  ASSUME MemoryInv, NEW a \in Admins, NEW r \in Requests, Arrive(a, r),
         r.owner = Creator, Known(r.job), UNCHANGED <<object, used>>
  PROVE  MemoryInv'
<1>1. /\ requests < MaxRequests /\ requests' = requests + 1
      /\ admin' = [admin EXCEPT ![a] = r]
      /\ UNCHANGED <<now, order, table, claimed, restarts, worker, calls, raced>>
  BY DEF Arrive
<1>2. /\ admin' \in [Admins -> Requests]
      /\ \A b \in Admins : admin'[b] = IF b = a THEN r ELSE admin[b]
  BY <1>1, AdminType DEF MemoryInv
<1>3. TypeOK'
  <2>1. requests' \in 0..MaxRequests
    BY <1>1, BoundAssumption DEF MemoryInv, TypeOK
  <2> QED
    BY <1>1, <1>2, <2>1 DEF MemoryInv, TypeOK, Requests, RequestKinds
<1>4. OwnerInv'
  BY <1>1, <1>2 DEF MemoryInv, OwnerInv
<1>5. NeverPublishEarly'
  BY <1>1 DEF MemoryInv, NeverPublishEarly
<1>6. r.job \in used
  BY KnownUsed DEF Known, MemoryInv
<1>7. UsedInv'
  BY <1>1, <1>2, <1>6 DEF MemoryInv, UsedInv
<1>8. \A k \in used : Gone(k) => Gone(k)'
  BY <1>1, <1>2 DEF Gone, Known
<1>9. OnceInv'
  BY <1>1, <1>8, RequestOnce
<1> QED
  BY <1>3, <1>4, <1>5, <1>7, <1>9 DEF MemoryInv

LEMMA UnscheduleCheckStep ==
  ASSUME MemoryInv, NEW a \in Admins, UnscheduleCheck(a)
  PROVE  MemoryInv'
<1>1. PICK j \in ToSet(order) :
        /\ Arrive(a, [NoRequest EXCEPT !.op = "unschedule", !.job = j])
        /\ UNCHANGED <<object, used>>
  BY DEF UnscheduleCheck
<1> DEFINE r == [NoRequest EXCEPT !.op = "unschedule", !.job = j]
<1>2. j \in Jobs
  BY KnownUsed DEF MemoryInv
<1>3. r \in Requests /\ r.owner = Creator /\ r.job = j
  BY <1>2, NoRequestType DEF Requests, RequestKinds
<1> HIDE DEF r
<1>4. Arrive(a, r) /\ Known(r.job)
  BY <1>1, <1>3 DEF r, Known
<1> QED
  BY <1>1, <1>3, <1>4, ArriveStep

LEMMA RescheduleCheckStep ==
  ASSUME MemoryInv, NEW a \in Admins, RescheduleCheck(a)
  PROVE  MemoryInv'
<1>1. PICK j \in ToSet(order), t \in 0..MaxTime :
        /\ Stored(j).status = "queued"
        /\ Arrive(a, [op |-> "reschedule", job |-> j, owner |-> table[j], at |-> t])
        /\ UNCHANGED <<object, used>>
  BY DEF RescheduleCheck
<1> DEFINE r == [op |-> "reschedule", job |-> j, owner |-> table[j], at |-> t]
<1>2. j \in Jobs
  BY KnownUsed DEF MemoryInv
<1>3. table[j] = Creator
  <2>1. table[j] \in Workers \/ table[j] = Creator
    BY <1>2 DEF MemoryInv, TypeOK, Owners
  <2> QED
    BY <1>1, <1>2, <2>1 DEF MemoryInv, OwnerInv, Stored
<1>4. r \in Requests /\ r.owner = Creator /\ r.job = j
  BY <1>2, <1>3 DEF Requests, RequestKinds, Owners
<1> HIDE DEF r
<1>5. Arrive(a, r) /\ Known(r.job)
  BY <1>1, <1>4 DEF r, Known
<1> QED
  BY <1>1, <1>4, <1>5, ArriveStep

LEMMA UnscheduleDeleteStep ==
  ASSUME MemoryInv, NEW a \in Admins, UnscheduleDelete(a)
  PROVE  MemoryInv'
<1>1. /\ admin' = [admin EXCEPT ![a] = NoRequest]
      /\ UNCHANGED <<table, object, now, claimed, used, requests, restarts, worker, calls, raced>>
  BY DEF UnscheduleDelete, Continue, counters
<1>2. order' \in Seq(used) /\ IsInjective(order') /\ ToSet(order') \subseteq ToSet(order)
  <2>1. order \in Seq(used) /\ IsInjective(order)
    BY DEF MemoryInv, TypeOK
  <2>2. CASE \E i \in DOMAIN order : order[i] = admin[a].job /\ order' = RemoveAt(order, i)
    BY <2>1, <2>2, RemovedKey
  <2>3. CASE UNCHANGED order
    BY <2>1, <2>3
  <2> QED
    BY <2>2, <2>3 DEF UnscheduleDelete
<1>3. /\ admin' \in [Admins -> Requests]
      /\ \A b \in Admins : admin'[b] = IF b = a THEN NoRequest ELSE admin[b]
  BY <1>1, NoRequestType, AdminType DEF MemoryInv
<1>4. TypeOK'
  BY <1>1, <1>2, <1>3 DEF MemoryInv, TypeOK, Requests, RequestKinds
<1>5. OwnerInv'
  BY <1>1, <1>3, NoRequestType DEF MemoryInv, OwnerInv
<1>6. NeverPublishEarly'
  BY <1>1 DEF MemoryInv, NeverPublishEarly
<1>7. UsedInv'
  BY <1>1, <1>3, NoRequestType DEF MemoryInv, UsedInv
<1>8. \A k \in used : Gone(k) => Gone(k)'
  BY <1>1, <1>2, <1>3, NoRequestType DEF Gone, Known
<1>9. OnceInv'
  BY <1>1, <1>8, RequestOnce
<1> QED
  BY <1>4, <1>5, <1>6, <1>7, <1>9 DEF MemoryInv

\* The object a request moves is the one schedule made: no worker holds it.
LEMMA RescheduleMutateStep ==
  ASSUME MemoryInv, NEW a \in Admins, RescheduleMutate(a)
  PROVE  MemoryInv'
<1> DEFINE j == admin[a].job
           r == [admin[a] EXCEPT !.op = "resave"]
           moved == [object[j][Creator] EXCEPT !.publishAt = admin[a].at]
<1>1. admin[a].owner = Creator /\ admin[a] \in Requests /\ j \in Jobs /\ Creator \in Owners
  BY DEF MemoryInv, OwnerInv, TypeOK, Requests, RequestKinds, Owners
<1>2. /\ admin[a].op = "reschedule"
      /\ object' = [object EXCEPT ![j][Creator].publishAt = admin[a].at]
      /\ admin' = [admin EXCEPT ![a] = r]
      /\ UNCHANGED <<order, table, now, claimed, used, requests, restarts, worker, calls, raced>>
  BY <1>1 DEF RescheduleMutate, Continue, counters
<1>3. r \in Requests /\ r.owner = Creator /\ r.job = j
  BY <1>1 DEF Requests, RequestKinds
<1>4. object' = [object EXCEPT ![j][Creator] = moved]
  BY <1>2
<1>5. moved \in JobObject
  <2>1. object[j][Creator] \in JobObject
    BY <1>1 DEF MemoryInv, TypeOK
  <2>2. admin[a].at \in Nat
    BY <1>1, BoundAssumption DEF Requests
  <2> QED
    BY <2>1, <2>2, MovedType
<1> HIDE DEF r, moved
<1>6. /\ admin' \in [Admins -> Requests]
      /\ \A b \in Admins : admin'[b] = IF b = a THEN r ELSE admin[b]
  BY <1>2, <1>3, AdminType DEF MemoryInv
<1>7. /\ object' \in [Jobs -> [Owners -> JobObject]]
      /\ \A k \in Jobs, p \in Owners :
           object'[k][p] = IF k = j /\ p = Creator THEN moved ELSE object[k][p]
  BY <1>1, <1>4, <1>5, ObjectType, ZenonT(40) DEF MemoryInv
<1>8. TypeOK'
  BY <1>2, <1>6, <1>7 DEF MemoryInv, TypeOK, Requests, RequestKinds
<1>9. \A k \in Jobs, w \in Workers : object'[k][w] = object[k][w]
  BY <1>7, SetAssumption DEF Owners
<1>10. OwnerInv'
  BY <1>2, <1>3, <1>6, <1>9 DEF MemoryInv, OwnerInv
<1>11. NeverPublishEarly'
  <2>1. ASSUME NEW w \in Workers, worker[w].pc = "publishing"
        PROVE  object'[worker[w].job][worker[w].owner] = object[worker[w].job][worker[w].owner]
    BY <1>9, <2>1 DEF MemoryInv, OwnerInv, Claiming, TypeOK
  <2> QED
    BY <1>2, <2>1 DEF MemoryInv, NeverPublishEarly
<1>12. UsedInv'
  BY <1>2, <1>3, <1>6 DEF MemoryInv, UsedInv
<1>13. \A k \in used : Gone(k) => Gone(k)'
  BY <1>2, <1>3, <1>6 DEF Gone, Known
<1>14. OnceInv'
  BY <1>2, <1>13, RequestOnce
<1> QED
  BY <1>8, <1>10, <1>11, <1>12, <1>14 DEF MemoryInv
-----------------------------------------------------------------------------
(* Workers. *)

\* A worker of this process that is not about to call, after a step that neither
\* claims nor calls.
LEMMA WorkerOnce ==
  ASSUME MemoryInv, NEW w \in Workers, NEW r \in WorkerStates,
         worker' = [worker EXCEPT ![w] = r],
         UNCHANGED <<admin, used, claimed, calls, raced>>,
         r.pc \in Claiming => worker[w].pc \in Claiming /\ r.job = worker[w].job,
         r.pc # "claimed",
         r.pc \in Holding => Known(r.job) \/ (worker[w].pc \in Holding /\ r.job = worker[w].job),
         \A k \in Jobs : Known(k)' => Known(k) \/ (worker[w].pc \in Holding /\ k = worker[w].job)
  PROVE  OnceInv'
<1>1. \A v \in Workers : worker'[v] = IF v = w THEN r ELSE worker[v]
  BY WorkerType DEF MemoryInv
<1>2. \A k \in Jobs : Gone(k) => Gone(k)'
  BY <1>1 DEF Gone
<1> SUFFICES ASSUME NEW j \in Jobs \ raced
             PROVE  /\ calls[j] <= 1
                    /\ calls[j] # 0 => j \in claimed \/ Gone(j)'
                    /\ \A v \in Workers : worker'[v].pc \in Claiming /\ worker'[v].job = j =>
                         j \in claimed
                    /\ \A v \in Workers : worker'[v].pc = "claimed" /\ worker'[v].job = j =>
                         /\ calls[j] = 0
                         /\ \A u \in Workers :
                              worker'[u].pc = "claimed" /\ worker'[u].job = j => u = v
  BY DEF OnceInv
<1> QED
  BY <1>1, <1>2 DEF MemoryInv, OnceInv

LEMMA ListDueStep ==
  ASSUME MemoryInv, NEW w \in Workers, ListDue(w)
  PROVE  MemoryInv'
<1>1. PICK i \in DOMAIN order :
        /\ Step(w, [Idle EXCEPT !.pc = "listed", !.job = order[i]])
        /\ UNCHANGED <<order, table, object, claimed, calls, raced>>
  BY DEF ListDue
<1> DEFINE r == [Idle EXCEPT !.pc = "listed", !.job = order[i]]
<1>2. order[i] \in used /\ order[i] \in Jobs
  BY KnownUsed DEF MemoryInv, ToSet
<1>3. r \in WorkerStates /\ r.pc = "listed" /\ r.job = order[i]
  BY <1>2, IdleType DEF WorkerStates
<1>4. worker' = [worker EXCEPT ![w] = r] /\ UNCHANGED <<now, used, requests, restarts, admin>>
  BY <1>1 DEF Step, counters
<1> HIDE DEF r
<1>5. /\ worker' \in [Workers -> WorkerStates]
      /\ \A v \in Workers : worker'[v] = IF v = w THEN r ELSE worker[v]
  BY <1>3, <1>4, WorkerType DEF MemoryInv
<1>6. TypeOK'
  BY <1>1, <1>4, <1>5 DEF MemoryInv, TypeOK, WorkerStates
<1>7. NeverPublishEarly'
  BY <1>1, <1>3, <1>4, <1>5 DEF MemoryInv, NeverPublishEarly
<1>8. OwnerInv'
  BY <1>1, <1>3, <1>4, <1>5 DEF MemoryInv, OwnerInv, Claiming
<1>9. UsedInv'
  BY <1>1, <1>2, <1>3, <1>4, <1>5 DEF MemoryInv, UsedInv
<1>10. OnceInv'
  <2>1. r.pc \notin Claiming /\ r.pc \notin Holding /\ \A k \in Jobs : Known(k)' = Known(k)
    BY <1>1, <1>3 DEF Claiming, Holding, Known
  <2> QED
    BY <1>1, <1>3, <1>4, <2>1, WorkerOnce
<1> QED
  BY <1>6, <1>7, <1>8, <1>9, <1>10 DEF MemoryInv

LEMMA ClaimCheckStep ==
  ASSUME MemoryInv, NEW w \in Workers, ClaimCheck(w)
  PROVE  MemoryInv'
<1> DEFINE j == worker[w].job
           taken == [pc |-> "checked", job |-> j, owner |-> table[j]]
<1>1. worker[w].pc = "listed" /\ UNCHANGED <<order, table, object, claimed, calls, raced>>
  BY DEF ClaimCheck
<1>2. j \in used /\ j \in Jobs /\ table[j] \in Owners
  BY <1>1 DEF MemoryInv, TypeOK, UsedInv
<1>3. PICK r \in WorkerStates :
        /\ Step(w, r)
        /\ r.pc = "idle" \/ (r.pc = "checked" /\ r.job = j /\ Known(j))
  <2>1. taken \in WorkerStates /\ taken.pc = "checked" /\ taken.job = j
    BY <1>2 DEF WorkerStates
  <2>2. \/ Step(w, taken) /\ Known(j)
        \/ Step(w, Idle)
    BY DEF ClaimCheck
  <2> HIDE DEF taken
  <2> QED
    BY <2>1, <2>2, IdleType
<1>4. worker' = [worker EXCEPT ![w] = r] /\ UNCHANGED <<now, used, requests, restarts, admin>>
  BY <1>3 DEF Step, counters
<1>5. /\ worker' \in [Workers -> WorkerStates]
      /\ \A v \in Workers : worker'[v] = IF v = w THEN r ELSE worker[v]
  BY <1>4, WorkerType DEF MemoryInv
<1>6. TypeOK'
  BY <1>1, <1>4, <1>5 DEF MemoryInv, TypeOK, WorkerStates
<1>7. NeverPublishEarly'
  BY <1>1, <1>3, <1>4, <1>5 DEF MemoryInv, NeverPublishEarly
<1>8. OwnerInv'
  BY <1>1, <1>3, <1>4, <1>5 DEF MemoryInv, OwnerInv, Claiming
<1>9. UsedInv'
  BY <1>1, <1>2, <1>3, <1>4, <1>5 DEF MemoryInv, UsedInv
<1>10. OnceInv'
  <2>1. r.pc \notin Claiming /\ r.pc # "claimed" /\ (r.pc \in Holding => Known(r.job))
    BY <1>3 DEF Claiming, Holding
  <2>2. \A k \in Jobs : Known(k)' = Known(k)
    BY <1>1 DEF Known
  <2> QED
    BY <1>1, <1>4, <2>1, <2>2, WorkerOnce
<1> QED
  BY <1>6, <1>7, <1>8, <1>9, <1>10 DEF MemoryInv

\* The claim: the worker's own object, which nobody else holds, takes the place
\* of the one it found.
LEMMA ClaimTakeStep ==
  ASSUME MemoryInv, NEW w \in Workers, ClaimTake(w)
  PROVE  MemoryInv'
<1> DEFINE j == worker[w].job
           o == worker[w].owner
           run == [object[j][o] EXCEPT !.status = "running"]
           r == [worker[w] EXCEPT !.pc = "claimed", !.owner = w]
<1>1. worker[w] \in WorkerStates /\ worker[w].pc = "checked" /\ o \in Owners /\ w \in Owners
  BY DEF ClaimTake, MemoryInv, TypeOK, WorkerStates, Owners
<1>2. j \in used /\ j \in Jobs
  BY <1>1 DEF MemoryInv, TypeOK, UsedInv
<1>3. /\ claimed' = claimed \cup {j}
      /\ raced' = IF j \in claimed THEN raced \cup {j} ELSE raced
      /\ object' = [object EXCEPT ![j][w] = run]
      /\ Put(j, w)
      /\ worker' = [worker EXCEPT ![w] = r]
      /\ UNCHANGED <<now, used, requests, restarts, admin, calls>>
  BY DEF ClaimTake, Step, counters
<1>4. run \in JobObject /\ run.status = "running"
  <2>1. object[j][o] \in JobObject
    BY <1>1, <1>2 DEF MemoryInv, TypeOK
  <2> QED
    BY <2>1 DEF JobObject
<1>5. r \in WorkerStates /\ r.pc = "claimed" /\ r.owner = w /\ r.job = j
  BY <1>1 DEF WorkerStates
<1> HIDE DEF run, r
<1>6. /\ worker' \in [Workers -> WorkerStates]
      /\ \A v \in Workers : worker'[v] = IF v = w THEN r ELSE worker[v]
  BY <1>3, <1>5, WorkerType DEF MemoryInv
<1>7. /\ object' \in [Jobs -> [Owners -> JobObject]]
      /\ \A k \in Jobs, p \in Owners :
           object'[k][p] = IF k = j /\ p = w THEN run ELSE object[k][p]
  BY <1>1, <1>2, <1>3, <1>4, ObjectType, ZenonT(40) DEF MemoryInv
<1>8. /\ order' \in Seq(used) /\ IsInjective(order')
      /\ table' \in [Jobs -> Owners]
      /\ \A k \in Jobs : table'[k] = IF k = j THEN w ELSE table[k]
      /\ \A k \in Jobs : Known(k)' => Known(k) \/ k = j
  BY <1>1, <1>2, <1>3, PutEffect DEF MemoryInv
<1>9. TypeOK'
  BY <1>2, <1>3, <1>6, <1>7, <1>8 DEF MemoryInv, TypeOK, WorkerStates
<1>10. NeverPublishEarly'
  <2>1. ASSUME NEW v \in Workers, worker'[v].pc = "publishing"
        PROVE  object'[worker'[v].job][worker'[v].owner].publishAt <= now'
    <3>1. v # w /\ worker'[v] = worker[v] /\ worker[v].owner = v
      BY <1>5, <1>6, <2>1 DEF MemoryInv, OwnerInv, Claiming
    <3>2. worker[v].job \in Jobs /\ v \in Owners
      BY DEF MemoryInv, TypeOK, Owners
    <3>3. object'[worker[v].job][v] = object[worker[v].job][v]
      BY <1>7, <3>1, <3>2
    <3> QED
      BY <1>3, <2>1, <3>1, <3>3 DEF MemoryInv, NeverPublishEarly
  <2> QED
    BY <2>1 DEF NeverPublishEarly
<1>11. OwnerInv'
  <2>1. \A k \in Jobs, v \in Workers : table'[k] = v => object'[k][v].status # "queued"
    BY <1>4, <1>7, <1>8 DEF MemoryInv, OwnerInv, Owners
  <2> QED
    BY <1>3, <1>5, <1>6, <2>1 DEF MemoryInv, OwnerInv
<1>12. UsedInv'
  BY <1>2, <1>3, <1>5, <1>6 DEF MemoryInv, UsedInv
<1>13. OnceInv'
  <2>1. \A k \in Jobs : Gone(k) => Gone(k)'
    <3>1. ~Gone(j)
      BY <1>1 DEF Gone, Holding
    <3> QED
      BY <1>3, <1>5, <1>6, <1>8, <3>1 DEF Gone
  <2>2. ASSUME NEW k \in Jobs \ raced'
        PROVE  /\ calls'[k] <= 1
               /\ calls'[k] # 0 => k \in claimed' \/ Gone(k)'
               /\ \A v \in Workers : worker'[v].pc \in Claiming /\ worker'[v].job = k =>
                    k \in claimed'
               /\ \A v \in Workers : worker'[v].pc = "claimed" /\ worker'[v].job = k =>
                    /\ calls'[k] = 0
                    /\ \A u \in Workers :
                         worker'[u].pc = "claimed" /\ worker'[u].job = k => u = v
    <3>1. k \in Jobs \ raced
      BY <1>3
    <3>2. CASE k # j
      BY <1>3, <1>5, <1>6, <2>1, <3>1, <3>2 DEF MemoryInv, OnceInv
    <3>3. CASE k = j
      <4>1. j \notin claimed
        BY <1>3, <3>3
      <4>2. calls[j] = 0
        BY <1>1, <3>1, <3>3, <4>1 DEF MemoryInv, OnceInv, Gone, Holding
      <4>3. \A v \in Workers : worker[v].pc \in Claiming => worker[v].job # j
        BY <3>1, <3>3, <4>1 DEF MemoryInv, OnceInv
      <4> QED
        BY <1>3, <1>5, <1>6, <3>3, <4>2, <4>3 DEF Claiming
    <3> QED
      BY <3>2, <3>3
  <2> QED
    BY <2>2 DEF OnceInv
<1> QED
  BY <1>9, <1>10, <1>11, <1>12, <1>13 DEF MemoryInv

LEMMA BeginStep ==
  ASSUME MemoryInv, NEW w \in Workers, Begin(w)
  PROVE  MemoryInv'
<1> DEFINE j == worker[w].job
           r == [worker[w] EXCEPT !.pc = "publishing"]
<1>1. /\ worker[w].pc = "claimed" /\ worker[w] \in WorkerStates
      /\ UNCHANGED <<order, table, object, claimed, raced>>
  BY DEF Begin, MemoryInv, TypeOK, WorkerStates
<1>2. j \in Jobs /\ j \in used /\ j \in Jobs
  BY <1>1 DEF MemoryInv, UsedInv, WorkerStates
<1>3. CASE object[j][worker[w].owner].publishAt <= now /\ calls' = [calls EXCEPT ![j] = @ + 1]
           /\ Step(w, r)
  <2>1. /\ worker' = [worker EXCEPT ![w] = r]
        /\ UNCHANGED <<now, used, requests, restarts, admin>>
    BY <1>3 DEF Step, counters
  <2>2. /\ r \in WorkerStates /\ r.pc = "publishing" /\ r.job = j
        /\ r.owner = worker[w].owner /\ r.owner = w
    BY <1>1 DEF WorkerStates, MemoryInv, OwnerInv, Claiming
  <2> HIDE DEF r
  <2>3. /\ worker' \in [Workers -> WorkerStates]
        /\ \A v \in Workers : worker'[v] = IF v = w THEN r ELSE worker[v]
    BY <2>1, <2>2, WorkerType DEF MemoryInv
  <2>4. /\ calls' \in [Jobs -> Nat]
        /\ \A k \in Jobs : calls'[k] = IF k = j THEN calls[j] + 1 ELSE calls[k]
    BY <1>2, <1>3 DEF MemoryInv, TypeOK
  <2>5. TypeOK'
    BY <1>1, <2>1, <2>3, <2>4 DEF MemoryInv, TypeOK, WorkerStates
  <2>6. NeverPublishEarly'
    BY <1>1, <1>3, <2>1, <2>2, <2>3 DEF MemoryInv, NeverPublishEarly
  <2>7. OwnerInv'
    BY <1>1, <2>1, <2>2, <2>3 DEF MemoryInv, OwnerInv
  <2>8. UsedInv'
    BY <1>1, <1>2, <2>1, <2>2, <2>3, <2>4 DEF MemoryInv, UsedInv
  <2>9. OnceInv'
    <3>1. \A k \in Jobs : Gone(k) => Gone(k)'
      BY <1>1, <2>1, <2>2, <2>3 DEF Gone, Known, Holding
    <3>2. ASSUME NEW k \in Jobs \ raced
          PROVE  /\ calls'[k] <= 1
                 /\ calls'[k] # 0 => k \in claimed \/ Gone(k)'
                 /\ \A v \in Workers : worker'[v].pc \in Claiming /\ worker'[v].job = k =>
                      k \in claimed
                 /\ \A v \in Workers : worker'[v].pc = "claimed" /\ worker'[v].job = k =>
                      /\ calls'[k] = 0
                      /\ \A u \in Workers :
                           worker'[u].pc = "claimed" /\ worker'[u].job = k => u = v
      <4>1. CASE k # j
        BY <2>2, <2>3, <2>4, <3>1, <4>1 DEF MemoryInv, OnceInv
      <4>2. CASE k = j
        <5>1. calls[j] = 0 /\ j \in claimed
          BY <1>1, <4>2 DEF MemoryInv, OnceInv, Claiming
        <5>2. \A v \in Workers : worker[v].pc = "claimed" /\ worker[v].job = j => v = w
          BY <1>1, <4>2 DEF MemoryInv, OnceInv
        <5>3. \A v \in Workers : ~(worker'[v].pc = "claimed" /\ worker'[v].job = j)
          BY <2>2, <2>3, <5>2
        <5>4. calls'[k] = 1
          BY <2>4, <4>2, <5>1
        <5> QED
          BY <4>2, <5>1, <5>3, <5>4
      <4> QED
        BY <4>1, <4>2
    <3> QED
      BY <1>1, <3>2 DEF OnceInv
  <2> QED
    BY <2>5, <2>6, <2>7, <2>8, <2>9 DEF MemoryInv
<1>4. CASE Step(w, Idle) /\ UNCHANGED calls
  <2>1. /\ worker' = [worker EXCEPT ![w] = Idle]
        /\ UNCHANGED <<now, used, requests, restarts, admin>>
    BY <1>4 DEF Step, counters
  <2>2. /\ worker' \in [Workers -> WorkerStates]
        /\ \A v \in Workers : worker'[v] = IF v = w THEN Idle ELSE worker[v]
    BY <2>1, IdleType, WorkerType DEF MemoryInv
  <2>3. TypeOK'
    BY <1>1, <1>4, <2>1, <2>2 DEF MemoryInv, TypeOK, WorkerStates
  <2>4. NeverPublishEarly'
    BY <1>1, <2>1, <2>2, IdleType DEF MemoryInv, NeverPublishEarly
  <2>5. OwnerInv'
    BY <1>1, <2>1, <2>2, IdleType DEF MemoryInv, OwnerInv, Claiming
  <2>6. UsedInv'
    BY <1>1, <1>4, <2>1, <2>2, IdleType DEF MemoryInv, UsedInv
  <2>7. OnceInv'
    <3>1. Idle.pc \notin Claiming /\ Idle.pc \notin Holding /\ Idle.pc # "claimed"
      BY IdleType DEF Claiming, Holding
    <3>2. \A k \in Jobs : Known(k)' = Known(k)
      BY <1>1 DEF Known
    <3> QED
      BY <1>1, <1>4, <2>1, <3>1, <3>2, IdleType, WorkerOnce
  <2> QED
    BY <2>3, <2>4, <2>5, <2>6, <2>7 DEF MemoryInv
<1> QED
  BY <1>3, <1>4 DEF Begin

\* The object a failure leaves.
LEMMA FailedType ==
  ASSUME TypeOK, NEW job \in JobObject
  PROVE  Failed(job) \in JobObject /\ Failed(job).status # "queued"
<1> DEFINE n == job.attempts + 1
           later == [job EXCEPT !.status = "retry_wait", !.attempts = n, !.nextRetry = now + RetryDelay]
           last == [job EXCEPT !.status = "failed", !.attempts = n]
<1>1. n \in Nat /\ now + RetryDelay \in Nat
  BY BoundAssumption DEF JobObject, TypeOK
<1>2. later \in JobObject /\ later.status = "retry_wait"
  BY <1>1 DEF JobObject, Pending
<1>3. last \in JobObject /\ last.status = "failed"
  BY <1>1 DEF JobObject, Pending
<1>4. Failed(job) = later \/ Failed(job) = last
  BY DEF Failed
<1> QED
  BY <1>2, <1>3, <1>4

\* The object a success leaves.
LEMMA SucceededType ==
  ASSUME NEW job \in JobObject
  PROVE  Succeeded(job) \in JobObject /\ Succeeded(job).status # "queued"
<1> DEFINE n == job.attempts + 1
           done == [job EXCEPT !.status = "succeeded", !.attempts = n]
<1>1. n \in Nat
  BY DEF JobObject
<1>2. done \in JobObject /\ done.status = "succeeded"
  BY <1>1 DEF JobObject
<1>3. Succeeded(job) = done
  BY DEF Succeeded, JobObject
<1> QED
  BY <1>2, <1>3

LEMMA ExecuteStep ==
  ASSUME MemoryInv, NEW w \in Workers, Execute(w)
  PROVE  MemoryInv'
<1> DEFINE j == worker[w].job
<1>1. /\ worker[w].pc = "publishing" /\ worker[w].owner = w
      /\ j \in used /\ j \in Jobs /\ w \in Owners
  BY DEF Execute, MemoryInv, OwnerInv, UsedInv, Claiming, TypeOK, Owners
<1>2. /\ Put(j, w)
      /\ worker' = [worker EXCEPT ![w] = Idle]
      /\ UNCHANGED <<claimed, calls, raced, now, used, requests, restarts, admin>>
  BY <1>1 DEF Execute, Step, counters
<1>3. object[j][w] \in JobObject
  BY <1>1 DEF MemoryInv, TypeOK
<1>4. PICK r \in JobObject : r.status # "queued" /\ object' = [object EXCEPT ![j][w] = r]
  <2>1. Succeeded(object[j][w]) \in JobObject /\ Succeeded(object[j][w]).status # "queued"
    BY <1>3, SucceededType
  <2>2. Failed(object[j][w]) \in JobObject /\ Failed(object[j][w]).status # "queued"
    BY <1>3, FailedType DEF MemoryInv
  <2>3. CASE object' = [object EXCEPT ![j][w] = Succeeded(@)]
    <3>1. object' = [object EXCEPT ![j][w] = Succeeded(object[j][w])]
      BY <1>1, <2>3 DEF MemoryInv, TypeOK
    <3> QED
      BY <2>1, <3>1
  <2>4. CASE object' = [object EXCEPT ![j][w] = Failed(@)]
    <3>1. object' = [object EXCEPT ![j][w] = Failed(object[j][w])]
      BY <1>1, <2>4 DEF MemoryInv, TypeOK
    <3> QED
      BY <2>2, <3>1
  <2> QED
    BY <1>1, <2>3, <2>4 DEF Execute
<1>5. /\ worker' \in [Workers -> WorkerStates]
      /\ \A v \in Workers : worker'[v] = IF v = w THEN Idle ELSE worker[v]
  BY <1>2, IdleType, WorkerType DEF MemoryInv
<1>6. /\ object' \in [Jobs -> [Owners -> JobObject]]
      /\ \A k \in Jobs, p \in Owners :
           object'[k][p] = IF k = j /\ p = w THEN r ELSE object[k][p]
  BY <1>1, <1>4, ObjectType, ZenonT(40) DEF MemoryInv
<1>7. /\ order' \in Seq(used) /\ IsInjective(order')
      /\ table' \in [Jobs -> Owners]
      /\ \A k \in Jobs : table'[k] = IF k = j THEN w ELSE table[k]
      /\ \A k \in Jobs : Known(k)' => Known(k) \/ k = j
  BY <1>1, <1>2, PutEffect DEF MemoryInv
<1>8. TypeOK'
  BY <1>2, <1>5, <1>6, <1>7 DEF MemoryInv, TypeOK, WorkerStates
<1>9. NeverPublishEarly'
  <2>1. ASSUME NEW v \in Workers, worker'[v].pc = "publishing"
        PROVE  object'[worker'[v].job][worker'[v].owner].publishAt <= now'
    <3>1. v # w /\ worker'[v] = worker[v] /\ worker[v].owner = v
      BY <1>5, <2>1, IdleType DEF MemoryInv, OwnerInv, Claiming
    <3>2. worker[v].job \in Jobs /\ v \in Owners
      BY DEF MemoryInv, TypeOK, Owners
    <3>3. object'[worker[v].job][v] = object[worker[v].job][v]
      BY <1>6, <3>1, <3>2
    <3> QED
      BY <1>2, <2>1, <3>1, <3>3 DEF MemoryInv, NeverPublishEarly
  <2> QED
    BY <2>1 DEF NeverPublishEarly
<1>10. OwnerInv'
  <2>1. \A k \in Jobs, v \in Workers : table'[k] = v => object'[k][v].status # "queued"
    BY <1>4, <1>6, <1>7 DEF MemoryInv, OwnerInv, Owners
  <2> QED
    BY <1>2, <1>5, <2>1, IdleType DEF MemoryInv, OwnerInv, Claiming
<1>11. UsedInv'
  BY <1>2, <1>5, IdleType DEF MemoryInv, UsedInv
<1>12. OnceInv'
  <2>1. Idle.pc \notin Claiming /\ Idle.pc \notin Holding /\ Idle.pc # "claimed"
    BY IdleType DEF Claiming, Holding
  <2>2. worker[w].pc \in Holding
    BY <1>1 DEF Holding
  <2> QED
    BY <1>2, <1>7, <2>1, <2>2, IdleType, WorkerOnce
<1> QED
  BY <1>8, <1>9, <1>10, <1>11, <1>12 DEF MemoryInv

-----------------------------------------------------------------------------

\* A restart empties the dict and the set of claims: every job is gone.
LEMMA RestartStep ==
  ASSUME MemoryInv, Restart
  PROVE  MemoryInv'
<1>1. /\ restarts < MaxRestarts /\ restarts' = restarts + 1
      /\ order' = <<>> /\ claimed' = {}
      /\ admin' = [a \in Admins |-> NoRequest] /\ worker' = [w \in Workers |-> Idle]
      /\ UNCHANGED <<now, table, object, used, requests, calls, raced>>
  BY DEF Restart
<1>2. TypeOK'
  <2>1. restarts' \in 0..MaxRestarts
    BY <1>1, BoundAssumption DEF MemoryInv, TypeOK
  <2>2. order' \in Seq(used) /\ IsInjective(order')
    BY <1>1, EmptySeq DEF IsInjective
  <2>3. admin' \in [Admins -> Requests] /\ worker' \in [Workers -> WorkerStates]
    BY <1>1, NoRequestType, IdleType
  <2> QED
    BY <1>1, <2>1, <2>2, <2>3 DEF MemoryInv, TypeOK, Requests, RequestKinds, WorkerStates
<1>3. NeverPublishEarly'
  BY <1>1, IdleType DEF NeverPublishEarly
<1>4. OwnerInv'
  BY <1>1, NoRequestType, IdleType DEF MemoryInv, OwnerInv, Claiming
<1>5. UsedInv'
  BY <1>1, NoRequestType, IdleType DEF MemoryInv, UsedInv
<1>6. \A j \in Jobs : Gone(j)'
  BY <1>1, NoRequestType, IdleType DEF Gone, Holding, Known, ToSet
<1>7. OnceInv'
  BY <1>1, <1>6, IdleType DEF MemoryInv, OnceInv, Claiming
<1> QED
  BY <1>2, <1>3, <1>4, <1>5, <1>7 DEF MemoryInv

LEMMA TickStep ==
  ASSUME MemoryInv, Tick
  PROVE  MemoryInv'
<1>1. /\ now < MaxTime /\ now' = now + 1
      /\ UNCHANGED <<order, table, object, claimed, used, requests, restarts, admin, worker,
                     calls, raced>>
  BY DEF Tick, counters
<1>2. TypeOK'
  <2>1. now' \in 0..MaxTime
    BY <1>1, BoundAssumption DEF MemoryInv, TypeOK
  <2> QED
    BY <1>1, <2>1 DEF MemoryInv, TypeOK
<1>3. NeverPublishEarly'
  <2>1. ASSUME NEW w \in Workers, worker[w].pc = "publishing"
        PROVE  object[worker[w].job][worker[w].owner].publishAt <= now + 1
    <3>1. object[worker[w].job][worker[w].owner].publishAt \in Nat /\ now \in Nat
      BY BoundAssumption DEF MemoryInv, TypeOK, JobObject
    <3>2. object[worker[w].job][worker[w].owner].publishAt <= now
      BY <2>1 DEF MemoryInv, NeverPublishEarly
    <3> QED
      BY <3>1, <3>2
  <2> QED
    BY <1>1, <2>1 DEF NeverPublishEarly
<1>4. OwnerInv'
  BY <1>1 DEF MemoryInv, OwnerInv
<1>5. UsedInv'
  BY <1>1 DEF MemoryInv, UsedInv
<1>6. \A j \in used : Gone(j) => Gone(j)'
  BY <1>1 DEF Gone, Known
<1>7. OnceInv'
  BY <1>1, <1>6, RequestOnce
<1> QED
  BY <1>2, <1>3, <1>4, <1>5, <1>7 DEF MemoryInv

LEMMA MemoryInitial == Init => MemoryInv
<1> SUFFICES ASSUME Init
             PROVE  MemoryInv
  OBVIOUS
<1>1. TypeOK
  <2>1. NewJob(SomeContent, 0) \in JobObject
    BY SetAssumption, NewJobType DEF SomeContent
  <2>2. object \in [Jobs -> [Owners -> JobObject]]
    BY <2>1 DEF Init
  <2>3. order \in Seq(used) /\ IsInjective(order)
    BY EmptySeq DEF Init, IsInjective
  <2>4. admin \in [Admins -> Requests] /\ worker \in [Workers -> WorkerStates]
    BY NoRequestType, IdleType DEF Init
  <2>5. table \in [Jobs -> Owners] /\ calls \in [Jobs -> Nat]
    BY DEF Init, Owners
  <2> QED
    BY <2>2, <2>3, <2>4, <2>5, BoundAssumption
    DEF Init, TypeOK, Requests, RequestKinds, WorkerStates
<1>2. NeverPublishEarly
  BY IdleType DEF Init, NeverPublishEarly
<1>3. OwnerInv
  BY NoRequestType, IdleType, SetAssumption DEF Init, OwnerInv, Claiming
<1>4. UsedInv
  BY NoRequestType, IdleType DEF Init, UsedInv
<1>5. OnceInv
  BY IdleType DEF Init, OnceInv, Claiming
<1> QED
  BY <1>1, <1>2, <1>3, <1>4, <1>5 DEF MemoryInv

LEMMA MemoryStep ==
  ASSUME MemoryInv, [Next]_vars
  PROVE  MemoryInv'
<1>1. CASE \E a \in Admins : AdminNext(a)
  BY <1>1, ScheduleCheckStep, RequestSaveStep, UnscheduleCheckStep, UnscheduleDeleteStep,
     RescheduleCheckStep, RescheduleMutateStep DEF AdminNext
<1>2. CASE \E w \in Workers : WorkerNext(w)
  BY <1>2, ListDueStep, ClaimCheckStep, ClaimTakeStep, BeginStep, ExecuteStep DEF WorkerNext
<1>3. CASE Restart
  BY <1>3, RestartStep
<1>4. CASE Tick
  BY <1>4, TickStep
<1>5. CASE UNCHANGED vars
  <2>1. UNCHANGED <<now, order, table, object, claimed, used, requests, restarts, admin,
                    worker, calls, raced>>
    BY <1>5 DEF vars, counters
  <2>2. \A j \in used : Gone(j) => Gone(j)'
    BY <2>1 DEF Gone, Known
  <2>3. OnceInv'
    BY <2>1, <2>2, RequestOnce
  <2> QED
    BY <2>1, <2>3 DEF MemoryInv, TypeOK, NeverPublishEarly, OwnerInv, UsedInv
<1> QED
  BY <1>1, <1>2, <1>3, <1>4, <1>5 DEF Next

LEMMA MemoryInvHolds == Spec => []MemoryInv
<1>1. Init => MemoryInv
  BY MemoryInitial
<1>2. MemoryInv /\ [Next]_vars => MemoryInv'
  BY MemoryStep
<1> QED
  BY <1>1, <1>2, PTL DEF Spec

\* R3 for the table in memory, whatever the numbers of requests, workers and
\* restarts: a worker never publishes the object of a job that is not due.
THEOREM MemoryDueTheorem == Spec => []NeverPublishEarly
<1>1. MemoryInv => NeverPublishEarly
  BY DEF MemoryInv
<1> QED
  BY <1>1, MemoryInvHolds, PTL

\* The table keeps its types, and the publisher is called once for a job, unless
\* two workers were between the test of claimed_jobs and the addition to it.
THEOREM MemoryTableTheorem == Spec => []TableSound
<1>1. MemoryInv => TableSound
  BY DEF MemoryInv, OnceInv, TableSound, CalledOnce
<1> QED
  BY <1>1, MemoryInvHolds, PTL
=============================================================================
