----------------------------- MODULE Aggregates -----------------------------
(***************************************************************************)
(* Counting events in time buckets (AggregateService.record of             *)
(* src/src/core/services/analytics_aggregate.py) over either repository:   *)
(* InMemoryAggregateRepo, whose threads share two dictionaries, and        *)
(* SQLiteAnalyticsAggregateRepo (src/src/adapters/sqlite_db.py), whose     *)
(* table has no unique constraint.                                         *)
(*                                                                         *)
(* One kind of event at one page: other dimensions are other buckets.      *)
(***************************************************************************)
EXTENDS Integers, FiniteSetsExt

CONSTANTS
  Recorders,   \* threads that record an event each
  BucketTypes, \* names of the bucket types
  Width,       \* length of a bucket of each type, in minutes
  MaxMinute,   \* timestamps are 0..MaxMinute
  MaxBucket,   \* bound on the number of buckets
  MaxRecords   \* bound on the number of events

ASSUME AggregateAssumption ==
  /\ IsFiniteSet(Recorders)
  /\ "none" \notin BucketTypes /\ Width \in [BucketTypes -> Nat \ {0}]
  /\ MaxMinute \in Nat /\ MaxBucket \in Nat \ {0} /\ MaxRecords \in Nat

Minutes == 0..MaxMinute
BucketIds == 1..MaxBucket

VARIABLES
  store,     \* "memory" or "sql": the repository in use
  buckets,   \* the buckets by id; type "none" where there is none
  index,     \* InMemoryAggregateRepo._index: the bucket of a type and a start
  task,      \* what every thread has still to do
  recorded   \* history: per minute, how many events of each class were begun

countVars == <<store, buckets, index, task, recorded>>

-----------------------------------------------------------------------------

Classes == {"bot", "real", "unknown"}
Bucket == [type: BucketTypes \cup {"none"}, start: Minutes, total: Nat, real: Nat, bot: Nat]
NoBucket == [type |-> "none", start |-> 0, total |-> 0, real |-> 0, bot |-> 0]

\* todo: the bucket types still to be counted; id and copy: the bucket at hand.
Task == [step: {"idle", "get", "create", "enter", "add", "put"}, todo: SUBSET BucketTypes,
         class: Classes, minute: Minutes, id: 0..MaxBucket, copy: Bucket]
NoTask == [step |-> "idle", todo |-> {}, class |-> "bot", minute |-> 0, id |-> 0, copy |-> NoBucket]

\* calculate_bucket_start.
BucketStart(minute, type) == minute - (minute % Width[type])

\* The type in hand: the types are counted in a fixed order.
TypeOf(r) == CHOOSE t \in task[r].todo : TRUE
StartOf(r) == BucketStart(task[r].minute, TypeOf(r))

\* The increments of record: treat_unknown_as_real is set.
Counted(bucket, class) ==
  [bucket EXCEPT !.total = @ + 1, !.real = IF class = "bot" THEN @ ELSE @ + 1,
                 !.bot = IF class = "bot" THEN @ + 1 ELSE @]

AddUp(f, set) == MapThenSumSet(LAMBDA x : f[x], set)

\* The events begun in a range.
Begun(start, end, classes) ==
  AddUp([m \in Minutes |-> AddUp(recorded[m], classes)], {m \in Minutes : start <= m /\ m < end})

CountInit ==
  /\ store \in {"memory", "sql"}
  /\ buckets = [b \in BucketIds |-> NoBucket]
  /\ index = [t \in BucketTypes |-> [m \in Minutes |-> 0]]
  /\ task = [r \in Recorders |-> NoTask]
  /\ recorded = [m \in Minutes |-> [c \in Classes |-> 0]]

-----------------------------------------------------------------------------

Do(r, new) == task' = [task EXCEPT ![r] = new]

\* The bucket in hand is counted: the next type, or the end.
NextType(r) ==
  LET todo == task[r].todo \ {TypeOf(r)} IN
  Do(r, IF todo = {} THEN NoTask
        ELSE [task[r] EXCEPT !.step = "get", !.todo = todo, !.id = 0, !.copy = NoBucket])

\* record is called with a validated event.
Record(r) ==
  \E m \in Minutes, c \in Classes :
    /\ task[r].step = "idle"
    /\ Begun(0, MaxMinute + 1, Classes) < MaxRecords
    /\ recorded' = [recorded EXCEPT ![m][c] = @ + 1]
    /\ Do(r, [NoTask EXCEPT !.step = "get", !.todo = BucketTypes, !.class = c, !.minute = m])
    /\ UNCHANGED <<store, buckets, index>>

\* get_or_create_bucket of the dictionaries: the look-up in the index.
GetMemory(r) ==
  LET id == index[TypeOf(r)][StartOf(r)] IN
  /\ store = "memory" /\ task[r].step = "get"
  /\ Do(r, [task[r] EXCEPT !.id = id, !.step = IF id = 0 THEN "create" ELSE "add"])
  /\ UNCHANGED <<store, buckets, index, recorded>>

\* get_or_create_bucket of the table: whichever row the SELECT returns first.
GetSql(r) ==
  LET rows == {b \in BucketIds : buckets[b].type = TypeOf(r) /\ buckets[b].start = StartOf(r)} IN
  /\ store = "sql" /\ task[r].step = "get"
  /\ \/ \E b \in rows : Do(r, [task[r] EXCEPT !.id = b, !.step = "add"])
     \/ rows = {} /\ Do(r, [task[r] EXCEPT !.step = "create"])
  /\ UNCHANGED <<store, buckets, index, recorded>>

\* The new bucket is put into _buckets, or inserted.
CreateBucket(r) ==
  \E b \in BucketIds :
    /\ task[r].step = "create"
    /\ buckets[b].type = "none" /\ \A a \in 1..(b - 1) : buckets[a].type # "none"
    /\ buckets' = [buckets EXCEPT ![b] = [NoBucket EXCEPT !.type = TypeOf(r), !.start = StartOf(r)]]
    /\ Do(r, [task[r] EXCEPT !.id = b, !.step = IF store = "sql" THEN "add" ELSE "enter"])
    /\ UNCHANGED <<store, index, recorded>>

\* ... and into _index, over the bucket another thread has put there meanwhile.
EnterIndex(r) ==
  /\ task[r].step = "enter"
  /\ index' = [index EXCEPT ![TypeOf(r)][StartOf(r)] = task[r].id]
  /\ Do(r, [task[r] EXCEPT !.step = "add"])
  /\ UNCHANGED <<store, buckets, recorded>>

\* increment of the dictionary: a new object is built from the old one ...
ReadBucket(r) ==
  /\ store = "memory" /\ task[r].step = "add"
  /\ Do(r, [task[r] EXCEPT !.copy = Counted(buckets[task[r].id], task[r].class), !.step = "put"])
  /\ UNCHANGED <<store, buckets, index, recorded>>

\* ... and replaces it.
PutBucket(r) ==
  /\ task[r].step = "put"
  /\ buckets' = [buckets EXCEPT ![task[r].id] = task[r].copy]
  /\ NextType(r)
  /\ UNCHANGED <<store, index, recorded>>

\* Mutant: the table's counts are read and written back like the dictionary's.
IncrementStale(r) ==
  /\ store = "sql" /\ task[r].step = "add"
  /\ Do(r, [task[r] EXCEPT !.copy = Counted(buckets[task[r].id], task[r].class), !.step = "put"])
  /\ UNCHANGED <<store, buckets, index, recorded>>

\* increment of the table: one UPDATE that adds.
IncrementSql(r) ==
  /\ store = "sql" /\ task[r].step = "add"
  /\ buckets' = [buckets EXCEPT ![task[r].id] = Counted(@, task[r].class)]
  /\ NextType(r)
  /\ UNCHANGED <<store, index, recorded>>

CountNext ==
  \E r \in Recorders :
    \/ Record(r) \/ GetMemory(r) \/ GetSql(r) \/ CreateBucket(r) \/ EnterIndex(r)
    \/ ReadBucket(r) \/ PutBucket(r) \/ IncrementSql(r)

CountSpec == CountInit /\ [][CountNext]_countVars

-----------------------------------------------------------------------------
(* Queries. *)

\* query.
InRange(bucket, type, start, end) ==
  bucket.type = type /\ start <= bucket.start /\ bucket.start < end

\* get_totals.
Totals(type, start, end, field) ==
  AddUp([b \in BucketIds |-> buckets[b][field]],
        {b \in BucketIds : InRange(buckets[b], type, start, end)})

-----------------------------------------------------------------------------
(* Properties. *)

\* Every variable has its type.
CountTypeOK ==
  /\ store \in {"memory", "sql"}
  /\ buckets \in [BucketIds -> Bucket]
  /\ index \in [BucketTypes -> [Minutes -> 0..MaxBucket]]
  /\ task \in [Recorders -> Task]
  /\ recorded \in [Minutes -> [Classes -> Nat]]

\* Whether a range starts and ends with a bucket of the type.
Aligned(type, start, end) == start % Width[type] = 0 /\ end % Width[type] = 0

\* For every type of bucket and range of whole buckets the totals never exceed the events
\* recorded, and over the table, which may hold a bucket twice, they are exact when no
\* event is being counted: TA-0041.
TotalsHonest ==
  \A type \in BucketTypes, start \in Minutes, end \in 0..(MaxMinute + 1) :
    start < end /\ Aligned(type, start, end) =>
      LET real == Totals(type, start, end, "real")
          bot == Totals(type, start, end, "bot") IN
      /\ real <= Begun(start, end, {"real", "unknown"})
      /\ bot <= Begun(start, end, {"bot"})
      /\ Totals(type, start, end, "total") = real + bot
      /\ store = "sql" /\ (\A r \in Recorders : task[r].step = "idle") =>
           real + bot = Begun(start, end, Classes)

=============================================================================
