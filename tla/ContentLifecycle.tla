-------------------------- MODULE ContentLifecycle --------------------------
(***************************************************************************)
(* Content items: the content component                                    *)
(* (src/src/components/content/component.py), the publish component        *)
(* (src/src/components/publish/component.py) with the status machine of    *)
(* src/src/domain/state.py, and the table both write                       *)
(* (SQLiteContentRepo, src/src/adapters/sqlite/repos.py).                  *)
(*                                                                         *)
(* An operation reads an item, checks and changes its copy, and writes the *)
(* whole copy back.  Requests and the job that publishes what is due are   *)
(* processes; any of them may write between another one's read and write.  *)
(***************************************************************************)
EXTENDS Integers, FiniteSets

CONSTANTS
  N,            \* items are 1..N, numbered in the order of their creation
  Slugs,        \* slugs
  Types,        \* content types
  Requests,     \* threads that serve a request
  DueJob,       \* the process that runs run_process_due
  MaxTime,      \* bound on the clock
  MaxRequests,  \* bound on the number of requests other than creations
  Grace,        \* grace_seconds of _validate_publish_at, in ticks
  ListLimit     \* the limit in list_items

ASSUME ItemAssumption == N \in Nat \ {0} /\ Slugs # {} /\ Types # {}
ASSUME ProcessAssumption == DueJob \notin Requests
ASSUME BoundAssumption ==
  /\ MaxTime \in Nat \ {0} /\ MaxRequests \in Nat /\ Grace \in Nat
  /\ ListLimit \in Nat \ {0}

Items == 1..N
Processes == Requests \cup {DueJob}

VARIABLES
  now,       \* the clock
  items,     \* the content_items table; status "absent" when there is no row
  created,   \* number of ids handed out
  requests,  \* number of requests begun
  request,   \* what every request is about to write
  due,       \* the items run_process_due has still to publish, and its copies
  outdated   \* history: <<p, i>>, p holds a copy of i that is not the row any more

vars == <<now, items, created, requests, request, due, outdated>>

-----------------------------------------------------------------------------
(* Rows, copies and the two status machines. *)

Status == {"absent", "draft", "scheduled", "published"}

\* publishAt = 0 stands for NULL; dated: published_at IS NOT NULL.
Row == [status: Status, type: Types, slug: Slugs, publishAt: 0..MaxTime, dated: BOOLEAN]

NoRow == [status |-> "absent", type |-> CHOOSE t \in Types : TRUE,
          slug |-> CHOOSE s \in Slugs : TRUE, publishAt |-> 0, dated |-> FALSE]
NoRequest == [op |-> "none", item |-> 1, copy |-> NoRow]

Exists(i) == items[i].status # "absent"
Scheduled == {i \in Items : items[i].status = "scheduled"}
Due(i) == i \in Scheduled /\ items[i].publishAt \in 1..now

\* get_by_slug, which create and update ask before they save.
SlugTaken(s, t, i) == \E k \in Items \ {i} : Exists(k) /\ items[k].slug = s /\ items[k].type = t

\* DEFAULT_TRANSITIONS of the content component.
Transitions == {<<"draft", "scheduled">>, <<"draft", "published">>,
                <<"scheduled", "draft">>, <<"scheduled", "published">>,
                <<"published", "draft">>}

\* Mutant: a published item may go back into the schedule.
CanTransitionLax(from, to) == <<from, to>> \in Transitions \cup {<<"published", "scheduled">>}

CanTransition(from, to) == <<from, to>> \in Transitions

\* run_transition's changes to its copy.
Moved(row, to, at) ==
  CASE to = "scheduled" -> [row EXCEPT !.status = to, !.publishAt = at]
    [] to = "published" -> [row EXCEPT !.status = to, !.publishAt = 0, !.dated = TRUE]
    [] to = "draft"     -> [row EXCEPT !.status = to,
                              !.publishAt = IF row.status = "scheduled" THEN 0 ELSE @]

\* _validate_publish_at.
PublishAtValid(at) == at # 0 /\ at >= now + Grace

\* transition of domain/state.py: a move to the status the item has changes nothing.
DomainCanMove(row, to) ==
  \/ row.status = to
  \/ CanTransition(row.status, to) /\ (to = "scheduled" => row.publishAt > now)

DomainMoved(row, to) ==
  IF row.status = to THEN row ELSE [row EXCEPT !.status = to, !.dated = (to = "published")]

Init ==
  /\ now = 0
  /\ items = [i \in Items |-> NoRow]
  /\ created = 0
  /\ requests = 0
  /\ request = [r \in Requests |-> NoRequest]
  /\ due = [todo |-> {}, copy |-> [i \in Items |-> NoRow]]
  /\ outdated = {}

-----------------------------------------------------------------------------
(* The table. *)

Holds(p, i) ==
  IF p = DueJob THEN i \in due.todo ELSE request[p].op # "none" /\ request[p].item = i

\* Process p writes or deletes item i: every other copy of it is out of date.
Outdate(p, i) ==
  outdated' = {e \in outdated : e # <<p, i>>}
                \cup {<<q, i>> : q \in {q \in Processes \ {p} : Holds(q, i)}}

\* The UNIQUE constraint on slug, which knows nothing of types.
Collides(i, row) == \E k \in Items \ {i} : Exists(k) /\ items[k].slug = row.slug

\* save: an upsert of the whole row, which raises when the slug is another item's.
Save(p, i, row) ==
  IF Collides(i, row)
  THEN items' = items /\ outdated' = outdated \ {<<p, i>>}
  ELSE items' = [items EXCEPT ![i] = row] /\ Outdate(p, i)

-----------------------------------------------------------------------------
(* Requests: read and check, then write. *)

Read(r, op, i, copy) ==
  /\ request[r].op = "none"
  /\ request' = [request EXCEPT ![r] = [op |-> op, item |-> i, copy |-> copy]]
  /\ UNCHANGED <<now, items, due, outdated>>

ReadItem(r, op, i, copy) ==
  /\ Exists(i)
  /\ requests < MaxRequests
  /\ requests' = requests + 1
  /\ Read(r, op, i, copy)
  /\ UNCHANGED created

\* run_create.
Create(r) ==
  \E t \in Types, s \in Slugs :
    LET i == created + 1 IN
    /\ i \in Items
    /\ ~SlugTaken(s, t, i)
    /\ created' = i
    /\ Read(r, "save", i, [NoRow EXCEPT !.status = "draft", !.type = t, !.slug = s])
    /\ UNCHANGED requests

\* run_update: the fields of a request are set one by one; a status is dropped,
\* a publish time, even none, is not.
Update(r) ==
  \E i \in Items, s \in Slugs, at \in 0..MaxTime :
    /\ s # items[i].slug => ~SlugTaken(s, items[i].type, i)
    /\ ReadItem(r, "save", i, [items[i] EXCEPT !.slug = s, !.publishAt = at])

\* run_transition.
Transition(r) ==
  \E i \in Items, to \in Status, at \in 0..MaxTime :
    /\ CanTransition(items[i].status, to)
    /\ to = "scheduled" => PublishAtValid(at)
    /\ ReadItem(r, "save", i, Moved(items[i], to, at))

\* run_publish_now, and ContentPublisher.publish for a scheduled job.
PublishNow(r) ==
  \E i \in Items :
    /\ DomainCanMove(items[i], "published")
    /\ ReadItem(r, "save", i, DomainMoved(items[i], "published"))

\* run_schedule: the time is set before the transition looks at it.
Schedule(r) ==
  \E i \in Items, at \in 0..MaxTime :
    LET row == [items[i] EXCEPT !.publishAt = at] IN
    /\ at > now
    /\ DomainCanMove(row, "scheduled")
    /\ ReadItem(r, "save", i, DomainMoved(row, "scheduled"))

\* run_unpublish.
Unpublish(r) ==
  \E i \in Items :
    /\ DomainCanMove(items[i], "draft")
    /\ ReadItem(r, "save", i, DomainMoved(items[i], "draft"))

\* run_delete up to the deletion: a published item is refused.
DeleteCheck(r) ==
  \E i \in Items : items[i].status # "published" /\ ReadItem(r, "delete", i, items[i])

\* The write of every operation but delete.
SaveCopy(r) ==
  /\ request[r].op = "save"
  /\ Save(r, request[r].item, request[r].copy)
  /\ request' = [request EXCEPT ![r] = NoRequest]
  /\ UNCHANGED <<now, created, requests, due>>

\* repo.delete, whatever the item's status is by now.
DeleteRow(r) ==
  /\ request[r].op = "delete"
  /\ items' = [items EXCEPT ![request[r].item] = NoRow]
  /\ Outdate(r, request[r].item)
  /\ request' = [request EXCEPT ![r] = NoRequest]
  /\ UNCHANGED <<now, created, requests, due>>

-----------------------------------------------------------------------------
(* run_process_due: one listing, then the items one by one. *)

\* Mutant: the listing stops one item short of its limit.
ListedShort == {i \in Scheduled : Cardinality({k \in Scheduled : k > i}) < ListLimit - 1}

\* list_items: the newest items come first, and the rest is not listed.
Listed == {i \in Scheduled : Cardinality({k \in Scheduled : k > i}) < ListLimit}

\* The instant is taken before the listing, so which of the copies are due is
\* settled with it; the others are skipped.
ListDue ==
  LET todo == {i \in Listed : Due(i)} IN
  /\ due.todo = {} /\ todo # {}
  /\ due' = [todo |-> todo, copy |-> [i \in Items |-> IF i \in todo THEN items[i] ELSE NoRow]]
  /\ UNCHANGED <<now, items, created, requests, request, outdated>>

\* One item of the loop; an exception of save ends the loop.
PublishDue ==
  \E i \in due.todo :
    /\ \A k \in due.todo : k <= i
    /\ \/ /\ ~Collides(i, due.copy[i])
          /\ Save(DueJob, i, DomainMoved(due.copy[i], "published"))
          /\ due' = [todo |-> due.todo \ {i}, copy |-> [due.copy EXCEPT ![i] = NoRow]]
       \/ /\ Collides(i, due.copy[i])
          /\ due' = [todo |-> {}, copy |-> [k \in Items |-> NoRow]]
          /\ outdated' = {e \in outdated : e[1] # DueJob}
          /\ UNCHANGED items
    /\ UNCHANGED <<now, created, requests, request>>

Tick ==
  /\ now < MaxTime
  /\ now' = now + 1
  /\ UNCHANGED <<items, created, requests, request, due, outdated>>

RequestNext(r) ==
  \/ Create(r) \/ Update(r) \/ Transition(r) \/ PublishNow(r) \/ Schedule(r)
  \/ Unpublish(r) \/ DeleteCheck(r) \/ SaveCopy(r) \/ DeleteRow(r)

Next == (\E r \in Requests : RequestNext(r)) \/ ListDue \/ PublishDue \/ Tick

Spec == Init /\ [][Next]_vars

\* Someone keeps calling run_process_due, and the clock goes on.  A request may
\* stop between its read and its write.
FairSpec == Spec /\ WF_vars(ListDue) /\ WF_vars(PublishDue) /\ WF_vars(Tick)

-----------------------------------------------------------------------------
(* Properties. *)

\* Every variable has its type.
TypeOK ==
  /\ now \in 0..MaxTime
  /\ items \in [Items -> Row]
  /\ created \in 0..N
  /\ requests \in 0..MaxRequests
  /\ request \in [Requests -> [op: {"none", "save", "delete"}, item: Items, copy: Row]]
  /\ due \in [todo: SUBSET Items, copy: [Items -> Row]]
  /\ outdated \subseteq Processes \X Items

\* A write of i that was made from a copy of an older row.
StaleWrite(i) == \E p \in Processes : <<p, i>> \in outdated \ outdated'

\* I2 and I3 of the content component: an item appears as a draft, moves along
\* the status machine and is deleted only when it is not published, unless the
\* operation writes from a copy that another operation has made out of date.
LegalMoves ==
  [][\A i \in Items :
       LET from == items[i].status  to == items'[i].status IN
       \/ from = to
       \/ <<from, to>> \in Transitions
       \/ from = "absent" /\ to = "draft"
       \/ from \in {"draft", "scheduled"} /\ to = "absent"
       \/ StaleWrite(i)]_vars

\* G3: run_process_due publishes an item only when it is scheduled and its time has
\* come, unless the item was changed after the listing.
PublishedOnTime ==
  [][\A i \in due.todo : i \notin due'.todo => Due(i) \/ StaleWrite(i)]_vars

\* A due item is published, unscheduled or deleted, or stands behind more
\* scheduled items than one listing returns.
DuePublished ==
  \A i \in Items : Due(i) ~> (~Due(i) \/ Cardinality(Scheduled) > ListLimit)

\* The status of an item moves as the components promise: along the status machine, and
\* by itself only when its time has come.
StatusSafe == LegalMoves /\ PublishedOnTime

=============================================================================
