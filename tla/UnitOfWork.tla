------------------------------ MODULE UnitOfWork ------------------------------
(***************************************************************************)
(* The unit of work and its repositories (SQLiteUnitOfWork and the         *)
(* repositories of src/src/adapters/sqlite_db.py, behind UnitOfWorkPort of *)
(* src/src/core/ports/db.py).                                              *)
(*                                                                         *)
(* A repository made by a unit inside its `with` block works on the unit's *)
(* connection and leaves the commit to it; any other opens a connection    *)
(* for each call.  The first statement that writes opens a transaction and *)
(* takes the write lock of the database (sqlite3, external).               *)
(***************************************************************************)
EXTENDS Integers, Sequences

CONSTANTS Units,        \* threads, each with a unit of work
          CallsUsed,    \* the calls they make
          MaxCalls      \* bound: calls made in all; a save is known by its number

VARIABLES disk,      \* the database, as a connection without a transaction reads it
          work,      \* ... as the connection with the write lock reads it
          lock,      \* the connection that has the write lock, or NoLock
          unit,      \* the units
          promised,  \* history: the database the completed units were to leave
          callsMade, \* history: calls made
          spoiled    \* history: a caller caught an error half way through a save and went
                     \* on, or used a repository inside that was made outside

unitVars == <<disk, work, lock, unit, promised, callsMade, spoiled>>

-----------------------------------------------------------------------------
(* The database: one row of each table, two versions of one asset; a row is *)
(* the number of the save it came from, 0 when there is none.  `parts`: the *)
(* blocks of the item, the roles of the user.                               *)

Versions == {"v1", "v2"}
PartKeys == {"item", "user"}
Keys == {"settings", "item", "user", "asset", "redirect", "event"} \union Versions
Repos == {"settings", "content", "users", "assets", "redirects", "audit_log",
          "asset_versions"}

Empty == [row |-> [k \in Keys |-> 0], parts |-> [k \in PartKeys |-> 0], latest |-> {}]

(* What a statement does. *)

Do(what, key, n) == [what |-> what, key |-> key, n |-> n]

\* An INSERT whose key is taken raises.
Refused(db, s) == s.what \in {"insert", "insert_latest"} /\ db.row[s.key] # 0

Performed(db, s) ==
  CASE s.what \in {"put", "insert"} -> [db EXCEPT !.row[s.key] = s.n]
    [] s.what = "insert_latest" -> [db EXCEPT !.row[s.key] = s.n, !.latest = @ \union {s.key}]
    [] s.what = "remove" -> [db EXCEPT !.row[s.key] = 0,
                                       !.parts = [k \in PartKeys |-> IF k = s.key THEN 0 ELSE @[k]]]
    [] s.what = "clear_parts" -> [db EXCEPT !.parts[s.key] = 0]
    [] s.what = "add_parts" -> [db EXCEPT !.parts[s.key] = s.n]
    [] s.what = "clear_latest" -> [db EXCEPT !.latest = {}]
    [] s.what = "mark_latest" ->
         [db EXCEPT !.latest = @ \union {v \in Versions : v = s.key /\ db.row[v] # 0}]

\* The database after the statements of a list, one after the other.
Result(db, list) ==
  LET at[n \in 0..Len(list)] == IF n = 0 THEN db ELSE Performed(at[n - 1], list[n])
  IN at[Len(list)]

-----------------------------------------------------------------------------
(* The calls of the repositories, as their statements; n numbers a save. *)

SaveSettings(n) == <<Do("put", "settings", n)>>

SaveContent(n) ==
  <<Do("put", "item", n), Do("clear_parts", "item", n), Do("add_parts", "item", n)>>

\* The blocks go by their foreign key.
DeleteContent(n) == <<Do("remove", "item", n)>>

SaveAsset(n) == <<Do("put", "asset", n)>>

DeleteAsset(n) == <<Do("remove", "asset", n)>>

SaveUser(n) ==
  <<Do("put", "user", n), Do("clear_parts", "user", n), Do("add_parts", "user", n)>>

SaveRedirect(n) == <<Do("put", "redirect", n)>>

DeleteRedirect(n) == <<Do("remove", "redirect", n)>>

\* append: an event is never written over.
AppendEvent(n) == <<Do("insert", "event", n)>>

\* save of a version, which is never written over; it comes as the latest (run_upload).
SaveVersion(v, n) == <<Do("insert_latest", v, n)>>

SetLatest(v, n) == <<Do("clear_latest", v, n), Do("mark_latest", v, n)>>

\* A call c: the repository, which of its calls, and for a version which one.
CallsThere ==
  [repo : {"settings", "content", "users", "assets", "redirects"}, of : {"save"}, at : {"none"}]
    \union [repo : {"content", "assets", "redirects"}, of : {"delete"}, at : {"none"}]
    \union [repo : {"audit_log"}, of : {"append"}, at : {"none"}]
    \union [repo : {"asset_versions"}, of : {"save", "set_latest"}, at : Versions]

ASSUME UnitAssumption == CallsUsed \subseteq CallsThere /\ MaxCalls \in Nat

Statements(c, n) ==
  CASE c.of = "append" -> AppendEvent(n)
    [] c.of = "set_latest" -> SetLatest(c.at, n)
    [] c.of = "delete" -> (CASE c.repo = "content" -> DeleteContent(n)
                             [] c.repo = "assets" -> DeleteAsset(n)
                             [] c.repo = "redirects" -> DeleteRedirect(n))
    [] c.of = "save" -> (CASE c.repo = "settings" -> SaveSettings(n)
                           [] c.repo = "content" -> SaveContent(n)
                           [] c.repo = "assets" -> SaveAsset(n)
                           [] c.repo = "users" -> SaveUser(n)
                           [] c.repo = "redirects" -> SaveRedirect(n)
                           [] c.repo = "asset_versions" -> SaveVersion(c.at, n))

-----------------------------------------------------------------------------
(* Units and connections. *)

NoLock == <<"none">>
NoReading == [at |-> "none"]

NewUnit == [inside |-> FALSE, bound |-> [r \in Repos |-> "none"], on |-> "own",
            call |-> <<>>, todo |-> <<>>, raised |-> FALSE, done |-> <<>>, view |-> NoReading]

UnitsInit ==
  /\ disk = Empty /\ work = Empty /\ lock = NoLock /\ promised = Empty
  /\ unit = [u \in Units |-> NewUnit]
  /\ callsMade = 0 /\ spoiled = FALSE

\* The properties of the unit: a repository is made at its first use, with the connection
\* the unit has then, and kept.
Bound(u, r) == IF unit[u].bound[r] # "none" THEN unit[u].bound[r]
               ELSE IF unit[u].inside THEN "unit" ELSE "own"

\* _get_conn: the unit's connection, or one of the call's own.
Connection(u) == <<u, unit[u].on>>

ClosesAlways(u) == TRUE   \* Mutant: a repository commits on the unit's connection, too.
\* _should_close.
ShouldClose(u) == unit[u].on = "own"

\* The database as connection c reads it.
Seen(c) == IF lock = c THEN work ELSE disk

\* A commit on connection c.  Who is half way through reading has read an older row.
CommitOn(c, us) ==
  IF lock = c
  THEN /\ disk' = work /\ lock' = NoLock
       /\ unit' = [v \in Units |-> IF us[v].view.at = "row" THEN [us[v] EXCEPT !.view.at = "crossed"]
                                   ELSE us[v]]
  ELSE unit' = us /\ UNCHANGED <<disk, lock>>

\* The transaction of connection c, if it has one, is undone.
Undo(c) == IF lock = c THEN lock' = NoLock /\ work' = disk ELSE UNCHANGED <<work, lock>>

Idle(u) == unit[u].call = <<>> /\ unit[u].view.at \notin {"row", "crossed"}

\* SQLiteUnitOfWork(path), or a repository by itself.
New(u) ==
  /\ Idle(u) /\ ~unit[u].inside /\ unit[u] # NewUnit
  /\ unit' = [unit EXCEPT ![u] = NewUnit]
  /\ UNCHANGED <<disk, work, lock, promised, callsMade, spoiled>>

\* __enter__.
Enter(u) ==
  /\ Idle(u) /\ ~unit[u].inside
  /\ unit' = [unit EXCEPT ![u].inside = TRUE, ![u].view = NoReading]
  /\ UNCHANGED <<disk, work, lock, promised, callsMade, spoiled>>

\* A call of a repository.
CallRepo(u, c) ==
  /\ Idle(u) /\ callsMade < MaxCalls
  /\ callsMade' = callsMade + 1
  /\ unit' = [unit EXCEPT ![u].bound[c.repo] = Bound(u, c.repo), ![u].on = Bound(u, c.repo),
                          ![u].call = Statements(c, callsMade'), ![u].todo = Statements(c, callsMade'),
                          ![u].view = NoReading]
  /\ UNCHANGED <<disk, work, lock, promised, spoiled>>

\* A statement that writes; it waits for the lock, and on a closed connection there is none.
Perform(u) ==
  LET c == Connection(u)
      s == Head(unit[u].todo)
  IN /\ unit[u].todo # <<>> /\ ~unit[u].raised
     /\ c[2] # "closed" /\ lock \in {NoLock, c} /\ ~Refused(Seen(c), s)
     /\ work' = Performed(Seen(c), s) /\ lock' = c
     /\ unit' = [unit EXCEPT ![u].todo = Tail(@)]
     /\ UNCHANGED <<disk, promised, callsMade, spoiled>>

\* The end of a call, which commits on a connection of its own.
Return(u) ==
  LET us == [unit EXCEPT ![u].call = <<>>,
                         ![u].done = IF unit[u].inside THEN @ \o unit[u].call ELSE @]
  IN /\ unit[u].call # <<>> /\ unit[u].todo = <<>> /\ ~unit[u].raised
     /\ IF ShouldClose(u) THEN CommitOn(Connection(u), us)
                          ELSE unit' = us /\ UNCHANGED <<disk, lock>>
     /\ promised' = IF unit[u].inside THEN promised ELSE Result(promised, unit[u].call)
     /\ spoiled' = (spoiled \/ (unit[u].inside /\ Connection(u)[2] = "own"))
     /\ UNCHANGED <<work, callsMade>>

\* A statement or the commit of a call raises: a constraint, a lock that was not free
\* within the five seconds of sqlite3, a closed connection.
Raise(u) ==
  /\ unit[u].call # <<>> /\ ~unit[u].raised
  /\ IF ShouldClose(u) THEN Undo(Connection(u)) ELSE UNCHANGED <<work, lock>>
  /\ unit' = [unit EXCEPT ![u].raised = unit[u].inside,
                          ![u].call = IF unit[u].inside THEN @ ELSE <<>>,
                          ![u].todo = IF unit[u].inside THEN @ ELSE <<>>]
  /\ UNCHANGED <<disk, promised, callsMade, spoiled>>

\* A caller catches the error inside the block, and goes on.
Catch(u) ==
  /\ unit[u].raised
  /\ unit' = [unit EXCEPT ![u].raised = FALSE, ![u].call = <<>>, ![u].todo = <<>>]
  /\ spoiled' = (spoiled \/ (unit[u].on = "unit" /\ unit[u].todo # unit[u].call))
  /\ UNCHANGED <<disk, work, lock, promised, callsMade>>

\* commit.
Commit(u) ==
  /\ Idle(u) /\ unit[u].inside /\ unit[u].done # <<>>
  /\ CommitOn(<<u, "unit">>, [unit EXCEPT ![u].done = <<>>])
  /\ promised' = Result(promised, unit[u].done)
  /\ UNCHANGED <<work, callsMade, spoiled>>

\* rollback.
Rollback(u) ==
  /\ Idle(u) /\ unit[u].inside /\ unit[u].done # <<>>
  /\ Undo(<<u, "unit">>)
  /\ unit' = [unit EXCEPT ![u].done = <<>>]
  /\ UNCHANGED <<disk, promised, callsMade, spoiled>>

Closed(bound) == [r \in Repos |-> IF bound[r] = "unit" THEN "closed" ELSE bound[r]]

\* __exit__, with an error or without: what was not committed is lost, and the repositories
\* the unit has made keep a closed connection.
Exit(u) ==
  /\ unit[u].inside /\ (Idle(u) \/ unit[u].raised)
  /\ Undo(<<u, "unit">>)
  /\ unit' = [unit EXCEPT ![u].inside = FALSE, ![u].raised = FALSE, ![u].call = <<>>,
                          ![u].todo = <<>>, ![u].done = <<>>, ![u].view = NoReading,
                          ![u].bound = Closed(@)]
  /\ UNCHANGED <<disk, promised, callsMade, spoiled>>

\* get_by_id of the items or the users: the row ...
ReadRow(u, k) ==
  LET r == IF k = "item" THEN "content" ELSE "users"
      c == <<u, Bound(u, r)>>
  IN /\ Idle(u) /\ c[2] # "closed" /\ Seen(c).row[k] # 0
     /\ unit' = [unit EXCEPT ![u].bound[r] = Bound(u, r), ![u].on = Bound(u, r),
                  ![u].view = [at |-> "row", key |-> k, row |-> Seen(c).row[k]]]
     /\ UNCHANGED <<disk, work, lock, promised, callsMade, spoiled>>

\* ... and then, without a transaction unless the unit has written, what belongs to it.
ReadParts(u) ==
  LET view == unit[u].view
  IN /\ view.at \in {"row", "crossed"}
     /\ unit' = [unit EXCEPT ![u].view =
          [at |-> IF view.at = "crossed" \/ Seen(Connection(u)).parts[view.key] = view.row
                  THEN "none" ELSE "torn"]]
     /\ UNCHANGED <<disk, work, lock, promised, callsMade, spoiled>>

UnitsNext ==
  \E u \in Units :
    \/ New(u) \/ Enter(u) \/ Perform(u) \/ Return(u) \/ Raise(u) \/ Catch(u)
    \/ Commit(u) \/ Rollback(u) \/ Exit(u) \/ ReadParts(u)
    \/ \E c \in CallsUsed : CallRepo(u, c)
    \/ \E k \in PartKeys : ReadRow(u, k)

-----------------------------------------------------------------------------
(* Properties. *)

\* Every variable has its type.
UnitsTypeOK ==
  /\ {disk, work, promised} \subseteq
       [row : [Keys -> 0..MaxCalls], parts : [PartKeys -> 0..MaxCalls],
        latest : SUBSET Versions]
  /\ lock \in {NoLock} \union (Units \X {"unit", "own"})
  /\ callsMade \in 0..MaxCalls /\ spoiled \in BOOLEAN
  /\ \A u \in Units :
       /\ {unit[u].inside, unit[u].raised} \subseteq BOOLEAN
       /\ unit[u].on \in {"own", "unit", "closed"}
       /\ \A r \in Repos : unit[u].bound[r] \in {"none", "own", "unit", "closed"}

\* TA-0103: the database is what the committed units and the calls made outside a unit did,
\* each as a whole and one after the other in the order of their commits, whatever was
\* refused, raised or left without a commit, unless a caller caught an error half way
\* through a save, or used inside a block a repository the unit had made outside; and an
\* item or user is read with the parts of its own row unless another commit fell between
\* the two queries, which inside a unit that has written none can.
UnitsWhole ==
  ~spoiled =>
    /\ disk = promised
    /\ \A u \in Units : unit[u].view.at # "torn"
=============================================================================
