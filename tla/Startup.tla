------------------------------ MODULE Startup ------------------------------
(***************************************************************************)
(* From an empty disk to a server with an owner: init_db and main of       *)
(* src/src/ui/main.py, the migrator (src/src/adapters/sqlite/migrator.py)  *)
(* and the bootstrap component (src/src/components/bootstrap).             *)
(*                                                                         *)
(* A script is run statement by statement, each its own transaction; a     *)
(* process may stop between any two, and main runs for every page that is  *)
(* opened, beside itself and beside the migrator.                          *)
(***************************************************************************)
EXTENDS Naturals, Sequences

CONSTANTS
  Starters,   \* processes
  Scripts,    \* the files of migrations in order, statement by statement
  MaxStarts   \* bound on the starts

\* A statement that may run again, IF NOT EXISTS, or one that may not, ADD COLUMN.
ASSUME StartupAssumption ==
  /\ Scripts \in Seq(Seq({"again", "once"})) /\ Len(Scripts) >= 1
  /\ \A f \in DOMAIN Scripts : Len(Scripts[f]) >= 1
  /\ Len(Scripts[1]) >= 2 /\ \A k \in DOMAIN Scripts[1] : Scripts[1][k] = "again"
  /\ MaxStarts \in Nat

VARIABLES
  made,       \* the statements whose effect the database has, <<file, place>>
  migrated,   \* the table _migrations
  owners,     \* the users
  starter,    \* per process: what it does, and the next statement and the files after it
  starts,     \* starts so far
  shaken      \* history: a start was cut off in a script or met another one at work

startVars == <<made, migrated, owners, starter, starts, shaken>>

Files == DOMAIN Scripts
StatementsOf(f) == {<<f, k>> : k \in DOMAIN Scripts[f]}
UsersTables == {<<1, 1>>, <<1, 2>>}
Off == [at |-> "off", file |-> 1, next |-> 1, todo |-> {}]
Working(s) == starter[s].at \notin {"off", "up", "failed"}

StartupInit ==
  /\ made = {}
  /\ migrated = {}
  /\ owners = 0
  /\ starter = [s \in Starters |-> Off]
  /\ starts = 0
  /\ shaken = FALSE

Become(s, state) == starter' = [starter EXCEPT ![s] = state]
Reach(s, at) == Become(s, [starter[s] EXCEPT !.at = at])

Started(s) ==
  /\ starter[s].at \in {"off", "failed"}
  /\ starts < MaxStarts
  /\ starts' = starts + 1
  /\ shaken' = (shaken \/ \E o \in Starters : Working(o))
  /\ UNCHANGED <<made, migrated, owners>>

-----------------------------------------------------------------------------
(* Scripts. *)

\* init_db: the first file, unless its first table is there.
InitDb(s) ==
  /\ Started(s)
  /\ Become(s, [Off EXCEPT !.at = IF <<1, 1>> \in made THEN "boot" ELSE "init"])

\* The first of some files, to be run, or nothing left to do.
Script(todo) ==
  IF todo = {} THEN [Off EXCEPT !.at = "up"]
  ELSE LET f == CHOOSE f \in todo : \A g \in todo : f <= g IN
       [at |-> "script", file |-> f, next |-> 1, todo |-> todo \ {f}]

\* run_migrations up to the first file: what was applied is read once.
RunMigrations(s) == Started(s) /\ Become(s, Script(Files \ migrated))

\* executescript, one statement; one that may not run again raises.
Execute(s) ==
  LET here == <<starter[s].file, starter[s].next>>
      at == starter[s].at
      after == IF starter[s].next # Len(Scripts[starter[s].file]) THEN at
               ELSE IF at = "init" THEN "boot" ELSE "record" IN
  /\ at \in {"init", "script"}
  /\ IF here \in made /\ Scripts[here[1]][here[2]] = "once"
     THEN Reach(s, "failed") /\ UNCHANGED made
     ELSE /\ made' = made \cup {here}
          /\ Become(s, [starter[s] EXCEPT !.next = @ + 1, !.at = after])
  /\ UNCHANGED <<migrated, owners, starts, shaken>>

\* Mutant: a file is recorded with the ones behind it.
RecordAll(s) ==
  /\ starter[s].at = "record"
  /\ migrated' = migrated \cup {starter[s].file} \cup starter[s].todo
  /\ Become(s, Script({}))
  /\ UNCHANGED <<made, owners, starts, shaken>>

\* The INSERT into _migrations, whose filename is UNIQUE, and the next file.
Record(s) ==
  /\ starter[s].at = "record"
  /\ IF starter[s].file \in migrated
     THEN Reach(s, "failed") /\ UNCHANGED migrated
     ELSE /\ migrated' = migrated \cup {starter[s].file}
          /\ Become(s, Script(starter[s].todo))
  /\ UNCHANGED <<made, owners, starts, shaken>>

-----------------------------------------------------------------------------
(* run_bootstrap. *)

\* list_all reads the users and their roles; the rules and the environment give leave
\* to create an owner, or do not.
Bootstrap(s) ==
  /\ starter[s].at = "boot"
  /\ IF UsersTables \subseteq made
     THEN \E leave \in BOOLEAN : Reach(s, IF owners = 0 /\ leave THEN "create" ELSE "up")
     ELSE Reach(s, "failed")
  /\ UNCHANGED <<made, migrated, owners, starts, shaken>>

\* The save of the owner: one transaction, and the address is UNIQUE.
CreateOwner(s) ==
  /\ starter[s].at = "create"
  /\ IF owners > 0
     THEN Reach(s, "failed") /\ UNCHANGED owners
     ELSE owners' = owners + 1 /\ Reach(s, "up")
  /\ UNCHANGED <<made, migrated, starts, shaken>>

\* The process stops.
Stop(s) ==
  /\ starter[s].at \notin {"off", "failed"}
  /\ Become(s, Off)
  /\ shaken' = (shaken \/ starter[s].at \in {"init", "script", "record"})
  /\ UNCHANGED <<made, migrated, owners, starts>>

StartupNext ==
  \E s \in Starters :
    \/ InitDb(s) \/ RunMigrations(s) \/ Execute(s) \/ Record(s)
    \/ Bootstrap(s) \/ CreateOwner(s) \/ Stop(s)

StartupSpec == StartupInit /\ [][StartupNext]_startVars

-----------------------------------------------------------------------------
(* Properties. *)

StartupTypeOK ==
  /\ made \subseteq UNION {StatementsOf(f) : f \in Files}
  /\ migrated \subseteq Files
  /\ owners \in Nat /\ starts \in 0..MaxStarts
  /\ starter \in [Starters ->
       [at: {"off", "up", "failed", "init", "script", "record", "boot", "create"},
        file: Files, next: Nat \ {0}, todo: SUBSET Files]]
  /\ shaken \in BOOLEAN

\* A migration that is recorded was run to its end and so were the ones before it, and
\* there is one owner at most, whatever stops and whatever runs beside it.  Unless a
\* start was cut off in a script or met another one at work, no start fails, and what
\* the server works with is the whole first schema.
StartHonest ==
  /\ \A f \in migrated : StatementsOf(f) \subseteq made /\ 1..f \subseteq migrated
  /\ owners <= 1
  /\ shaken \/ \A s \in Starters :
       /\ starter[s].at # "failed"
       /\ starter[s].at \in {"boot", "create"} => StatementsOf(1) \subseteq made
=============================================================================
