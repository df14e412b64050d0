------------------------------- MODULE Audit -------------------------------
(***************************************************************************)
(* The audit log: the hooks of src/src/shell/hooks/audit_hooks.py, the     *)
(* service and repository of src/src/components/audit/_impl.py, and the    *)
(* pages and the summary of src/src/api/routes/admin_audit.py.             *)
(*                                                                         *)
(* An entry has its time before it is in the log, and a page or a summary  *)
(* is made by several queries between which the log grows.                 *)
(***************************************************************************)
EXTENDS Integers, FiniteSets

CONSTANTS
  Loggers,     \* threads that call a hook
  HooksUsed,   \* the hooks called, each by the action and the type it logs
  PageLimit,   \* limit of a query
  MaxEntries   \* bound on the entries

\* What the hooks log, AuditAction and EntityType of each.
ContentHooks == {"create", "update", "delete", "publish", "unpublish"} \X {"content"}
AssetHooks == {"create", "update", "delete"} \X {"asset"}
ScheduleHooks == {"schedule", "update", "unschedule", "publish"} \X {"schedule"}
RedirectHooks == {"create", "update", "delete", "enable", "disable"} \X {"redirect"}
SettingsHooks == {<<"update", "settings">>}
HookCalls == ContentHooks \cup AssetHooks \cup ScheduleHooks \cup RedirectHooks \cup SettingsHooks

ASSUME AuditAssumption ==
  HooksUsed \subseteq HookCalls /\ HooksUsed # {} /\ PageLimit \in Nat \ {0} /\ MaxEntries \in Nat

VARIABLES
  log,      \* the entries; order is the place in the dictionary
  latest,   \* the time
  unsaved,  \* per thread, an entry that is not in the log yet
  walk,     \* the reader, turning the pages of the log
  summary   \* the reader, asking for a summary

auditVars == <<log, latest, unsaved, walk, summary>>

NoEntry == [stamp |-> -1, hook |-> <<"none", "none">>]
NoWalk == [on |-> FALSE, type |-> "any", offset |-> 0, seen |-> {}, first |-> {}, total |-> 0]
NoSummary == [at |-> "none", todo |-> {}, start |-> 0, action |-> 0, type |-> 0, total |-> 0]

AuditInit ==
  /\ log = {}
  /\ latest = 0
  /\ unsaved = [t \in Loggers |-> NoEntry]
  /\ walk = NoWalk
  /\ summary = NoSummary

-----------------------------------------------------------------------------
(* Writing. *)

Writing == {t \in Loggers : unsaved[t] # NoEntry}

\* log of the hooks and of the service up to the save; time may have passed.
LogAction(t) ==
  /\ t \notin Writing
  /\ Cardinality(log) + Cardinality(Writing) < MaxEntries
  /\ latest' \in {latest, latest + 1}
  /\ \E h \in HooksUsed : unsaved' = [unsaved EXCEPT ![t] = [stamp |-> latest', hook |-> h]]
  /\ UNCHANGED <<log, walk, summary>>

SaveEntry(t) ==
  /\ t \in Writing
  /\ log' = log \cup {[stamp |-> unsaved[t].stamp, hook |-> unsaved[t].hook, order |-> Cardinality(log) + 1]}
  /\ unsaved' = [unsaved EXCEPT ![t] = NoEntry]
  /\ UNCHANGED <<latest, walk, summary>>

-----------------------------------------------------------------------------
(* Queries. *)

OfType(type) == {e \in log : type \in {"any", e.hook[2]}}

\* The order of query: newest first, and equal times in the order they were saved.
Before(e, f) == e.stamp > f.stamp \/ (e.stamp = f.stamp /\ e.order < f.order)

\* Mutant: the offset is taken for the place of the last entry shown.
PageAfter(set, offset) ==
  {e \in set : Cardinality({f \in set : Before(f, e)}) \in (offset + 1)..(offset + PageLimit)}

\* query: the entries from offset on, at most PageLimit of them.
Page(set, offset) ==
  {e \in set : Cardinality({f \in set : Before(f, e)}) \in offset..(offset + PageLimit - 1)}

\* query_audit_logs, again and again, a page further on each time; the query
\* here, and the count that goes with it below.
TurnPage ==
  \E type \in {"any", "content"} :
    LET page == Page(OfType(type), walk.offset) IN
    /\ walk.total = 0 /\ summary.at = "none"
    /\ walk.on => walk.type = type
    /\ walk' = [on |-> TRUE, type |-> type, offset |-> walk.offset + PageLimit, total |-> 1,
                seen |-> walk.seen \cup page, first |-> IF walk.on THEN walk.first ELSE OfType(type)]
    /\ UNCHANGED <<log, latest, unsaved, summary>>

\* The count; the reader goes on while there is more to come.
CountPage ==
  /\ walk.total = 1
  /\ walk' = IF walk.offset < Cardinality(OfType(walk.type)) THEN [walk EXCEPT !.total = 0] ELSE NoWalk
  /\ UNCHANGED <<log, latest, unsaved, summary>>

-----------------------------------------------------------------------------
(* get_audit_summary: a count for every action, then for every type, then for all. *)

Counted(part) ==
  Cardinality({e \in log : /\ e.stamp >= summary.start
                           /\ part \in {<<"action", e.hook[1]>>, <<"type", e.hook[2]>>, <<"total", "all">>}})

Parts(kind) == IF kind = "total" THEN {<<"total", "all">>}
               ELSE {<<kind, h[IF kind = "action" THEN 1 ELSE 2]>> : h \in HooksUsed}

BeginSummary ==
  /\ summary.at = "none" /\ ~walk.on
  /\ \E start \in 0..latest :
       summary' = [NoSummary EXCEPT !.at = "action", !.todo = Parts("action"), !.start = start]
  /\ UNCHANGED <<log, latest, unsaved, walk>>

After == [action |-> "type", type |-> "total", total |-> "done"]

\* One count; the next group begins when the group is through.
CountOne ==
  /\ summary.at \in DOMAIN After
  /\ LET part == CHOOSE part \in summary.todo : TRUE
         todo == summary.todo \ {part}
         next == After[summary.at] IN
     summary' = [summary EXCEPT ![summary.at] = @ + Counted(part),
                   !.at = IF todo # {} THEN @ ELSE next,
                   !.todo = IF todo # {} \/ next = "done" THEN todo ELSE Parts(next)]
  /\ UNCHANGED <<log, latest, unsaved, walk>>

ShowSummary ==
  /\ summary.at = "done"
  /\ summary' = NoSummary
  /\ UNCHANGED <<log, latest, unsaved, walk>>

AuditNext ==
  \/ \E t \in Loggers : LogAction(t) \/ SaveEntry(t)
  \/ TurnPage \/ CountPage \/ BeginSummary \/ CountOne \/ ShowSummary

AuditSpec == AuditInit /\ [][AuditNext]_auditVars

-----------------------------------------------------------------------------
(* Properties. *)

AuditTypeOK ==
  /\ log \subseteq [stamp: 0..MaxEntries, hook: HookCalls, order: 1..MaxEntries]
  /\ latest \in 0..MaxEntries
  /\ \A t \in Loggers : unsaved[t] = NoEntry \/ unsaved[t].hook \in HookCalls
  /\ walk.seen \subseteq log /\ walk.first \subseteq log
  /\ summary.at \in {"none", "done"} \cup DOMAIN After

\* A reader who turns the pages to the end has seen every entry that was in the log at
\* the first page, whatever was logged meanwhile and however late an entry was saved;
\* the parts of a summary never add up to more than a part counted later.
AuditComplete ==
  /\ walk.total = 1 /\ walk.offset >= Cardinality(OfType(walk.type)) => walk.first \subseteq walk.seen
  /\ summary.at = "done" => summary.action <= summary.type /\ summary.type <= summary.total
=============================================================================
