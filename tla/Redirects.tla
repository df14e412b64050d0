------------------------------ MODULE Redirects ------------------------------
(***************************************************************************)
(* The URL redirects (components/redirects/_impl.py, RedirectService) over  *)
(* the redirects table (adapters/sqlite/repos.py, SQLiteRedirectRepo).      *)
(*                                                                         *)
(* Creation and update validate against the table on connections of their  *)
(* own and save in a later step; the table has no unique constraint, so    *)
(* what was validated may no longer hold at the save.  A path stands for    *)
(* all its spellings: normalize_path maps them to one on every way in.      *)
(***************************************************************************)
EXTENDS Naturals, Sequences, FiniteSetsExt

CONSTANTS Editors,        \* number of concurrent administration requests
          Paths,         \* the normalised internal paths
          MaxChain,      \* RedirectConfig.max_chain_length (3)
          MaxRows,       \* bound: redirects ever created
          MaxSaves       \* bound: writes to the table

NoPath == "none"
Fields == {"source", "target", "enabled"}  \* what an update request may name

ASSUME RedirectAssumption ==
    /\ MaxChain \in Nat \ {0}
    /\ Editors \in Nat /\ MaxRows \in Nat /\ MaxSaves \in Nat
    /\ NoPath \notin Paths

VARIABLES table,         \* the rows in rowid order, as a full scan meets them
          edits,         \* each admin's validated row that is not saved yet
          made,          \* ids handed out
          saves,         \* writes so far
          overtaken,     \* history: a row was saved after the table changed
          moved          \* history: a source was changed without its target

redirectVars == <<table, edits, made, saves, overtaken, moved>>

Redirect == [id : 1..MaxRows, source : Paths, target : Paths, enabled : BOOLEAN]
NoEdit   == [row |-> <<>>, fresh |-> TRUE, checked |-> TRUE]

(* get_by_source, get_by_id: of the rows, the first of the scan.           *)
BySource(p) == {k \in DOMAIN table : table[k].source = p}
ById(i)     == {k \in DOMAIN table : table[k].id = i}
First(rows) == table[Min(rows)]

-----------------------------------------------------------------------------
(* Where a chain of at most k lookups from p has got after each of them.   *)
Hop(p) == IF BySource(p) = {} THEN NoPath ELSE First(BySource(p)).target
Trail(p, k) ==
    LET at[n \in 0..k] == IF n = 0 THEN p
                          ELSE IF at[n - 1] = NoPath THEN NoPath
                          ELSE Hop(at[n - 1])
    IN at

(* Mutant: only a redirect to itself is a loop.                           *)
DetectSelfLoop(s, g) == s = g

(* detect_loop: the walk is cut off after max_chain_length + 1 paths.      *)
DetectLoop(s, g) ==
    \/ s = g
    \/ LET at == Trail(g, MaxChain)
       IN \E n \in 0..MaxChain :
             /\ at[n] # NoPath
             /\ at[n] \in {s} \union {at[i] : i \in 0..(n - 1)}

(* validate_chain_length counts what lies beyond the target, and the new   *)
(* redirect: not what leads to its source.                                 *)
ChainTooLong(g) == Trail(g, MaxChain)[MaxChain] # NoPath

(* resolve: only enabled redirects, at most max_chain_length of them.      *)
LiveHop(p) ==
    IF BySource(p) = {} \/ ~First(BySource(p)).enabled THEN NoPath
    ELSE First(BySource(p)).target
Resolve(p) ==
    LET at[n \in 0..MaxChain] == IF n = 0 THEN p
                                 ELSE IF at[n - 1] = NoPath THEN NoPath
                                 ELSE LiveHop(at[n - 1])
        hops == {n \in 1..MaxChain : at[n] # NoPath}
    IN IF hops = {} THEN NoPath ELSE at[CHOOSE n \in hops : \A m \in hops : m <= n]

(* validate_all: the redirects an administrator is told about.             *)
ValidateAll == {i \in 1..Len(table) : DetectLoop(table[i].source, table[i].target)}

-----------------------------------------------------------------------------
RedirectInit ==
    /\ table = <<>>
    /\ edits = [a \in 1..Editors |-> NoEdit]
    /\ made = 0 /\ saves = 0
    /\ overtaken = FALSE /\ moved = FALSE

(* A request is served by the first thread that is free; MaxSaves bounds    *)
(* the requests that will write.                                           *)
Busy == {a \in 1..Editors : edits[a] # NoEdit}
Free(a) == /\ a \notin Busy /\ 1..(a - 1) \subseteq Busy
           /\ saves + Cardinality(Busy) < MaxSaves

(* create, up to the save; the shell builds the service without a route    *)
(* checker, so validate_collision has nothing to say.                      *)
CreateRedirect(a, s, g) ==
    /\ BySource(s) = {}
    /\ Free(a) /\ made < MaxRows
    /\ ~DetectLoop(s, g) /\ ~ChainTooLong(g)
    /\ made' = made + 1
    /\ edits' = [edits EXCEPT ![a] =
          [row |-> [id |-> made + 1, source |-> s, target |-> g, enabled |-> TRUE],
           fresh |-> TRUE, checked |-> TRUE]]
    /\ UNCHANGED <<table, saves, overtaken, moved>>

(* update, up to the save: the source is looked up only when it is in the  *)
(* request, loop and length only when the target is.                       *)
TakenByOther(s, i) == BySource(s) # {} /\ First(BySource(s)).id # i
UpdateRedirect(a, i, fields, source, target) ==
    /\ Free(a) /\ ById(i) # {} /\ fields # {}
    /\ LET row == First(ById(i))
           s == IF "source" \in fields THEN source ELSE row.source
           g == IF "target" \in fields THEN target ELSE row.target
           on == IF "enabled" \in fields THEN ~row.enabled ELSE row.enabled
       IN /\ "source" \in fields => ~TakenByOther(s, i)
          /\ "target" \in fields => ~DetectLoop(s, g) /\ ~ChainTooLong(g)
          /\ edits' = [edits EXCEPT ![a] =
                [row |-> [id |-> i, source |-> s, target |-> g, enabled |-> on],
                 fresh |-> TRUE,
                 checked |-> "source" \in fields => "target" \in fields]]
    /\ UNCHANGED <<table, made, saves, overtaken, moved>>

(* Every other admin's validation is now of an older table.                *)
Stale(a) == [b \in 1..Editors |->
    IF b = a \/ edits[b] = NoEdit THEN NoEdit ELSE [edits[b] EXCEPT !.fresh = FALSE]]

(* save: INSERT ... ON CONFLICT(id) DO UPDATE, which brings back a row that *)
(* was deleted since it was read.                                          *)
SaveRedirect(a) ==
    /\ edits[a] # NoEdit
    /\ LET row == edits[a].row IN
       table' = IF ById(row.id) = {} THEN Append(table, row)
                ELSE [k \in 1..Len(table) |->
                        IF table[k].id = row.id THEN row ELSE table[k]]
    /\ edits' = Stale(a)
    /\ overtaken' = (overtaken \/ ~edits[a].fresh)
    /\ moved' = (moved \/ ~edits[a].checked)
    /\ saves' = saves + 1
    /\ UNCHANGED made

DeleteRedirect(a, i) ==
    /\ Free(a)
    /\ \E k \in ById(i) : table' = SubSeq(table, 1, k - 1) \o SubSeq(table, k + 1, Len(table))
    /\ edits' = Stale(a)
    /\ saves' = saves + 1
    /\ UNCHANGED <<made, overtaken, moved>>

RedirectNext ==
    \E a \in 1..Editors :
        \/ \E s, g \in Paths : CreateRedirect(a, s, g)
        \/ \E i \in 1..MaxRows, fields \in SUBSET Fields, s, g \in Paths :
              UpdateRedirect(a, i, fields, s, g)
        \/ SaveRedirect(a)
        \/ \E i \in 1..MaxRows : DeleteRedirect(a, i)

RedirectSpec == RedirectInit /\ [][RedirectNext]_redirectVars

-----------------------------------------------------------------------------
RedirectTypeOK ==
    /\ table \in Seq(Redirect)
    /\ edits \in [1..Editors -> [row : Redirect \union {<<>>}, fresh : BOOLEAN,
                             checked : BOOLEAN]]
    /\ made \in 0..MaxRows /\ saves \in 0..MaxSaves
    /\ overtaken \in BOOLEAN /\ moved \in BOOLEAN

(* A visitor who asks for p and follows every answer ends at a page.       *)
Lands(p) ==
    LET at[n \in 0..(MaxRows + 1)] == IF n = 0 THEN p
                                      ELSE IF at[n - 1] = NoPath THEN NoPath
                                      ELSE Resolve(at[n - 1])
    IN at[MaxRows + 1] = NoPath

(* As long as every save was validated against the table it met, and no    *)
(* source was changed alone, no visitor is sent round in a circle: the     *)
(* loop walk is cut off at max_chain_length + 1 paths, and it is the       *)
(* length check that rules out the loops it cannot see.                    *)
VisitorLands == ~overtaken /\ ~moved => \A p \in Paths : Lands(p)

(* As long as no save was overtaken, a source path has one redirect,       *)
(* though the table has no unique constraint.                              *)
OneRedirectPerSource ==
    ~overtaken => \A i, j \in 1..Len(table) :
                    table[i].source = table[j].source => i = j

(* However it came about, a circle of at most max_chain_length + 1         *)
(* redirects is on the list /redirects/validate gives the administrator.   *)
AuditFindsLoops ==
    \A i \in 1..Len(table) :
        /\ First(BySource(table[i].source)) = table[i]
        /\ \E n \in 1..(MaxChain + 1) :
              Trail(table[i].source, MaxChain + 1)[n] = table[i].source
        => i \in ValidateAll

(* The contract's I2, "No circular redirects", with one request at a time. *)
NoCircularRedirects == \A p \in Paths : Lands(p)

\* As far as the checks reach: visitors arrive, a path has one redirect, and the
\* administrator is told of the circles there are.
RedirectsSafe == VisitorLands /\ OneRedirectPerSource /\ AuditFindsLoops

=============================================================================
