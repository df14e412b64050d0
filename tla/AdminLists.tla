------------------------------ MODULE AdminLists ------------------------------
(***************************************************************************)
(* The list pages of the admin interface (src/frontend/app/admin: content, *)
(* resources, links, redirects, newsletter, audit, analytics, schedule).   *)
(*                                                                         *)
(* A page keeps what its last requests answered.  It asks again when its    *)
(* filter or offset changes and after each change of its own, never cancels *)
(* a request, and takes the answers in the order they arrive.  The server's *)
(* side of a request is one step: a table of things with a status.          *)
(***************************************************************************)
EXTENDS Integers, Sequences, FiniteSets

CONSTANTS
  ListPages,     \* bound: the pages of a run, among those of AllPages
  PageSize,      \* `limit`
  MaxActs,      \* bound on what the person does
  MaxMishaps     \* bound on the changes others make and the requests that fail

AllPages == {"content", "resources", "links", "redirects", "newsletter", "audit", "analytics", "schedule"}

ASSUME ListAssumption ==
  /\ ListPages \subseteq AllPages /\ PageSize \in Nat \ {0}
  /\ MaxActs \in Nat /\ MaxMishaps \in Nat

VARIABLES
  list,       \* the page this behaviour is about
  things,     \* the server's rows: the status of each, "none" when it is not there
  shows,      \* the state of the page
  asks,       \* its fetches under way, in the order they were begun
  deeds,      \* its changes under way
  acts, mishaps,
  outrun,     \* history: what is shown comes from a fetch a later one has passed
  doubtful,   \* history: the parts others may have changed since their last fetch was begun
  strayed     \* history: the last fetch was begun for a filter or offset left meanwhile

listVars == <<list, things, shows, asks, deeds, acts, mishaps, outrun, doubtful, strayed>>

Things == {1, 2}
Groups == {"a", "b"}     \* statuses, months of the calendar, periods of the figures

-----------------------------------------------------------------------------
(* What the server answers. *)

Matching(filter) == {t \in Things : things[t] # "none" /\ filter \in {"all", things[t]}}

\* Pages that send their filter; those that also send an offset.
Filtered == list \in {"newsletter", "audit", "analytics", "schedule"}
Paged    == list \in {"newsletter", "audit"}

\* The rows of a page, with their statuses, and how many there are in all.
Listing(filter, offset) ==
  LET found == IF Filtered THEN Matching(filter) ELSE Matching("all")
      Rank(t) == Cardinality({u \in found : u < t})
      page == IF Paged THEN {t \in found : Rank(t) \in offset .. offset + PageSize - 1} ELSE found
  IN  [rows |-> [t \in page |-> things[t]], total |-> Cardinality(found)]

\* getStats counts everything, validate looks at every redirect, the engagement figures
\* are those of the period.
Extra(filter) ==
  LET found == IF list = "analytics" THEN Matching(filter) ELSE Matching("all")
  IN  [k \in Groups |-> Cardinality({t \in found : things[t] = k})]

\* What a fetch brings: the parts that are asked for at once, and a part asked for when
\* the one before has answered.
AtOnce == IF list = "newsletter" THEN {"rows", "extra"} ELSE {"rows"}
Later  == IF list = "redirects" THEN {"extra"} ELSE {}
Bare   == [rows |-> [t \in {} |-> "a"], total |-> 0]
NoExtra == [k \in Groups |-> 0]

Fetch(filter, offset, parts) ==
  [filter |-> filter, offset |-> offset, asked |-> parts, got |-> {}, later |-> Later,
   rows |-> Bare, extra |-> NoExtra, failed |-> FALSE, passed |-> {}]

\* setLoading(true): not where the list stays on the screen while it is fetched again.
Spins == list \notin {"content", "resources"}

\* Pages that keep an error; that of the analytics takes the place of the whole page.
KeepsError == list \in {"analytics", "schedule"}

ListInit ==
  /\ list \in ListPages
  /\ things \in [Things -> Groups] /\ things[1] = "a"
  /\ shows = [filter |-> IF list = "analytics" THEN "a" ELSE IF list = "schedule" THEN "b" ELSE "all",
             offset |-> 0, loading |-> TRUE, error |-> FALSE, tab |-> FALSE, dialog |-> 0,
             rows |-> Bare, extra |-> NoExtra]
  /\ asks = <<Fetch(shows.filter, 0, AtOnce)>>
  /\ deeds = <<>>
  /\ acts = 0 /\ mishaps = 0
  /\ outrun = {} /\ doubtful = {} /\ strayed = FALSE

-----------------------------------------------------------------------------
(* The person at the page. *)

Act == /\ acts < MaxActs /\ acts' = acts + 1
       /\ UNCHANGED <<list, things, mishaps, outrun>>

OnScreen == DOMAIN shows.rows.rows

\* The effects of a changed filter, offset or tab: fetchData, fetchEvents, and
\* fetchEngagementData when its tab is open.
Refetch(v, parts) ==
  /\ shows' = [v EXCEPT !.loading = @ \/ (Spins /\ "rows" \in parts), !.error = @ /\ "rows" \notin parts]
  /\ asks' = IF list = "analytics"
             THEN asks \o (IF "rows" \in parts THEN <<Fetch(v.filter, v.offset, {"rows"})>> ELSE <<>>)
                       \o (IF v.tab THEN <<Fetch(v.filter, v.offset, {"extra"})>> ELSE <<>>)
             ELSE Append(asks, Fetch(v.filter, v.offset, parts))
  /\ doubtful' = doubtful \ (IF list = "analytics" /\ v.tab THEN parts \cup {"extra"} ELSE parts)
  /\ strayed' = FALSE

\* The whole analytics page is replaced while it loads.
SetFilter(filter) ==
  /\ Act /\ filter # shows.filter
  /\ list \in {"content", "resources", "analytics"} => ~shows.loading
  /\ list = "analytics" => ~shows.error
  /\ list \notin {"links", "redirects"}
  /\ list \in {"analytics", "schedule"} => filter # "all"
  /\ IF Filtered THEN Refetch([shows EXCEPT !.filter = filter], AtOnce)
     ELSE shows' = [shows EXCEPT !.filter = filter] /\ UNCHANGED <<asks, doubtful, strayed>>
  /\ UNCHANGED deeds

TurnTo(offset) ==
  /\ Act /\ Paged /\ (list = "audit" => ~shows.loading)
  /\ \/ offset = shows.offset + PageSize /\ offset < shows.rows.total
     \/ offset = shows.offset - PageSize /\ offset >= 0
  /\ list = "newsletter" => shows.rows.total > PageSize
  /\ Refetch([shows EXCEPT !.offset = offset], AtOnce)
  /\ UNCHANGED deeds

\* "Refresh" of the newsletter; "Engagement" and "Overview" of the analytics.
Refresh ==
  /\ Act /\ UNCHANGED deeds
  /\ \/ list = "newsletter" /\ Refetch(shows, AtOnce)
     \/ /\ list = "analytics" /\ ~shows.loading /\ ~shows.error
        /\ IF shows.tab THEN shows' = [shows EXCEPT !.tab = FALSE] /\ UNCHANGED <<asks, doubtful, strayed>>
           ELSE Refetch([shows EXCEPT !.tab = TRUE], {})

\* What a page does to its things, and whether it asks first in a dialog it keeps.
Deeds ==
  CASE list = "content" -> {"delete", "publish"}
    [] list \in {"resources", "newsletter"} -> {"delete"}
    [] list \in {"links", "redirects"} -> {"delete", "update", "create"}
    [] OTHER -> {}
Asked(what) == what \in {"update", "create"} \/ list = "newsletter"

\* openDeleteDialog, openEdit, openCreate (-1), and "Cancel" (0).
SetDialog(t) ==
  /\ t # shows.dialog
  /\ \/ t = 0 \/ (shows.dialog = 0 /\ t = -1 /\ "create" \in Deeds)
     \/ shows.dialog = 0 /\ t \in OnScreen /\ ~shows.loading /\ list \in {"newsletter", "links", "redirects"}
  /\ shows' = [shows EXCEPT !.dialog = t]
  /\ UNCHANGED <<list, things, asks, deeds, acts, mishaps, outrun, doubtful, strayed>>

\* The button of the dialog, or of the row and its confirm().  A handler keeps the filter
\* and the offset of the page it was pressed on.  The dialog of the newsletter closes.
Start(what, t) ==
  /\ Act /\ what \in Deeds
  /\ IF Asked(what) THEN t = shows.dialog /\ (t = -1 <=> what = "create") /\ t # 0
     ELSE t \in OnScreen /\ ~shows.loading /\ shows.dialog = 0
  /\ what = "publish" => shows.rows.rows[t] = "a"
  /\ deeds' = Append(deeds, [what |-> what, of |-> t, filter |-> shows.filter,
                             offset |-> shows.offset, state |-> "sent"])
  /\ shows' = [shows EXCEPT !.dialog = IF list = "newsletter" THEN 0 ELSE @]
  /\ UNCHANGED <<asks, doubtful, strayed>>

-----------------------------------------------------------------------------
(* The server, and others who use it. *)

Mishap == mishaps < MaxMishaps /\ mishaps' = mishaps + 1

Elsewhere ==
  /\ Mishap
  /\ \E t \in Things, k \in Groups \cup {"none"} :
       things[t] # k /\ things' = [things EXCEPT ![t] = k]
  /\ doubtful' = {"rows", "extra"}
  /\ UNCHANGED <<list, shows, asks, deeds, acts, outrun, strayed>>

ServeFetch(i) ==
  /\ \E part \in asks[i].asked \ asks[i].got :
       asks' = [asks EXCEPT ![i].got = @ \cup {part},
                  ![i].rows = IF part = "rows" THEN Listing(asks[i].filter, asks[i].offset) ELSE @,
                  ![i].extra = IF part = "extra" THEN Extra(asks[i].filter) ELSE @]
  /\ ~asks[i].failed
  /\ UNCHANGED <<list, things, shows, deeds, acts, mishaps, outrun, doubtful, strayed>>

\* The rows after a deed, and whether it is accepted: a published item is not deleted, a
\* redirect or link may be refused for its address, and publish_now answers 200 whatever
\* it published.
Outcomes(d) ==
  LET there == d.of \in Things /\ things[d.of] # "none" IN
  CASE d.what = "delete" ->
         IF there /\ ~(list = "content" /\ things[d.of] = "b")
         THEN {<<[things EXCEPT ![d.of] = "none"], "done">>} ELSE {<<things, "refused">>}
    [] d.what = "update" ->
         {<<things, "refused">>} \cup
         (IF there THEN {<<[things EXCEPT ![d.of] = k], "done">> : k \in Groups} ELSE {})
    [] d.what = "create" ->
         {<<things, "refused">>} \cup
         {<<[things EXCEPT ![t] = "a"], "done">> : t \in {u \in Things : things[u] = "none"}}
    [] OTHER -> {<<things, "done">>} \cup
         {<<[things EXCEPT ![t] = "b"], "done">> : t \in {u \in Things : things[u] = "a"}}

ServeDeed(i) ==
  /\ deeds[i].state = "sent"
  /\ \E o \in Outcomes(deeds[i]) :
       things' = o[1] /\ deeds' = [deeds EXCEPT ![i].state = o[2]]
  /\ UNCHANGED <<list, shows, asks, acts, mishaps, outrun, doubtful, strayed>>

\* A request or its answer is lost: the page goes on with what it had, which its own
\* change may have made old.
FailFetch(i) ==
  /\ Mishap
  /\ ~asks[i].failed /\ asks' = [asks EXCEPT ![i].failed = TRUE]
  /\ doubtful' = doubtful \cup asks[i].asked \cup asks[i].later
  /\ UNCHANGED <<list, things, shows, deeds, acts, outrun, strayed>>
FailDeed(i) ==
  /\ Mishap
  /\ deeds[i].state # "refused" /\ deeds' = [deeds EXCEPT ![i].state = "refused"]
  /\ doubtful' = {"rows", "extra"}
  /\ UNCHANGED <<list, things, shows, asks, acts, outrun, strayed>>

-----------------------------------------------------------------------------
(* The page takes the answers. *)

Without(s, i) == SubSeq(s, 1, i - 1) \o SubSeq(s, i + 1, Len(s))

\* The fetches begun before the i-th learn that it has shown its answer.
Pass(s, i, parts) == [k \in DOMAIN s |-> IF k < i THEN [s[k] EXCEPT !.passed = @ \cup parts] ELSE s[k]]

\* A fetch of the redirects goes on, when its list is shown, to ask for the validation.
Take(i) ==
  LET a == asks[i]
      ends == a.failed \/ a.later = {}
  IN
  /\ a.failed \/ a.got = a.asked
  /\ shows' = [shows EXCEPT !.rows = IF ~a.failed /\ "rows" \in a.got THEN a.rows ELSE @,
                !.extra = IF ~a.failed /\ "extra" \in a.got THEN a.extra ELSE @,
                !.loading = @ /\ ~(ends /\ ("rows" \in a.asked \/ list = "redirects")),
                !.error = @ \/ (KeepsError /\ a.failed /\ "rows" \in a.asked)]
  /\ asks' = LET s == IF a.failed THEN asks ELSE Pass(asks, i, a.got)
             IN  IF ends THEN Without(s, i)
                 ELSE [s EXCEPT ![i].asked = a.later, ![i].got = {}, ![i].later = {}]
  /\ outrun' = IF a.failed THEN outrun ELSE (outrun \ a.got) \cup (a.passed \cap a.got)
  /\ doubtful' = IF a.failed THEN doubtful \cup a.asked ELSE doubtful
  /\ UNCHANGED <<list, things, deeds, acts, mishaps, strayed>>

\* Mutant: the list is not fetched again.
LearnSilently(i) ==
  /\ deeds[i].state # "sent"
  /\ shows' = [shows EXCEPT !.dialog = IF deeds[i].state = "done" /\ Asked(deeds[i].what) THEN 0 ELSE @]
  /\ deeds' = Without(deeds, i)
  /\ UNCHANGED <<list, things, asks, acts, mishaps, outrun, doubtful, strayed>>

\* The answer to a change: the dialog that is open then is closed, and the list fetched
\* for the filter and offset the handler was pressed with.
Learn(i) ==
  /\ deeds[i].state # "sent"
  /\ deeds' = Without(deeds, i)
  /\ IF deeds[i].state = "refused" THEN UNCHANGED <<shows, asks, doubtful, strayed>>
     ELSE LET d == deeds[i] IN
          /\ asks' = Append(asks, Fetch(d.filter, d.offset, AtOnce))
          /\ shows' = [shows EXCEPT !.loading = @ \/ Spins, !.dialog = IF Asked(d.what) THEN 0 ELSE @]
          /\ doubtful' = doubtful \ (AtOnce \cup Later)
          /\ strayed' = (Filtered /\ <<d.filter, d.offset>> # <<shows.filter, shows.offset>>)
  /\ UNCHANGED <<list, things, acts, mishaps, outrun>>

ListNext ==
  \/ \E f \in Groups \cup {"all"} : SetFilter(f)
  \/ \E o \in 0 .. 1 : TurnTo(o * PageSize)
  \/ Refresh
  \/ \E t \in Things \cup {-1, 0} : SetDialog(t) \/ \E what \in {"delete", "update", "create", "publish"} : Start(what, t)
  \/ Elsewhere
  \/ \E i \in DOMAIN asks : ServeFetch(i) \/ FailFetch(i) \/ Take(i)
  \/ \E i \in DOMAIN deeds : ServeDeed(i) \/ FailDeed(i) \/ Learn(i)

ListSpec == ListInit /\ [][ListNext]_listVars

-----------------------------------------------------------------------------
(* Properties. *)

ListTypeOK ==
  /\ list \in ListPages /\ things \in [Things -> Groups \cup {"none"}]
  /\ shows.offset \in Nat /\ shows.dialog \in Things \cup {0, -1}
  /\ outrun \cup doubtful \subseteq {"rows", "extra"} /\ strayed \in BOOLEAN

\* The rows on the screen: two pages filter what they hold.
Displayed ==
  IF Filtered THEN OnScreen
  ELSE {t \in OnScreen : shows.filter \in {"all", shows.rows.rows[t]}}

Settled == asks = <<>> /\ deeds = <<>> /\ ~strayed

\* When nothing is under way the page is not loading and shows what the server holds for
\* the filter and offset on the screen, the page's own changes included, and the figures
\* beside the list.  Three things are left out, each a way the code goes wrong or may:
\* an answer that arrives after that of a later request, a request made for a filter the
\* page has left meanwhile, and what others changed or a request lost since.
UpToDate ==
  Settled =>
    /\ ~shows.loading
    /\ "rows" \notin outrun \cup doubtful =>
         /\ ~shows.error
         /\ shows.rows = Listing(shows.filter, shows.offset)
         /\ Displayed = {t \in Matching(shows.filter) : Paged => t \in OnScreen}
    /\ ("extra" \notin outrun \cup doubtful /\ (list \in {"newsletter", "redirects"} \/ shows.tab)) =>
         shows.extra = Extra(shows.filter)

\* The pages keep their types and end up to date.
ListsHonest == ListTypeOK /\ UpToDate
=============================================================================
