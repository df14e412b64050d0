------------------------------ MODULE Dashboard ------------------------------
(***************************************************************************)
(* The analytics dashboard (src/src/api/routes/admin_analytics.py): five   *)
(* queries of AggregateService, one after the other, and the engagement    *)
(* totals, while events are recorded.                                      *)
(*                                                                         *)
(* A bucket is its dimensions with a count; Aggregates has how an event    *)
(* reaches its bucket.  One bucket type and one range, all in the range.   *)
(***************************************************************************)
EXTENDS Integers, Sequences, FiniteSetsExt, Functions

CONSTANTS
  Days,       \* starts of buckets
  Views,      \* the dimensions of events but the day; "none" is a missing one
  TopLimit,   \* limit of the rankings
  MaxHits     \* bound on the events recorded

ASSUME DashboardAssumption ==
  /\ IsFiniteSet(Days) /\ IsFiniteSet(Views)
  /\ \A v \in Views : v.type \in {"page_view", "outbound_click"} /\ v.class \in {"bot", "real"}
  /\ TopLimit \in Nat \ {0} /\ MaxHits \in Nat

VARIABLES
  hits,     \* per bucket, the events counted
  board,    \* the answer under construction
  busySince \* history: an event was counted since the first query

boardVars == <<hits, board, busySince>>

Buckets == Days \X Views

\* The queries, in the order of get_dashboard.
Sections == <<"totals", "series", "content", "sources", "referrers">>

NoBoard == [next |-> 0, total |-> 0, bots |-> 0, series |-> [d \in Days |-> 0],
            content |-> <<>>, sources |-> <<>>, referrers |-> <<>>]

SumOver(f, set) == MapThenSumSet(LAMBDA x : f[x], set)

DashboardInit ==
  /\ hits = [b \in Buckets |-> 0]
  /\ board = NoBoard
  /\ busySince = FALSE

-----------------------------------------------------------------------------

RecordHit ==
  /\ SumOver(hits, Buckets) < MaxHits
  /\ \E b \in Buckets : hits' = [hits EXCEPT ![b] = @ + 1]
  /\ busySince' = (board.next # 0)
  /\ UNCHANGED board

\* exclude_bots, which every query of the dashboard leaves at its default.
Counts(b) == b[2].class # "bot"
Real == {b \in Buckets : Counts(b)}
PageViews == {b \in Real : b[2].type = "page_view"}

\* A bucket exists once something was counted in it.
Filled(set) == {b \in set : hits[b] > 0}

\* The buckets of views added up by a dimension, without those that lack it (a source is
\* never missing); a name that only bots came by counts 0.
Grouped(dimension) ==
  LET set == {b \in Filled(Buckets) : /\ b[2].type = "page_view"
                                      /\ dimension = "source" \/ b[2][dimension] # "none"} IN
  [n \in {b[2][dimension] : b \in set} |->
     SumOver(hits, {b \in set \cap Real : b[2][dimension] = n})]

\* The first entries of a grouping, highest counts first; an equal count leaves the
\* order to the order the buckets came in.
Rankings(group) ==
  {r \in UNION {[1..n -> DOMAIN group] : n \in {n \in 0..TopLimit : n <= Cardinality(DOMAIN group)}} :
     /\ Len(r) = TopLimit \/ Range(r) = DOMAIN group
     /\ IsInjective(r)
     /\ \A i, j \in DOMAIN r : i < j => group[r[i]] >= group[r[j]]
     /\ \A n \in DOMAIN group \ Range(r) : \A i \in DOMAIN r : group[r[i]] >= group[n]}

ListOf(group, r) == [i \in DOMAIN r |-> <<r[i], group[r[i]]>>]

At(n) == board.next = n /\ UNCHANGED <<hits, busySince>>
Ranked(field, group) ==
  \E r \in Rankings(group) : board' = [board EXCEPT !.next = @ + 1, ![field] = ListOf(group, r)]

\* get_totals.
GetTotals ==
  /\ board.next = 0
  /\ board' = [board EXCEPT !.next = 1, !.total = SumOver(hits, Real),
                            !.bots = SumOver(hits, Buckets \ Real)]
  /\ busySince' = FALSE
  /\ UNCHANGED hits

\* Mutant: the points of the series count page views only.
GetTimeSeriesOfViews ==
  /\ At(1)
  /\ board' = [board EXCEPT !.next = 2,
                 !.series = [d \in Days |-> SumOver(hits, {b \in PageViews : b[1] = d})]]

\* get_time_series.
GetTimeSeries ==
  /\ At(1)
  /\ board' = [board EXCEPT !.next = 2,
                 !.series = [d \in Days |-> SumOver(hits, {b \in Real : b[1] = d})]]

\* get_top_content, get_top_sources, get_top_referrers.
GetTopContent == At(2) /\ Ranked("content", Grouped("content"))

GetTopSources == At(3) /\ Ranked("sources", Grouped("source"))

GetTopReferrers == At(4) /\ Ranked("referrers", Grouped("referrer"))

ShowDashboard == At(Len(Sections)) /\ board' = NoBoard

DashboardNext ==
  \/ RecordHit \/ GetTotals \/ GetTimeSeries
  \/ GetTopContent \/ GetTopSources \/ GetTopReferrers \/ ShowDashboard

DashboardSpec == DashboardInit /\ [][DashboardNext]_boardVars

-----------------------------------------------------------------------------
(* Properties. *)

DashboardTypeOK ==
  /\ hits \in [Buckets -> 0..MaxHits]
  /\ board.next \in 0..Len(Sections) /\ {board.total, board.bots} \subseteq 0..MaxHits
  /\ board.series \in [Days -> 0..MaxHits]
  /\ busySince \in BOOLEAN

ListSum(list) == SumOver([i \in DOMAIN list |-> list[i][2]], DOMAIN list)

\* TA-0042: the parts of one dashboard agree although each is a query of its own: a
\* later part never shows less than an earlier one, and the points of the series add
\* up to the total when nothing was counted between the two queries; a ranking that
\* left nothing out accounts for every view.
DashboardAgrees ==
  /\ board.next >= 2 => board.total <= SumOver(board.series, Days)
  /\ board.next >= 2 /\ ~busySince => board.total = SumOver(board.series, Days)
  /\ board.next >= 4 /\ Len(board.sources) < TopLimit => ListSum(board.content) <= ListSum(board.sources)
  /\ board.next >= 4 /\ Len(board.sources) < TopLimit /\ ~busySince =>
       ListSum(board.sources) = SumOver(hits, PageViews)
=============================================================================
