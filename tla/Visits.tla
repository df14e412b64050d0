------------------------------- MODULE Visits -------------------------------
(***************************************************************************)
(* One visit of a page: ingest_event of                                    *)
(* src/src/api/routes/analytics_ingest.py with the validation of           *)
(* AnalyticsIngestionService, the engagement component and the rows of     *)
(* SQLiteEngagementRepo; the queries over those rows and the routes of the *)
(* dashboard that ask them; and the deduplication service                  *)
(* (src/src/core/services/analytics_dedupe.py), which no route calls.      *)
(*                                                                         *)
(* The UPDATE of store_session takes the write lock before the INSERT that *)
(* may follow it, so storing a session is one step.                        *)
(***************************************************************************)
EXTENDS Integers, Sequences, FiniteSetsExt, Functions

CONSTANTS
  Pages,        \* content items
  Seconds,      \* times on a page, as measured
  Percents,     \* scroll depths, as measured
  MaxSessions,  \* bound on the engagements counted
  Days,         \* days of the engagements, and of the ranges asked for
  TopLimit,     \* limit of the list of the most engaging pages
  EventKeys,    \* what generate_dedupe_key hashes besides the time
  TTL,          \* ttl_seconds of the deduplication
  MaxSecond     \* bound on the clock and the timestamps

ASSUME VisitAssumption ==
  /\ IsFiniteSet(Pages) /\ IsFiniteSet(Days)
  /\ Seconds \subseteq Int /\ Percents \subseteq Int /\ MaxSessions \in Nat
  /\ Days \subseteq Int /\ TopLimit \in Nat \ {0}
  /\ TTL \in Nat \ {0} /\ MaxSecond \in Nat

VARIABLES
  engagements,  \* engagement_sessions: a row per page, day and pair of buckets
  measured,  \* history: the engagements stored, and the engaged ones of them, per page and day
  second,    \* the clock of the deduplication
  entries,   \* its keys with the second they expire at; -1 for a key that is not there
  reported   \* history: the second a key was last reported as new, or -1

visitVars == <<engagements, measured, second, entries, reported>>

-----------------------------------------------------------------------------
(* Engagement. *)

\* Lower ends of the time and scroll buckets; a bucket is named by its lower end.
TimeBuckets == {0, 10, 30, 60, 120, 300}
ScrollBuckets == {0, 25, 50, 75}

\* bucket_time_on_page and bucket_scroll_depth.
BucketOf(x, buckets) == Max({b \in buckets : b <= x})

\* is_engaged_session, of the values as measured.
Engaged(s, p) == s >= 30 /\ p >= 25

\* validate_engagement_input.
Plausible(s, p) == s \in 0..3600 /\ p \in 0..100

\* store_session: a row more, with the flag of this session, or one more in the row.
Stored(row, engaged) ==
  [k \in DOMAIN engagements \union {row} |->
    IF k \notin DOMAIN engagements THEN [count |-> 1, engaged |-> engaged]
    ELSE IF k = row THEN [engagements[k] EXCEPT !.count = @ + 1]
    ELSE engagements[k]]

\* Rows of a query: of these pages (all of them, or one), on the days of a range.
Rows(pages, from, to) == {k \in DOMAIN engagements : k[1] \in pages /\ from <= k[2] /\ k[2] <= to}

SumOf(f, set) == MapThenSumSet(LAMBDA x : f[x], set)
SumOfRows(rows) == SumOf([k \in DOMAIN engagements |-> engagements[k].count], rows)
EngagedOf(rows) == {k \in rows : engagements[k].engaged}

\* get_totals.
SessionTotals(pages, from, to, engagedOnly) ==
  LET rows == Rows(pages, from, to)
      asked == IF engagedOnly THEN EngagedOf(rows) ELSE rows IN
  [all |-> SumOfRows(asked), engaged |-> SumOfRows(EngagedOf(asked))]

\* get_distribution: whatever is not "time" is taken for the scroll buckets. The order of
\* the rows, by the text of their labels, is left out.
Distribution(kind, pages, from, to) ==
  LET rows == Rows(pages, from, to)
      bucket(k) == IF kind = "time" THEN k[3] ELSE k[4] IN
  {[bucket |-> b, count |-> SumOfRows({k \in rows : bucket(k) = b})] : b \in {bucket(k) : k \in rows}}

\* get_top_engaged_content of SQLiteEngagementRepo: GROUP BY, ...
TopRow(p, from, to) ==
  LET rows == {k \in Rows(Pages, from, to) : k[1] = p} IN
  [content_id |-> p, total_sessions |-> SumOfRows(rows), engaged_sessions |-> SumOfRows(EngagedOf(rows))]
Groups(from, to) == {TopRow(k[1], from, to) : k \in Rows(Pages, from, to)}

\* ... ORDER BY and LIMIT: the lists that may come of it, for SQL leaves equal rows in any order.
TopEngaged(from, to, limit) ==
  LET groups == Groups(from, to) IN
  {top \in UNION {[1..n -> groups] : n \in {n \in 0..limit : n <= Cardinality(groups)}} :
     /\ Len(top) = limit \/ Range(top) = groups
     /\ IsInjective(top)
     /\ \A i, j \in DOMAIN top : i < j => top[i].engaged_sessions >= top[j].engaged_sessions
     /\ \A r \in groups \ Range(top) : \A i \in DOMAIN top : top[i].engaged_sessions >= r.engaged_sessions}

\* The rate of run_query_totals, of a list of the top pages and of the routes, per cent.
Rate(all, engaged) == IF all > 0 THEN (100 * engaged) \div all ELSE 0

\* run_query_distribution: each bucket with its share.
Shares(kind, pages, from, to) ==
  LET rows == Distribution(kind, pages, from, to)
      total == SumOf([r \in rows |-> r.count], rows) IN
  {[bucket |-> r.bucket, count |-> r.count, percentage |-> Rate(total, r.count)] : r \in rows}

\* run_query_top_engaged_content: the list with the rate of each page.
Rated(r) == [content_id |-> r.content_id, total_sessions |-> r.total_sessions,
             engaged_sessions |-> r.engaged_sessions,
             engagement_rate |-> Rate(r.total_sessions, r.engaged_sessions)]
TopRated(from, to, limit) ==
  {[n \in DOMAIN top |-> Rated(top[n])] : top \in TopEngaged(from, to, limit)}

\* The route /engagement of admin_analytics.py.
TotalsAnswer(pages, from, to) ==
  LET totals == SessionTotals(pages, from, to, FALSE) IN
  [total_sessions |-> totals.all, engaged_sessions |-> totals.engaged,
   engagement_rate |-> Rate(totals.all, totals.engaged)]

\* A route reads these fields of each row the repository returns; a row without one of
\* them is a KeyError, and the answer a 500.
Answer(rows, fields) ==
  IF \A r \in rows : fields \subseteq DOMAIN r THEN [status |-> 200, items |-> rows]
  ELSE [status |-> 500, items |-> {}]

\* The routes /engagement/distribution and /engagement/top-content of admin_analytics.py.
DistributionAnswer(pages, from, to) ==
  Answer(Distribution("combined", pages, from, to), {"time_bucket", "scroll_bucket", "count"})
TopAnswers(from, to) ==
  {Answer(Range(top), {"content_id", "engaged_count"}) : top \in TopEngaged(from, to, TopLimit)}

VisitInit ==
  /\ engagements = [k \in {} |-> 0]
  /\ measured = [k \in Pages \X Days |-> [all |-> 0, engaged |-> 0]]
  /\ second = 0
  /\ entries = [k \in EventKeys \X (0..MaxSecond) |-> -1]
  /\ reported = entries

\* ingest_event of a valid event with engagement data: run_calculate.
Engage ==
  \E page \in Pages, day \in Days, s \in Seconds, p \in Percents :
    LET row == <<page, day, BucketOf(s, TimeBuckets), BucketOf(p, ScrollBuckets)>>
        engaged == Engaged(s, p) IN
    /\ Plausible(s, p)
    /\ SumOf([k \in DOMAIN measured |-> measured[k].all], DOMAIN measured) < MaxSessions
    /\ engagements' = Stored(row, engaged)
    /\ measured' = [measured EXCEPT ![<<page, day>>] =
         [all |-> @.all + 1, engaged |-> IF engaged THEN @.engaged + 1 ELSE @.engaged]]
    /\ UNCHANGED <<second, entries, reported>>

-----------------------------------------------------------------------------
(* Deduplication. *)

\* generate_dedupe_key with get_timestamp_bucket.
KeyOf(event, timestamp) == <<event, timestamp - (timestamp % TTL)>>

\* exists: an entry that has expired is removed and is not there.
RecentKey(key) == entries[key] # -1 /\ second <= entries[key]

\* check_and_record: add() enters a key that is not there.
CheckAndRecord ==
  \E event \in EventKeys, timestamp \in 0..MaxSecond :
    LET key == KeyOf(event, timestamp) IN
    /\ ~RecentKey(key)
    /\ entries' = [entries EXCEPT ![key] = second + TTL]
    /\ reported' = [reported EXCEPT ![key] = second]
    /\ UNCHANGED <<engagements, measured, second>>

\* Mutant: an entry goes in the second it expires.
CleanupEarly ==
  /\ entries' = [k \in DOMAIN entries |-> IF second < entries[k] THEN entries[k] ELSE -1]
  /\ UNCHANGED <<engagements, measured, second, reported>>

\* cleanup_expired.
Cleanup ==
  /\ entries' = [k \in DOMAIN entries |-> IF second <= entries[k] THEN entries[k] ELSE -1]
  /\ UNCHANGED <<engagements, measured, second, reported>>

NextSecond ==
  /\ second < MaxSecond
  /\ second' = second + 1
  /\ UNCHANGED <<engagements, measured, entries, reported>>

DedupeNext == CheckAndRecord \/ Cleanup \/ NextSecond

-----------------------------------------------------------------------------
(* Properties. *)

\* What was measured of these pages in a range of days.
Measured(pages, from, to) ==
  LET visited == pages \X {d \in Days : from <= d /\ d <= to} IN
  [all |-> SumOf([k \in DOMAIN measured |-> measured[k].all], visited),
   engaged |-> SumOf([k \in DOMAIN measured |-> measured[k].engaged], visited)]

TotalsExact(pages, from, to) ==
  LET m == Measured(pages, from, to) IN
  /\ TotalsAnswer(pages, from, to) =
       [total_sessions |-> m.all, engaged_sessions |-> m.engaged, engagement_rate |-> Rate(m.all, m.engaged)]
  /\ SessionTotals(pages, from, to, TRUE) = [all |-> m.engaged, engaged |-> m.engaged]

SharesExact(pages, from, to) ==
  \A kind \in {"time", "scroll"} :
    LET shares == Shares(kind, pages, from, to) IN
    /\ SumOf([r \in shares |-> r.count], shares) = Measured(pages, from, to).all
    /\ SumOf([r \in shares |-> r.percentage], shares) <= 100

TopExact(from, to) ==
  \A top \in TopRated(from, to, TopLimit) : \A r \in Range(top) :
    LET m == Measured({r.content_id}, from, to) IN
    /\ r.total_sessions = m.all /\ r.engaged_sessions = m.engaged
    /\ r.engagement_rate \in 0..100
    /\ \A p \in Pages \ {q.content_id : q \in Range(top)} :
         Measured({p}, from, to).engaged <= r.engaged_sessions

RoutesExact(pages, from, to) ==
  /\ LET told == DistributionAnswer(pages, from, to) IN
     told.status = 200 =>
       SumOf([r \in told.items |-> r.count], told.items) = Measured(pages, from, to).all
  /\ \A told \in TopAnswers(from, to) :
       told.status = 200 => (told.items = {} <=> Measured(Pages, from, to).all = 0)

\* TA-0058, TA-0060, TA-0065, TA-0066: though only buckets are kept, and the flag of a row
\* is that of its first session, every query over a range of days answers what was measured
\* in it: the totals, the distributions, which share the totals out, and the top pages, none
\* of which was measured with fewer engaged sessions than a page left out. A route that
\* answers without an error tells no less.
EngagementExact ==
  \A from \in Days : \A to \in {d \in Days : from <= d}, pages \in {Pages} \union {{p} : p \in Pages} :
    /\ TotalsExact(pages, from, to) /\ SharesExact(pages, from, to)
    /\ TopExact(from, to) /\ RoutesExact(pages, from, to)

\* TA-0039: what is reported as new was not reported within the last TTL seconds, however
\* the clean-ups fall.
ReportedOnce ==
  [][\A k \in DOMAIN reported :
       reported'[k] # reported[k] /\ reported[k] # -1 => reported'[k] > reported[k] + TTL]_visitVars

\* Visits are counted as they were: every engaged session in the totals, no event twice
\* within the life of its key.
VisitsHonest == []EngagementExact /\ ReportedOnce

=============================================================================
