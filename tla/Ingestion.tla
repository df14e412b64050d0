------------------------------ MODULE Ingestion ------------------------------
(***************************************************************************)
(* The analytics endpoints of src/src/api/routes/analytics_ingest.py over  *)
(* AnalyticsIngestionService (src/src/components/analytics/_impl.py).      *)
(*                                                                         *)
(* A batch is a loop of single events.  The store is one list for all      *)
(* requests; the rate limiter is a new one for each.                       *)
(***************************************************************************)
EXTENDS Integers, Sequences, SequencesExt, FiniteSets

CONSTANTS
  Clients,     \* threads that serve a request
  Offered,     \* the events clients send
  MaxPerRate,  \* rate_limit_max_requests
  RateSpan,    \* rate_limit_window_seconds
  MaxAge,      \* max_timestamp_age_seconds
  MaxAhead,    \* max_timestamp_future_seconds
  MaxEvents,   \* bound on the length of a batch
  MaxPosts,    \* bound on the number of requests
  MaxMoment    \* bound on the clock

\* type: on the list or not.  extra: a field that is no list's, or the forbidden one.
\* null: the extra field has no value.  ts: a time, or -1 for none.
EventKind == [type: {"page_view", "other"}, extra: {"none", "unknown", "email"},
              null: BOOLEAN, ts: Int, agent: {"bot", "real", "unknown", "other"}]

ASSUME IngestAssumption ==
  /\ Offered \subseteq EventKind
  /\ {MaxPerRate, RateSpan, MaxEvents} \subseteq Nat \ {0}
  /\ {MaxAge, MaxAhead, MaxPosts, MaxMoment} \subseteq Nat

VARIABLES
  moment,   \* the clock
  posts,    \* requests begun
  post,     \* per thread: its request, the events to come, the answers, and what the
            \* limiter has: which of its events it let in, and when
  stored    \* the event store: what was stored, when, and for which request and event

ingestVars == <<moment, posts, post, stored>>

NoPost == [id |-> 0, single |-> FALSE, todo |-> <<>>, ok |-> <<>>, hits |-> {}]

IngestInit ==
  /\ moment = 0
  /\ posts = 0
  /\ post = [c \in Clients |-> NoPost]
  /\ stored = {}

-----------------------------------------------------------------------------
(* The checks. *)

\* validate_timestamp; an event without a time gets the present one.
Stamp(e) == IF e.ts = -1 THEN moment ELSE e.ts

\* Mutant: how far ahead a time may be is not checked.
TimestampRecent(e) == moment - Stamp(e) <= MaxAge

TimestampValid(e) == moment - Stamp(e) <= MaxAge /\ Stamp(e) - moment <= MaxAhead

\* validate_forbidden_fields and validate_allowed_fields look for the names alone.
FieldsAllowed(e) == e.extra = "none"

Accepted(e) ==
  /\ FieldsAllowed(e)
  /\ e.type = "page_view"
  /\ TimestampValid(e)
  /\ e.agent # "other"

\* The limiter: only what lies in the span counts.
Recent(hits) == {h \in hits : h[2] > moment - RateSpan}
WithinRate(hits) == Cardinality(Recent(hits)) < MaxPerRate

\* ingest_event drops the fields without a value before it calls the service.
WithoutNull(e) == IF e.null THEN [e EXCEPT !.extra = "none"] ELSE e

-----------------------------------------------------------------------------

Begin(c, single, events) ==
  /\ post[c].id = 0 /\ posts < MaxPosts
  /\ posts' = posts + 1
  /\ post' = [post EXCEPT ![c] =
                             [id |-> posts', single |-> single, todo |-> events, ok |-> <<>>, hits |-> {}]]
  /\ UNCHANGED <<moment, stored>>

IngestEvent(c) == \E e \in Offered : Begin(c, TRUE, <<WithoutNull(e)>>)

IngestBatch(c) == \E n \in 1..MaxEvents : \E events \in [1..n -> Offered] : Begin(c, FALSE, events)

\* ingest, for the next event of the request.
Ingest(c) ==
  LET p == post[c]
      e == Head(p.todo)
      within == WithinRate(p.hits)
      ok == within /\ Accepted(e) IN
  /\ p.todo # <<>>
  /\ post' = [post EXCEPT ![c] =
       [id |-> p.id, single |-> p.single, todo |-> Tail(p.todo), ok |-> Append(p.ok, ok),
        hits |-> Recent(p.hits) \cup IF within THEN {<<Len(p.ok) + 1, moment>>} ELSE {}]]
  /\ stored' = IF ok THEN stored \cup {[event |-> e, stamp |-> Stamp(e), at |-> moment,
                                        by |-> p.id, index |-> Len(p.ok) + 1]}
                     ELSE stored
  /\ UNCHANGED <<moment, posts>>

Reply(c) ==
  /\ post[c].id # 0 /\ post[c].todo = <<>>
  /\ post' = [post EXCEPT ![c] = NoPost]
  /\ UNCHANGED <<moment, posts, stored>>

PassTime ==
  /\ moment < MaxMoment
  /\ moment' = moment + 1
  /\ UNCHANGED <<posts, post, stored>>

IngestNext ==
  (\E c \in Clients : IngestEvent(c) \/ IngestBatch(c) \/ Ingest(c) \/ Reply(c)) \/ PassTime

IngestSpec == IngestInit /\ [][IngestNext]_ingestVars

-----------------------------------------------------------------------------
(* Properties. *)

IngestTypeOK ==
  /\ moment \in 0..MaxMoment /\ posts \in 0..MaxPosts
  /\ \A c \in Clients : /\ post[c].id \in 0..posts
                        /\ Range(post[c].todo) \subseteq EventKind
                        /\ Cardinality(post[c].hits) <= MaxEvents
  /\ \A s \in stored : s.event \in EventKind /\ s.by \in 1..posts /\ s.index \in 1..MaxEvents

\* What is stored is of a type on the list, holds no personal field and was fresh when
\* it came (TA-0034, TA-0035); an event of a batch is stored once and exactly when its
\* answer says so, whatever the others of the batch met; and no request, however its
\* events are spread over time, is let more into a span than the limit.
IngestHonest ==
  /\ \A s \in stored :
       /\ s.event.type = "page_view" /\ s.event.extra = "none"
       /\ s.stamp - s.at <= MaxAhead /\ s.at - s.stamp <= MaxAge
       /\ Cardinality({t \in stored : t.by = s.by /\ t.at \in (s.at - RateSpan + 1)..s.at}) <= MaxPerRate
  /\ \A c \in Clients : post[c].id # 0 =>
       {i \in DOMAIN post[c].ok : post[c].ok[i]} = {s.index : s \in {s \in stored : s.by = post[c].id}}
=============================================================================
