--------------------------- MODULE ServicesProofs ---------------------------
(***************************************************************************)
(* Proofs about Newsletter, RateLimits, Aggregates, Visits, Redirects,      *)
(* Assets with Backup, LondonTime, RestoreDrill, Access and RichText, each  *)
(* for every value of its constants.                                                          *)
(***************************************************************************)
EXTENDS MCServices, SequenceTheorems, Induction

LEMMA SubsetCount ==
  ASSUME NEW T, IsFiniteSet(T), NEW S, S \subseteq T
  PROVE  /\ IsFiniteSet(S) /\ Cardinality(S) \in Nat /\ Cardinality(T) \in Nat
         /\ Cardinality(S) <= Cardinality(T)
BY FS_Subset, FS_CardinalityType

-----------------------------------------------------------------------------
(***************************************************************************)
(* Newsletter: every number of ids, every set of addresses and threads,    *)
(* every lifetime of a token, and handlers that stop at any call.          *)
(***************************************************************************)
(* The inductive invariant. *)

\* Ids in use are ids that were drawn.
DrawnInv ==
  /\ \A i \in Ids : subscribers[i].status # "none" \/ i \in mailed => i <= drawn
  /\ \A v \in Visitors : visit[v].step # "idle" => visit[v].id <= drawn

\* A thread about to insert has a new pending row with an id that no row, no
\* mailed link and no other thread has.
InsertInv(v) ==
  visit[v].step = "insert" =>
    /\ visit[v].copy.status = "pending"
    /\ subscribers[visit[v].id].status = "none" /\ visit[v].id \notin mailed
    /\ \A u \in Visitors \ {v} : visit[u].step = "idle" \/ visit[u].id # visit[v].id

\* A thread about to update keeps no token, and moves the row as SM3 says
\* unless the row changed after the thread read it.
UpdateInv(v) ==
  visit[v].step = "update" =>
    /\ ~visit[v].copy.open
    /\ ~visit[v].stale => CanMove(subscribers[visit[v].id].status, visit[v].copy.status)

\* Only a pending row has a confirmation token.
OpenInv == \A i \in Ids : subscribers[i].open => subscribers[i].status = "pending"

NewsletterInv ==
  /\ NewsletterTypeOK /\ DrawnInv /\ OpenInv /\ OneRowPerAddress
  /\ \A v \in Visitors : InsertInv(v) /\ UpdateInv(v)

-----------------------------------------------------------------------------
(* Type correctness. *)

LEMMA NoSubscriberType ==
  NoSubscriber \in SubscriberRow /\ NoSubscriber.status = "none" /\ ~NoSubscriber.open
<1>1. (CHOOSE e \in Emails : TRUE) \in Emails
  BY NewsletterAssumption
<1>2. 0 \in 0..MaxHour
  BY NewsletterAssumption
<1> QED
  BY <1>1, <1>2 DEF NoSubscriber, SubscriberRow, SubscriberStatus

LEMMA NoVisitType ==
  NoVisit \in Visit /\ NoVisit.step = "idle"
<1>1. 1 \in Ids
  BY NewsletterAssumption DEF Ids
<1> QED
  BY <1>1, NoSubscriberType DEF NoVisit, Visit

\* Goes and Ends change what one thread is about to do.
LEMMA GoesEffect ==
  ASSUME NewsletterTypeOK, NEW v \in Visitors, NEW i \in Ids, NEW copy \in SubscriberRow,
         NEW step \in {"insert", "mail", "update", "welcome"}, Goes(v, step, i, copy)
  PROVE  /\ visit' \in [Visitors -> Visit]
         /\ visit'[v].step = step /\ visit'[v].id = i /\ visit'[v].copy = copy
         /\ ~visit'[v].stale
         /\ \A u \in Visitors \ {v} : visit'[u] = visit[u]
BY DEF Goes, NewsletterTypeOK, Visit

LEMMA EndsEffect ==
  ASSUME NewsletterTypeOK, NEW v \in Visitors, Ends(v)
  PROVE  /\ visit' \in [Visitors -> Visit]
         /\ visit'[v].step = "idle"
         /\ \A u \in Visitors \ {v} : visit'[u] = visit[u]
BY NoVisitType DEF Ends, NewsletterTypeOK

\* WroteThen marks the copies of the row that the other threads hold.
LEMMA WroteThenEffect ==
  ASSUME NewsletterTypeOK, NEW v \in Visitors, NEW i, NEW next \in Visit, WroteThen(v, i, next)
  PROVE  /\ visit' \in [Visitors -> Visit]
         /\ visit'[v] = next
         /\ \A u \in Visitors \ {v} :
              /\ visit'[u].step = visit[u].step /\ visit'[u].id = visit[u].id
              /\ visit'[u].copy = visit[u].copy
              /\ visit[u].step = "update" /\ visit[u].id = i => visit'[u].stale
              /\ visit[u].id # i => visit'[u] = visit[u]
<1>1. \A u \in Visitors : visit[u] \in Visit
  BY DEF NewsletterTypeOK
<1>2. \A u \in Visitors : [visit[u] EXCEPT !.stale = TRUE] \in Visit
  BY <1>1 DEF Visit
<1>3. visit' \in [Visitors -> Visit]
  BY <1>1, <1>2 DEF WroteThen
<1>4. \A u \in Visitors \ {v} :
        visit'[u] = IF visit[u].step = "update" /\ visit[u].id = i
                    THEN [visit[u] EXCEPT !.stale = TRUE] ELSE visit[u]
  BY DEF WroteThen
<1>5. visit'[v] = next
  BY DEF WroteThen
<1> QED
  BY <1>1, <1>3, <1>4, <1>5 DEF Visit

\* A save writes its row, or raises and ends the handler.
LEMMA SaveEffect ==
  ASSUME NewsletterTypeOK, NEW v \in Visitors, NEW step \in {"idle", "mail", "welcome"},
         SaveSubscriber(v, step)
  PROVE  /\ subscribers' \in [Ids -> SubscriberRow] /\ visit' \in [Visitors -> Visit]
         /\ \/ /\ AddressFree(visit[v].id, visit[v].copy.email)
               /\ subscribers'[visit[v].id] = visit[v].copy
               /\ \A i \in Ids \ {visit[v].id} : subscribers'[i] = subscribers[i]
               /\ visit'[v].step = step
               /\ step # "idle" => visit'[v].id = visit[v].id
               /\ \A u \in Visitors \ {v} :
                    /\ visit'[u].step = visit[u].step /\ visit'[u].id = visit[u].id
                    /\ visit'[u].copy = visit[u].copy
                    /\ visit[u].step = "update" /\ visit[u].id = visit[v].id => visit'[u].stale
                    /\ visit[u].id # visit[v].id => visit'[u] = visit[u]
            \/ /\ UNCHANGED subscribers /\ visit'[v].step = "idle"
               /\ \A u \in Visitors \ {v} : visit'[u] = visit[u]
<1> DEFINE i == visit[v].id
           next == IF step = "idle" THEN NoVisit ELSE [NoVisit EXCEPT !.step = step, !.id = i]
<1>1. i \in Ids /\ visit[v].copy \in SubscriberRow
  BY DEF NewsletterTypeOK, Visit
<1>2. next \in Visit /\ next.step = step /\ (step # "idle" => next.id = i)
  BY <1>1, NoVisitType DEF Visit
<1>3. CASE AddressFree(i, visit[v].copy.email)
  <2>1. subscribers' = [subscribers EXCEPT ![i] = visit[v].copy] /\ WroteThen(v, i, next)
    BY <1>3 DEF SaveSubscriber
  <2> HIDE DEF next
  <2>2. /\ visit' \in [Visitors -> Visit] /\ visit'[v] = next
        /\ \A u \in Visitors \ {v} :
             /\ visit'[u].step = visit[u].step /\ visit'[u].id = visit[u].id
             /\ visit'[u].copy = visit[u].copy
             /\ visit[u].step = "update" /\ visit[u].id = i => visit'[u].stale
             /\ visit[u].id # i => visit'[u] = visit[u]
    BY <1>2, <2>1, WroteThenEffect
  <2>3. /\ subscribers' \in [Ids -> SubscriberRow] /\ subscribers'[i] = visit[v].copy
        /\ \A k \in Ids \ {i} : subscribers'[k] = subscribers[k]
    BY <1>1, <2>1 DEF NewsletterTypeOK
  <2> QED
    BY <1>2, <1>3, <2>2, <2>3
<1>4. CASE ~AddressFree(i, visit[v].copy.email)
  <2>1. Ends(v) /\ UNCHANGED subscribers
    BY <1>4 DEF SaveSubscriber
  <2> QED
    BY <2>1, EndsEffect DEF NewsletterTypeOK
<1> QED
  BY <1>3, <1>4

-----------------------------------------------------------------------------
(* The steps that write no row. *)

\* What a step may do to the rows: the bodies of DoubleOptIn and SingleUse.
OptInStep ==
  \A i \in Ids :
    LET from == subscribers[i].status  to == subscribers'[i].status IN
    \/ from = to
    \/ CanMove(from, to)
    \/ from = "none" /\ to = "pending" /\ i \notin mailed
    \/ to = "none"
    \/ \E v \in Visitors : visit[v].step = "update" /\ visit[v].id = i /\ visit[v].stale

SingleUseStep ==
  \A i \in Ids : subscribers'[i].open =>
    /\ subscribers'[i].status = "pending"
    /\ subscribers[i].open \/ (i \notin mailed /\ \E v \in Visitors :
                                 visit[v].step = "insert" /\ visit[v].id = i)

\* A step that leaves the rows alone keeps what speaks of them.
LEMMA RowsKept ==
  ASSUME NewsletterInv, UNCHANGED subscribers
  PROVE  OpenInv' /\ OneRowPerAddress' /\ OptInStep /\ SingleUseStep
BY DEF NewsletterInv, OpenInv, OneRowPerAddress, OptInStep, SingleUseStep

\* A thread that goes on to something else than a write keeps the invariant.
LEMMA QuietStep ==
  ASSUME NewsletterInv, NewsletterTypeOK', NEW v \in Visitors,
         UNCHANGED <<subscribers, drawn>>,
         mailed' \subseteq mailed \cup {i \in Ids : i = visit[v].id /\ visit[v].step = "mail"},
         \A u \in Visitors \ {v} : visit'[u] = visit[u],
         visit'[v].step \notin {"insert", "update"},
         visit'[v].step # "idle" => visit'[v].id <= drawn /\ subscribers[visit'[v].id].status # "none"
  PROVE  NewsletterInv'
<1>1. DrawnInv'
  BY DEF NewsletterInv, DrawnInv
<1>2. ASSUME NEW u \in Visitors PROVE InsertInv(u)' /\ UpdateInv(u)'
  <2>1. CASE u = v
    BY <2>1 DEF InsertInv, UpdateInv
  <2>2. CASE u # v
    <3>1. InsertInv(u) /\ UpdateInv(u) /\ visit'[u] = visit[u]
      BY <2>2 DEF NewsletterInv
    <3>2. UpdateInv(u)'
      BY <3>1 DEF UpdateInv
    <3>3. ASSUME visit[u].step = "insert"
          PROVE  /\ visit[u].id \notin mailed'
                 /\ visit'[v].step = "idle" \/ visit'[v].id # visit[u].id
      <4>1. /\ visit[v].step = "mail" => visit[v].id # visit[u].id
            /\ subscribers[visit[u].id].status = "none" /\ visit[u].id \notin mailed
        BY <2>2, <3>1, <3>3 DEF InsertInv
      <4> QED
        BY <4>1
    <3> QED
      BY <3>1, <3>2, <3>3 DEF InsertInv
  <2> QED
    BY <2>1, <2>2
<1> QED
  BY <1>1, <1>2, RowsKept DEF NewsletterInv

\* A thread that read a row may write it as SM3 says.
LEMMA ReadStep ==
  ASSUME NewsletterInv, NewsletterTypeOK', NEW v \in Visitors, NEW i \in Ids,
         UNCHANGED <<subscribers, drawn, mailed>>,
         \A u \in Visitors \ {v} : visit'[u] = visit[u],
         visit'[v].step = "update", visit'[v].id = i, ~visit'[v].copy.open,
         CanMove(subscribers[i].status, visit'[v].copy.status)
  PROVE  NewsletterInv'
<1>1. subscribers[i].status # "none"
  BY DEF CanMove, SubscriberMoves
<1>2. DrawnInv'
  BY <1>1 DEF NewsletterInv, DrawnInv
<1>3. ASSUME NEW u \in Visitors PROVE InsertInv(u)' /\ UpdateInv(u)'
  BY <1>1 DEF NewsletterInv, InsertInv, UpdateInv
<1> QED
  BY <1>2, <1>3, RowsKept DEF NewsletterInv

\* A new id is above all the ids in use.
LEMMA DrawStep ==
  ASSUME NewsletterInv, NewsletterTypeOK', NEW v \in Visitors,
         UNCHANGED <<subscribers, mailed>>, drawn < M, drawn' = drawn + 1,
         \A u \in Visitors \ {v} : visit'[u] = visit[u],
         visit'[v].step = "insert", visit'[v].id = drawn', visit'[v].copy.status = "pending"
  PROVE  NewsletterInv'
<1>1. drawn \in Nat /\ drawn' \in Ids /\ \A u \in Visitors : visit[u].id \in Ids
  BY NewsletterAssumption DEF NewsletterInv, NewsletterTypeOK, Ids, Visit
<1>2. DrawnInv'
  BY <1>1 DEF NewsletterInv, DrawnInv, Ids
<1>3. /\ subscribers[drawn'].status = "none" /\ drawn' \notin mailed
      /\ \A u \in Visitors : visit[u].step = "idle" \/ visit[u].id # drawn'
  BY <1>1 DEF NewsletterInv, DrawnInv, Ids
<1>4. ASSUME NEW u \in Visitors PROVE InsertInv(u)' /\ UpdateInv(u)'
  BY <1>3 DEF NewsletterInv, InsertInv, UpdateInv
<1> QED
  BY <1>2, <1>4, RowsKept DEF NewsletterInv

-----------------------------------------------------------------------------
(* The steps that write a row. *)

\* A save of a row whose address no other row has keeps addresses apart.
LEMMA AddressStep ==
  ASSUME NewsletterInv, NEW i \in Ids, NEW email,
         AddressFree(i, email),
         subscribers'[i].email = email \/ subscribers'[i].status = "none",
         \A k \in Ids \ {i} : subscribers'[k] = subscribers[k]
  PROVE  OneRowPerAddress'
BY DEF NewsletterInv, OneRowPerAddress, AddressFree, RowsOf

\* A write of row i by v, of what it had to write or of nothing, when nobody is
\* about to insert this row.
LEMMA WriteStep ==
  ASSUME NewsletterInv, NewsletterTypeOK', NEW v \in Visitors, NEW i \in Ids,
         UNCHANGED <<drawn, mailed>>, OneRowPerAddress',
         \A k \in Ids \ {i} : subscribers'[k] = subscribers[k],
         subscribers'[i].open => subscribers'[i].status = "pending",
         subscribers'[i].status # "none" => i <= drawn,
         \A u \in Visitors \ {v} :
           /\ visit'[u].step = visit[u].step /\ visit'[u].id = visit[u].id
           /\ visit'[u].copy = visit[u].copy
           /\ visit[u].step = "update" /\ visit[u].id = i => visit'[u].stale
           /\ visit[u].id # i => visit'[u] = visit[u]
           /\ visit[u].step = "insert" => visit[u].id # i,
         visit'[v].step \notin {"insert", "update"},
         visit'[v].step # "idle" => visit'[v].id = i /\ i <= drawn
  PROVE  NewsletterInv'
<1>1. \A u \in Visitors : visit[u].id \in Ids
  BY DEF NewsletterInv, NewsletterTypeOK, Visit
<1>2. DrawnInv'
  BY DEF NewsletterInv, DrawnInv
<1>3. OpenInv'
  BY DEF NewsletterInv, OpenInv
<1>4. ASSUME NEW u \in Visitors PROVE InsertInv(u)'
  <2>1. CASE u = v
    BY <2>1 DEF InsertInv
  <2>2. CASE u # v
    BY <1>1, <2>2 DEF NewsletterInv, InsertInv
  <2> QED
    BY <2>1, <2>2
<1>5. ASSUME NEW u \in Visitors PROVE UpdateInv(u)'
  <2>1. CASE u = v
    BY <2>1 DEF UpdateInv
  <2>2. CASE u # v
    BY <1>1, <2>2 DEF NewsletterInv, UpdateInv
  <2> QED
    BY <2>1, <2>2
<1> QED
  BY <1>2, <1>3, <1>4, <1>5 DEF NewsletterInv

-----------------------------------------------------------------------------
(* The steps of the specification. *)

\* A thread's insert, and its update: the save goes through or raises.
LEMMA SaveStep ==
  ASSUME NewsletterInv, NEW v \in Visitors, Insert(v) \/ UpdateRow(v)
  PROVE  NewsletterInv' /\ OptInStep /\ SingleUseStep
<1> DEFINE i == visit[v].id
           row == visit[v].copy
<1>0. /\ NewsletterTypeOK /\ i \in Ids /\ row \in SubscriberRow
      /\ InsertInv(v) /\ UpdateInv(v) /\ i <= drawn
      /\ UNCHANGED <<hour, drawn, mailed, welcomed, stops>>
  BY DEF NewsletterInv, NewsletterTypeOK, Visit, DrawnInv, Insert, UpdateRow
<1>1. PICK step \in {"idle", "mail", "welcome"} : SaveSubscriber(v, step)
  BY DEF Insert, UpdateRow
<1>2. NewsletterTypeOK'
  BY <1>0, <1>1, SaveEffect DEF NewsletterTypeOK
<1>3. CASE UNCHANGED subscribers /\ visit'[v].step = "idle"
           /\ \A u \in Visitors \ {v} : visit'[u] = visit[u]
  BY <1>0, <1>2, <1>3, QuietStep, RowsKept
<1>4. CASE /\ AddressFree(i, row.email)
           /\ subscribers'[i] = row
           /\ \A k \in Ids \ {i} : subscribers'[k] = subscribers[k]
           /\ visit'[v].step = step
           /\ step # "idle" => visit'[v].id = i
           /\ \A u \in Visitors \ {v} :
                /\ visit'[u].step = visit[u].step /\ visit'[u].id = visit[u].id
                /\ visit'[u].copy = visit[u].copy
                /\ visit[u].step = "update" /\ visit[u].id = i => visit'[u].stale
                /\ visit[u].id # i => visit'[u] = visit[u]
  <2>1. OneRowPerAddress'
    BY <1>0, <1>4, AddressStep
  <2>2. \A u \in Visitors \ {v} : visit[u].step = "insert" => visit[u].id # i
    <3>1. visit[v].step # "idle"
      BY DEF Insert, UpdateRow
    <3>2. \A u \in Visitors : InsertInv(u)
      BY DEF NewsletterInv
    <3> QED
      BY <3>1, <3>2 DEF InsertInv
  <2>3. row.open => row.status = "pending"
    BY <1>0 DEF Insert, UpdateRow, InsertInv, UpdateInv
  <2>4. NewsletterInv'
    BY <1>0, <1>2, <1>4, <2>1, <2>2, <2>3, WriteStep
  <2>5. OptInStep
    <3>1. CASE Insert(v)
      BY <1>0, <1>4, <3>1 DEF OptInStep, Insert, InsertInv
    <3>2. CASE UpdateRow(v)
      BY <1>0, <1>4, <3>2 DEF OptInStep, UpdateRow, UpdateInv
    <3> QED
      BY <3>1, <3>2
  <2>6. SingleUseStep
    <3>1. OpenInv
      BY DEF NewsletterInv
    <3>2. CASE Insert(v)
      BY <1>0, <1>4, <3>1, <3>2 DEF SingleUseStep, Insert, InsertInv, OpenInv
    <3>3. CASE UpdateRow(v)
      BY <1>0, <1>4, <3>1, <3>3 DEF SingleUseStep, UpdateRow, UpdateInv, OpenInv
    <3> QED
      BY <3>2, <3>3
  <2> QED
    BY <2>4, <2>5, <2>6
<1> QED
  BY <1>0, <1>1, <1>3, <1>4, SaveEffect

\* What the handlers build is a row.
LEMMA BuiltTypes ==
  ASSUME NewsletterTypeOK
  PROVE  /\ \A email \in Emails : /\ NewSubscriber(email) \in SubscriberRow
                                  /\ NewSubscriber(email).status = "pending"
         /\ \A row \in SubscriberRow :
              /\ Confirmed(row) \in SubscriberRow /\ Unsubscribed(row) \in SubscriberRow
              /\ Confirmed(row).status = "confirmed" /\ ~Confirmed(row).open
              /\ Unsubscribed(row).status = "unsubscribed" /\ ~Unsubscribed(row).open
BY DEF NewsletterTypeOK, NewSubscriber, Confirmed, Unsubscribed, SubscriberRow, SubscriberStatus

LEMMA SubscribeStep ==
  ASSUME NewsletterInv, NEW v \in Visitors, NEW email \in Emails, Subscribe(v, email)
  PROVE  NewsletterInv' /\ UNCHANGED subscribers
<1>0. NewsletterTypeOK /\ UNCHANGED <<hour, subscribers, mailed, welcomed, stops>>
  BY DEF NewsletterInv, Subscribe
<1>1. ASSUME NEW i \in RowsOf(email), subscribers[i].status = "pending",
             Goes(v, "mail", i, NoSubscriber), UNCHANGED drawn
      PROVE  NewsletterInv'
  <2>1. i \in Ids /\ i <= drawn
    BY <1>1 DEF RowsOf, NewsletterInv, DrawnInv
  <2>2. /\ visit' \in [Visitors -> Visit]
        /\ visit'[v].step = "mail" /\ visit'[v].id = i
        /\ \A u \in Visitors \ {v} : visit'[u] = visit[u]
    BY <1>0, <1>1, <2>1, GoesEffect, NoSubscriberType
  <2>3. NewsletterTypeOK'
    BY <1>0, <1>1, <2>2 DEF NewsletterTypeOK
  <2> QED
    BY <1>0, <1>1, <2>1, <2>2, <2>3, QuietStep
<1>2. ASSUME drawn < M, drawn' = drawn + 1, Goes(v, "insert", drawn', NewSubscriber(email))
      PROVE  NewsletterInv'
  <2>1. drawn' \in Ids /\ drawn' \in 0..M
    BY <1>0, <1>2, NewsletterAssumption DEF NewsletterTypeOK, Ids
  <2>2. /\ visit' \in [Visitors -> Visit]
        /\ visit'[v].step = "insert" /\ visit'[v].id = drawn'
        /\ visit'[v].copy = NewSubscriber(email)
        /\ \A u \in Visitors \ {v} : visit'[u] = visit[u]
    BY <1>0, <1>2, <2>1, GoesEffect, BuiltTypes
  <2>3. NewsletterTypeOK'
    BY <1>0, <2>1, <2>2 DEF NewsletterTypeOK
  <2> QED
    BY <1>0, <1>2, <2>2, <2>3, DrawStep, BuiltTypes
<1> QED
  BY <1>0, <1>1, <1>2 DEF Subscribe

LEMMA LinkStep ==
  ASSUME NewsletterInv, NEW v \in Visitors, Confirm(v) \/ Unsubscribe(v)
  PROVE  NewsletterInv' /\ UNCHANGED subscribers
<1>0. /\ NewsletterTypeOK
      /\ UNCHANGED <<hour, subscribers, drawn, mailed, welcomed, stops>>
  BY DEF NewsletterInv, Confirm, Unsubscribe
<1>1. PICK i \in Ids, copy \in SubscriberRow :
        /\ Goes(v, "update", i, copy) /\ ~copy.open
        /\ CanMove(subscribers[i].status, copy.status)
  <2>1. \A i \in Ids : subscribers[i] \in SubscriberRow
    BY <1>0 DEF NewsletterTypeOK
  <2>2. CASE Confirm(v)
    BY <1>0, <2>1, <2>2, BuiltTypes DEF Confirm, NewsletterTypeOK
  <2>3. CASE Unsubscribe(v)
    BY <1>0, <2>1, <2>3, BuiltTypes DEF Unsubscribe, NewsletterTypeOK
  <2> QED
    BY <2>2, <2>3
<1>2. /\ visit' \in [Visitors -> Visit]
      /\ visit'[v].step = "update" /\ visit'[v].id = i /\ visit'[v].copy = copy
      /\ \A u \in Visitors \ {v} : visit'[u] = visit[u]
  BY <1>0, <1>1, GoesEffect
<1>3. NewsletterTypeOK'
  BY <1>0, <1>2 DEF NewsletterTypeOK
<1> QED
  BY <1>0, <1>1, <1>2, <1>3, ReadStep

\* The mails, and a handler that stops.
LEMMA EndStep ==
  ASSUME NewsletterInv, NEW v \in Visitors, MailLink(v) \/ MailWelcome(v) \/ Stop(v)
  PROVE  NewsletterInv' /\ UNCHANGED subscribers
<1>0. NewsletterTypeOK /\ UNCHANGED <<hour, subscribers, drawn>> /\ Ends(v)
  BY DEF NewsletterInv, MailLink, MailWelcome, Stop
<1>1. /\ visit' \in [Visitors -> Visit] /\ visit'[v].step = "idle"
      /\ \A u \in Visitors \ {v} : visit'[u] = visit[u]
  BY <1>0, EndsEffect
<1>2. visit[v].id \in Ids
  BY <1>0 DEF NewsletterTypeOK, Visit
<1>3. /\ mailed' \subseteq mailed \cup {i \in Ids : i = visit[v].id /\ visit[v].step = "mail"}
      /\ welcomed' \subseteq Ids /\ stops' \in 0..MaxStops
  BY <1>0, <1>2, NewsletterAssumption DEF MailLink, MailWelcome, Stop, NewsletterTypeOK
<1>4. NewsletterTypeOK'
  BY <1>0, <1>1, <1>3 DEF NewsletterTypeOK
<1> QED
  BY <1>0, <1>1, <1>3, <1>4, QuietStep

LEMMA DeleteStep ==
  ASSUME NewsletterInv, NEW v \in Visitors, DeleteSubscriber(v)
  PROVE  NewsletterInv' /\ OptInStep /\ SingleUseStep
<1>0. NewsletterTypeOK /\ UNCHANGED <<hour, drawn, mailed, welcomed, stops>>
  BY DEF NewsletterInv, DeleteSubscriber
<1>1. PICK i \in Ids :
        /\ subscribers[i].status # "none"
        /\ subscribers' = [subscribers EXCEPT ![i] = NoSubscriber]
        /\ WroteThen(v, i, NoVisit)
  BY DEF DeleteSubscriber
<1>2. /\ subscribers' \in [Ids -> SubscriberRow] /\ subscribers'[i] = NoSubscriber
      /\ \A k \in Ids \ {i} : subscribers'[k] = subscribers[k]
  BY <1>0, <1>1, NoSubscriberType DEF NewsletterTypeOK
<1>3. /\ visit' \in [Visitors -> Visit] /\ visit'[v].step = "idle"
      /\ \A u \in Visitors \ {v} :
           /\ visit'[u].step = visit[u].step /\ visit'[u].id = visit[u].id
           /\ visit'[u].copy = visit[u].copy
           /\ visit[u].step = "update" /\ visit[u].id = i => visit'[u].stale
           /\ visit[u].id # i => visit'[u] = visit[u]
  BY <1>0, <1>1, NoVisitType, WroteThenEffect
<1>4. NewsletterTypeOK'
  BY <1>0, <1>2, <1>3 DEF NewsletterTypeOK
<1>5. OneRowPerAddress'
  BY <1>2, NoSubscriberType DEF NewsletterInv, OneRowPerAddress
<1>6. \A u \in Visitors : visit[u].step = "insert" => visit[u].id # i
  BY <1>1 DEF NewsletterInv, InsertInv
<1>7. NewsletterInv'
  BY <1>0, <1>2, <1>3, <1>4, <1>5, <1>6, NoSubscriberType, WriteStep
<1>8. OptInStep /\ SingleUseStep
  BY <1>2, NoSubscriberType DEF OptInStep, SingleUseStep, NewsletterInv, OpenInv
<1> QED
  BY <1>7, <1>8

LEMMA NewsletterStep ==
  ASSUME NewsletterInv, [NewsletterNext]_newsletterVars
  PROVE  NewsletterInv' /\ OptInStep /\ SingleUseStep
<1>1. ASSUME UNCHANGED <<subscribers, drawn, visit, mailed, welcomed, stops>>, hour' \in 0..MaxHour
      PROVE  NewsletterInv'
  BY <1>1 DEF NewsletterInv, NewsletterTypeOK, DrawnInv, OpenInv, OneRowPerAddress, InsertInv, UpdateInv
<1>2. CASE NextHour
  <2>1. hour' \in 0..MaxHour
    BY <1>2, NewsletterAssumption DEF NextHour, NewsletterInv, NewsletterTypeOK
  <2> QED
    BY <1>1, <1>2, <2>1, RowsKept DEF NextHour
<1>3. CASE UNCHANGED newsletterVars
  BY <1>1, <1>3, RowsKept DEF newsletterVars, NewsletterInv, NewsletterTypeOK
<1>4. ASSUME NEW v \in Visitors, VisitorNext(v) PROVE NewsletterInv' /\ OptInStep /\ SingleUseStep
  <2>1. CASE Insert(v) \/ UpdateRow(v)
    BY <2>1, SaveStep
  <2>2. CASE DeleteSubscriber(v)
    BY <2>2, DeleteStep
  <2>3. CASE \E email \in Emails : Subscribe(v, email)
    BY <2>3, SubscribeStep, RowsKept
  <2>4. CASE Confirm(v) \/ Unsubscribe(v)
    BY <2>4, LinkStep, RowsKept
  <2>5. CASE MailLink(v) \/ MailWelcome(v) \/ Stop(v)
    BY <2>5, EndStep, RowsKept
  <2> QED
    BY <1>4, <2>1, <2>2, <2>3, <2>4, <2>5 DEF VisitorNext, Continue
<1> QED
  BY <1>2, <1>3, <1>4 DEF NewsletterNext

LEMMA NewsletterInitial ==
  ASSUME NewsletterInit PROVE NewsletterInv
<1>1. NewsletterTypeOK
  BY NoSubscriberType, NoVisitType, NewsletterAssumption DEF NewsletterInit, NewsletterTypeOK
<1> QED
  BY <1>1, NoSubscriberType, NoVisitType
     DEF NewsletterInit, NewsletterInv, DrawnInv, OpenInv, OneRowPerAddress, InsertInv, UpdateInv

-----------------------------------------------------------------------------
(* The theorem. *)

\* The invariant holds in all behaviours.
LEMMA NewsletterInvHolds == NewsletterSpec => []NewsletterInv
<1>1. NewsletterInit => NewsletterInv
  BY NewsletterInitial
<1>2. NewsletterInv /\ [NewsletterNext]_newsletterVars => NewsletterInv'
  BY NewsletterStep
<1> QED
  BY <1>1, <1>2, PTL DEF NewsletterSpec

\* NewsletterComponent keeps consent: an address has one row however many
\* requests found none, a status moves as the double opt-in says unless a stale
\* copy is written, and a confirmation link works once whatever is written.
THEOREM ConsentTheorem == NewsletterSpec => ConsentKept
<1>1. NewsletterInv => OneRowPerAddress
  BY DEF NewsletterInv
<1>2. NewsletterSpec => [][OptInStep]_newsletterVars
  BY NewsletterStep, NewsletterInvHolds, PTL DEF NewsletterSpec
<1>3. NewsletterSpec => [][SingleUseStep]_newsletterVars
  BY NewsletterStep, NewsletterInvHolds, PTL DEF NewsletterSpec
<1>4. NewsletterSpec => DoubleOptIn
  BY <1>2 DEF DoubleOptIn, OptInStep
<1>5. NewsletterSpec => SingleUse
  BY <1>3 DEF SingleUse, SingleUseStep
<1>6. NewsletterSpec => []OneRowPerAddress
  BY <1>1, NewsletterInvHolds, PTL
<1> QED
  BY <1>4, <1>5, <1>6 DEF ConsentKept

-----------------------------------------------------------------------------
(***************************************************************************)
(* RateLimits: any number of threads, limit and window.                    *)
(***************************************************************************)
TimesOf(times) == IsFiniteSet(times) /\ \A a \in times : a[1] \in Nat /\ a[1] <= tick

Calls == [step: {"idle", "store", "count", "record"}, pruned: SUBSET admitted.subscribe]
Inside == {c \in Callers : call[c].step # "idle"}

RateShape ==
  /\ tick \in Nat
  /\ admitted = [login |-> admitted.login, subscribe |-> admitted.subscribe]
  /\ TimesOf(admitted.login) /\ TimesOf(admitted.subscribe)
  /\ history \subseteq admitted.login /\ attempts \subseteq admitted.subscribe
  /\ call \in [Callers -> Calls]
  /\ overlapped \in BOOLEAN

\* The list of the logins has all that still counts.
LoginInv ==
  /\ Recent(admitted.login) \subseteq history
  /\ Within(admitted.login)

\* One thread at a time: the list it works with has all that still counts, and who is
\* to record was let in by a list below the limit.
SubscribeInv ==
  ~overlapped =>
    /\ \A c, d \in Inside : c = d
    /\ \A c \in Callers : call[c].step = "store" => Recent(admitted.subscribe) \subseteq call[c].pruned
    /\ (\A c \in Callers : call[c].step # "store") => Recent(admitted.subscribe) \subseteq attempts
    /\ \A c \in Callers : call[c].step = "record" => Cardinality(attempts) < Limit
    /\ Within(admitted.subscribe)

RateInv == RateShape /\ LoginInv /\ SubscribeInv

LEMMA RateConstants == Limit \in Nat \ {0} /\ Window \in Nat \ {0} /\ MaxTick \in Nat
BY RateLimitAssumption

\* An attempt may be let in when what counts against it is known and below the limit.
LEMMA AttemptFits ==
  ASSUME NEW let, Within(let), NEW known, IsFiniteSet(known), tick \in Nat,
         \A a \in let : a[1] \in Nat,
         Recent(let) \subseteq known, Cardinality(known) < Limit, NEW n
  PROVE  Within(let \cup {<<tick, n>>})
<1> DEFINE new == <<tick, n>>
<1> SUFFICES ASSUME NEW t \in Ticks
             PROVE  Cardinality({a \in let \cup {new} : t - Window < a[1] /\ a[1] <= t}) <= Limit
  BY DEF Within
<1>1. t \in Nat /\ new[1] = tick
  BY RateConstants DEF Ticks
<1> HIDE DEF new
<1>2. CASE t < tick
  <2>1. {a \in let \cup {new} : t - Window < a[1] /\ a[1] <= t} = {a \in let : t - Window < a[1] /\ a[1] <= t}
    BY <1>1, <1>2
  <2> QED
    BY <2>1 DEF Within
<1>3. CASE t >= tick
  <2>1. {a \in let \cup {new} : t - Window < a[1] /\ a[1] <= t} \subseteq known \cup {new}
    BY <1>1, <1>3, RateConstants DEF Recent
  <2>2. IsFiniteSet(known \cup {new}) /\ Cardinality(known) \in Nat
    BY FS_AddElement, FS_CardinalityType
  <2>3. Cardinality(known \cup {new}) = IF new \in known THEN Cardinality(known) ELSE Cardinality(known) + 1
    BY FS_AddElement
  <2>4. Cardinality(known \cup {new}) <= Limit
    BY <2>2, <2>3, RateConstants
  <2>5. /\ Cardinality({a \in let \cup {new} : t - Window < a[1] /\ a[1] <= t}) \in Nat
        /\ Cardinality(known \cup {new}) \in Nat
        /\ Cardinality({a \in let \cup {new} : t - Window < a[1] /\ a[1] <= t}) <= Cardinality(known \cup {new})
    BY <2>1, <2>2, SubsetCount
  <2> QED
    BY <2>4, <2>5, RateConstants
<1> QED
  BY <1>1, <1>2, <1>3

LEMMA AllowRequestStep ==
  ASSUME RateInv, AllowRequest
  PROVE  RateInv'
<1> DEFINE attempt == <<tick, NextNumber(admitted.login)>>
           let == admitted.login
<1>1. UNCHANGED <<tick, attempts, call, overlapped>>
  BY DEF AllowRequest
<1>2. \/ /\ history' = Recent(history) /\ admitted' = admitted
      \/ /\ Cardinality(Recent(history)) < Limit
         /\ history' = Recent(history) \cup {attempt}
         /\ admitted' = [admitted EXCEPT !.login = @ \cup {attempt}]
  BY DEF AllowRequest
<1>3. /\ tick \in Nat /\ TimesOf(let) /\ history \subseteq let /\ Recent(let) \subseteq history /\ Within(let)
      /\ admitted = [login |-> let, subscribe |-> admitted.subscribe]
  BY DEF RateInv, RateShape, LoginInv
<1>4. Recent(history) \subseteq let /\ Recent(let) \subseteq Recent(history) /\ IsFiniteSet(Recent(history))
  <2>1. Recent(history) \subseteq let /\ Recent(let) \subseteq Recent(history)
    BY <1>3 DEF Recent
  <2> QED
    BY <2>1, <1>3, FS_Subset DEF TimesOf
<1>5. ASSUME NEW new, admitted' = [admitted EXCEPT !.login = new]
      PROVE  admitted'.login = new /\ admitted'.subscribe = admitted.subscribe
             /\ admitted' = [login |-> new, subscribe |-> admitted.subscribe]
  BY <1>3, <1>5
<1>6. CASE history' = Recent(history) /\ admitted' = admitted
  <2>1. RateShape'
    BY <1>1, <1>3, <1>4, <1>6 DEF RateInv, RateShape, TimesOf, Calls
  <2>2. LoginInv'
    BY <1>1, <1>3, <1>4, <1>6 DEF LoginInv, Recent, Within
  <2>3. SubscribeInv'
    BY <1>1, <1>6 DEF RateInv, SubscribeInv, Inside, Recent, Within
  <2> QED
    BY <2>1, <2>2, <2>3 DEF RateInv
<1>7. CASE /\ Cardinality(Recent(history)) < Limit
           /\ history' = Recent(history) \cup {attempt}
           /\ admitted' = [admitted EXCEPT !.login = @ \cup {attempt}]
  <2>1. /\ admitted'.login = let \cup {attempt} /\ admitted'.subscribe = admitted.subscribe
        /\ admitted' = [login |-> let \cup {attempt}, subscribe |-> admitted.subscribe]
    BY <1>5, <1>7
  <2>2. Within(let \cup {attempt})
    BY <1>3, <1>4, <1>7, AttemptFits DEF TimesOf
  <2>3. attempt[1] = tick
    OBVIOUS
  <2>4. IsFiniteSet(let \cup {attempt})
    BY <1>3, FS_AddElement DEF TimesOf
  <2> HIDE DEF attempt
  <2>5. TimesOf(let \cup {attempt})
    BY <1>3, <2>3, <2>4 DEF TimesOf
  <2>6. RateShape'
    BY <1>1, <1>3, <1>4, <1>7, <2>1, <2>5 DEF RateInv, RateShape, TimesOf, Calls
  <2>7. LoginInv'
    <3>1. Recent(let \cup {attempt}) \subseteq Recent(history) \cup {attempt}
      BY <1>4 DEF Recent
    <3> QED
      BY <3>1, <1>1, <1>7, <2>1, <2>2 DEF LoginInv, Recent, Within
  <2>8. SubscribeInv'
    BY <1>1, <2>1 DEF RateInv, SubscribeInv, Inside, Recent, Within
  <2> QED
    BY <2>6, <2>7, <2>8 DEF RateInv
<1> QED
  BY <1>2, <1>6, <1>7

\* Steps of a thread in the limiter of the newsletter leave the logins alone.
LEMMA LoginsAlone ==
  ASSUME RateInv, admitted'.login = admitted.login, UNCHANGED <<tick, history>>
  PROVE  LoginInv'
BY DEF RateInv, LoginInv, Recent, Within

LEMMA PruneStep ==
  ASSUME RateInv, NEW c \in Callers, Prune(c)
  PROVE  RateInv'
<1>1. /\ call[c].step = "idle"
      /\ call' = [call EXCEPT ![c] = [step |-> "store", pruned |-> Recent(attempts)]]
      /\ overlapped' = (overlapped \/ \E d \in Callers : call[d].step # "idle")
      /\ UNCHANGED <<tick, history, attempts, admitted>>
  BY DEF Prune
<1> DEFINE new == [step |-> "store", pruned |-> Recent(attempts)]
<1>2. new \in Calls
  BY DEF Calls, Recent, RateInv, RateShape
<1>3. new.step = "store" /\ new.pruned = Recent(attempts)
  OBVIOUS
<1> HIDE DEF new
<1>4. \A d \in Callers : call'[d] = IF d = c THEN new ELSE call[d]
  BY <1>1 DEF RateInv, RateShape, new
<1>5. RateShape'
  <2>1. call' \in [Callers -> Calls]
    BY <1>1, <1>2 DEF RateInv, RateShape, new
  <2>2. overlapped' \in BOOLEAN
    BY <1>1 DEF RateInv, RateShape
  <2> QED
    BY <1>1, <2>1, <2>2 DEF RateInv, RateShape, TimesOf, Calls
<1>6. LoginInv'
  BY <1>1, LoginsAlone
<1>7. SubscribeInv'
  <2> SUFFICES ASSUME ~overlapped'
               PROVE  /\ \A a, b \in Inside' : a = b
                      /\ \A d \in Callers : call'[d].step = "store" => Recent(admitted.subscribe)' \subseteq call'[d].pruned
                      /\ (\A d \in Callers : call'[d].step # "store") => Recent(admitted.subscribe)' \subseteq attempts'
                      /\ \A d \in Callers : call'[d].step = "record" => Cardinality(attempts') < Limit
                      /\ Within(admitted.subscribe)'
    BY DEF SubscribeInv
  <2>1. ~overlapped /\ \A d \in Callers : call[d].step = "idle"
    BY <1>1 DEF RateInv, RateShape
  <2>2. Recent(admitted.subscribe) \subseteq attempts /\ Within(admitted.subscribe)
    BY <2>1 DEF RateInv, SubscribeInv
  <2>3. Recent(admitted.subscribe) \subseteq Recent(attempts)
    BY <2>2 DEF Recent
  <2>4. Recent(admitted.subscribe)' = Recent(admitted.subscribe) /\ Within(admitted.subscribe)'
    BY <1>1, <2>2 DEF Recent, Within
  <2>5. \A a, b \in Inside' : a = b
    BY <1>4, <2>1 DEF Inside
  <2> QED
    BY <1>3, <1>4, <2>1, <2>3, <2>4, <2>5
<1> QED
  BY <1>5, <1>6, <1>7 DEF RateInv

LEMMA StorePrunedStep ==
  ASSUME RateInv, NEW c \in Callers, StorePruned(c)
  PROVE  RateInv'
<1> DEFINE new == [step |-> "count", pruned |-> {}]
<1>1. /\ call[c].step = "store" /\ attempts' = call[c].pruned
      /\ call' = [call EXCEPT ![c] = new]
      /\ UNCHANGED <<tick, history, admitted, overlapped>>
  BY DEF StorePruned
<1>2. new \in Calls /\ new.step = "count"
  BY DEF Calls
<1> HIDE DEF new
<1>3. \A d \in Callers : call'[d] = IF d = c THEN new ELSE call[d]
  BY <1>1 DEF RateInv, RateShape
<1>4. RateShape'
  <2>1. call' \in [Callers -> Calls]
    BY <1>1, <1>2 DEF RateInv, RateShape
  <2>2. call[c].pruned \subseteq admitted.subscribe
    BY DEF RateInv, RateShape, Calls
  <2> QED
    BY <1>1, <2>1, <2>2 DEF RateInv, RateShape, TimesOf, Calls
<1>5. LoginInv'
  BY <1>1, LoginsAlone
<1>6. SubscribeInv'
  <2> SUFFICES ASSUME ~overlapped'
               PROVE  /\ \A a, b \in Inside' : a = b
                      /\ \A d \in Callers : call'[d].step = "store" => Recent(admitted.subscribe)' \subseteq call'[d].pruned
                      /\ (\A d \in Callers : call'[d].step # "store") => Recent(admitted.subscribe)' \subseteq attempts'
                      /\ \A d \in Callers : call'[d].step = "record" => Cardinality(attempts') < Limit
                      /\ Within(admitted.subscribe)'
    BY DEF SubscribeInv
  <2>1. ~overlapped /\ \A d \in Callers : d # c => call[d].step = "idle"
    BY <1>1 DEF RateInv, RateShape, SubscribeInv, Inside
  <2>2. Recent(admitted.subscribe) \subseteq call[c].pruned /\ Within(admitted.subscribe)
    BY <1>1, <2>1 DEF RateInv, SubscribeInv
  <2>3. Recent(admitted.subscribe)' = Recent(admitted.subscribe) /\ Within(admitted.subscribe)'
    BY <1>1, <2>2 DEF Recent, Within
  <2>4. \A a, b \in Inside' : a = b
    BY <1>3, <2>1 DEF Inside
  <2> QED
    BY <1>1, <1>2, <1>3, <2>1, <2>2, <2>3, <2>4
<1> QED
  BY <1>4, <1>5, <1>6 DEF RateInv

LEMMA CountAttemptsStep ==
  ASSUME RateInv, NEW c \in Callers, CountAttempts(c)
  PROVE  RateInv'
<1>1. /\ call[c].step = "count"
      /\ call' = [call EXCEPT ![c].step = IF Cardinality(attempts) < Limit THEN "record" ELSE "idle"]
      /\ UNCHANGED <<tick, history, attempts, admitted, overlapped>>
  BY DEF CountAttempts
<1>2. /\ call' \in [Callers -> Calls]
      /\ \A d \in Callers : d # c => call'[d] = call[d]
      /\ call'[c].step = (IF Cardinality(attempts) < Limit THEN "record" ELSE "idle")
  BY <1>1 DEF RateInv, RateShape, Calls
<1>3. RateShape'
  BY <1>1, <1>2 DEF RateInv, RateShape, TimesOf, Calls
<1>4. LoginInv'
  BY <1>1, LoginsAlone
<1>5. SubscribeInv'
  <2> SUFFICES ASSUME ~overlapped'
               PROVE  /\ \A a, b \in Inside' : a = b
                      /\ \A d \in Callers : call'[d].step = "store" => Recent(admitted.subscribe)' \subseteq call'[d].pruned
                      /\ (\A d \in Callers : call'[d].step # "store") => Recent(admitted.subscribe)' \subseteq attempts'
                      /\ \A d \in Callers : call'[d].step = "record" => Cardinality(attempts') < Limit
                      /\ Within(admitted.subscribe)'
    BY DEF SubscribeInv
  <2>1. ~overlapped /\ \A d \in Callers : d # c => call[d].step = "idle"
    BY <1>1 DEF RateInv, RateShape, SubscribeInv, Inside
  <2>2. Recent(admitted.subscribe) \subseteq attempts /\ Within(admitted.subscribe)
    BY <1>1, <2>1 DEF RateInv, SubscribeInv
  <2>3. Recent(admitted.subscribe)' = Recent(admitted.subscribe) /\ Within(admitted.subscribe)'
    BY <1>1, <2>2 DEF Recent, Within
  <2>4. \A a, b \in Inside' : a = b
    BY <1>2, <2>1 DEF Inside
  <2> QED
    BY <1>1, <1>2, <2>1, <2>2, <2>3, <2>4
<1> QED
  BY <1>3, <1>4, <1>5 DEF RateInv

LEMMA RecordAttemptStep ==
  ASSUME RateInv, NEW c \in Callers, RecordAttempt(c)
  PROVE  RateInv'
<1> DEFINE attempt == <<tick, NextNumber(admitted.subscribe)>>
           let == admitted.subscribe
<1>1. /\ call[c].step = "record" /\ attempts' = attempts \cup {attempt}
      /\ admitted' = [admitted EXCEPT !.subscribe = @ \cup {attempt}]
      /\ call' = [call EXCEPT ![c].step = "idle"]
      /\ UNCHANGED <<tick, history, overlapped>>
  BY DEF RecordAttempt
<1>2. /\ tick \in Nat /\ TimesOf(let) /\ attempts \subseteq let /\ attempt[1] = tick
      /\ admitted = [login |-> admitted.login, subscribe |-> let]
  BY DEF RateInv, RateShape
<1>3. /\ admitted'.login = admitted.login /\ admitted'.subscribe = let \cup {attempt}
      /\ admitted' = [login |-> admitted.login, subscribe |-> let \cup {attempt}]
  BY <1>1, <1>2
<1>4. /\ \A d \in Callers : d # c => call'[d] = call[d]
      /\ call'[c].step = "idle"
      /\ \A d \in Callers : call'[d] = [step |-> call'[d].step, pruned |-> call[d].pruned]
      /\ call' \in [Callers -> [step: {"idle", "store", "count", "record"}, pruned: SUBSET let]]
  BY <1>1 DEF RateInv, RateShape, Calls
<1>5. IsFiniteSet(let \cup {attempt})
  BY <1>2, FS_AddElement DEF TimesOf
<1> HIDE DEF attempt
<1>6. TimesOf(let \cup {attempt})
  BY <1>2, <1>5 DEF TimesOf
<1>7. RateShape'
  <2>1. call' \in [Callers -> [step: {"idle", "store", "count", "record"}, pruned: SUBSET (let \cup {attempt})]]
    BY <1>4
  <2> QED
    BY <1>1, <1>2, <1>3, <1>6, <2>1 DEF RateInv, RateShape, TimesOf, Calls
<1>8. LoginInv'
  BY <1>1, <1>3, LoginsAlone
<1>9. SubscribeInv'
  <2> SUFFICES ASSUME ~overlapped'
               PROVE  /\ \A a, b \in Inside' : a = b
                      /\ \A d \in Callers : call'[d].step = "store" => Recent(admitted.subscribe)' \subseteq call'[d].pruned
                      /\ (\A d \in Callers : call'[d].step # "store") => Recent(admitted.subscribe)' \subseteq attempts'
                      /\ \A d \in Callers : call'[d].step = "record" => Cardinality(attempts') < Limit
                      /\ Within(admitted.subscribe)'
    BY DEF SubscribeInv
  <2>1. ~overlapped /\ \A d \in Callers : d # c => call[d].step = "idle"
    BY <1>1 DEF RateInv, RateShape, SubscribeInv, Inside
  <2>2. Recent(let) \subseteq attempts /\ Within(let) /\ Cardinality(attempts) < Limit
    BY <1>1, <2>1 DEF RateInv, SubscribeInv
  <2>3. IsFiniteSet(attempts)
    BY <1>2, FS_Subset DEF TimesOf
  <2>4. Within(let \cup {attempt})
    BY <1>2, <2>2, <2>3, AttemptFits DEF TimesOf, attempt
  <2>5. Recent(let \cup {attempt}) \subseteq attempts \cup {attempt}
    BY <2>2 DEF Recent
  <2>6. /\ Recent(admitted.subscribe)' = Recent(let \cup {attempt})
        /\ Within(admitted.subscribe)'
    BY <1>1, <1>3, <2>4 DEF Recent, Within
  <2>7. \A d \in Callers : call'[d].step = "idle"
    BY <1>4, <2>1
  <2> QED
    BY <1>1, <2>5, <2>6, <2>7 DEF Inside
<1> QED
  BY <1>7, <1>8, <1>9 DEF RateInv

\* No window lets more through than the limit allows, and no subscription that was not
\* attempted is counted, for every limit and window and whatever threads call.
THEOREM LimitTheorem == RateSpec => []LimitKept
<1>1. RateInit => RateInv
  <2> SUFFICES ASSUME RateInit
               PROVE  RateInv
    OBVIOUS
  <2>1. \A t \in Ticks : {a \in {} : t - Window < a[1] /\ a[1] <= t} = {}
    OBVIOUS
  <2>2. Within({})
    BY <2>1, FS_EmptySet, RateConstants DEF Within
  <2>3. RateShape
    BY FS_EmptySet DEF RateInit, RateShape, TimesOf, Calls
  <2> QED
    BY <2>2, <2>3 DEF RateInit, RateInv, LoginInv, SubscribeInv, Inside, Recent
<1>2. RateInv /\ [LoginNext \/ SubscribeNext]_rateVars => RateInv'
  <2> SUFFICES ASSUME RateInv, [LoginNext \/ SubscribeNext]_rateVars
               PROVE  RateInv'
    OBVIOUS
  <2>1. CASE NextTick
    <3>1. tick' = tick + 1 /\ UNCHANGED <<history, attempts, call, admitted, overlapped>> /\ tick \in Nat
      BY <2>1 DEF NextTick, RateInv, RateShape
    <3>2. RateShape'
      BY <3>1 DEF RateInv, RateShape, TimesOf, Calls
    <3>3. /\ Recent(admitted.login)' \subseteq Recent(admitted.login)
          /\ Recent(admitted.subscribe)' \subseteq Recent(admitted.subscribe)
      BY <3>1, RateConstants DEF RateInv, RateShape, TimesOf, Recent
    <3>4. Within(admitted.login)' = Within(admitted.login) /\ Within(admitted.subscribe)' = Within(admitted.subscribe)
      BY <3>1 DEF Within
    <3>5. LoginInv'
      BY <3>1, <3>3, <3>4 DEF RateInv, LoginInv
    <3>6. SubscribeInv'
      <4> HIDE DEF Recent, Within
      <4> QED
        BY <3>1, <3>3, <3>4 DEF RateInv, SubscribeInv, Inside
    <3> QED
      BY <3>2, <3>5, <3>6 DEF RateInv
  <2>2. CASE UNCHANGED rateVars
    BY <2>2 DEF rateVars, RateInv, RateShape, TimesOf, Calls, LoginInv, SubscribeInv, Inside, Recent, Within
  <2> QED
    BY <2>1, <2>2, AllowRequestStep, PruneStep, StorePrunedStep, CountAttemptsStep, RecordAttemptStep
       DEF LoginNext, SubscribeNext, SubscribeCall
<1>3. RateInv => LimitKept
  BY DEF RateInv, RateShape, LoginInv, SubscribeInv, LimitKept
<1> QED
  BY <1>1, <1>2, <1>3, PTL DEF RateSpec

-----------------------------------------------------------------------------
(***************************************************************************)
(* Assets with Backup: any number of uploads, threads and crashes.         *)
(***************************************************************************)
\* A version something points at: a row, a copied row, the repository, or an upload
\* that has written its files.
Steps == {"number", "count", "take", "store", "open", "data", "meta", "version", "point", "row"}
Pointing == {t \in 1..Uploaders : uploads[t].at \in {"version", "point", "row"}}
Writing == {t \in 1..Uploaders : uploads[t].at \in {"open", "data", "meta"}}
Numbered == {t \in 1..Uploaders : uploads[t].at \in {"store", "open", "data", "meta"}}
RowsPointing == ({rows[a] : a \in AssetIds} \cup {backup.rows[a] : a \in AssetIds}) \ {NoVersion, Pathless}
Settled == RowsPointing \cup versions \cup {Target(uploads[t]) : t \in Pointing}

FilePair == [data : Contents \cup {Nothing, Torn}, meta : Contents \cup {Nothing, Torn}]

\* An upload that has a number has one that names a key.
Held(u) ==
  /\ u.at \in Steps /\ u.asset \in AssetIds /\ u.content \in Contents /\ u.number \in 0..MaxVersion
  /\ u.at \notin {"number", "take"} => u.number \in 1..MaxVersion
  /\ u.at = "take" => counters[u.asset] \in 1..MaxVersion

StoreShape ==
  /\ rows \in [AssetIds -> Version \cup {NoVersion, Pathless}]
  /\ versions \subseteq Version
  /\ counters \in [AssetIds -> 0..MaxVersion]
  /\ files \in [Keys -> FilePair]
  /\ uploads = [t \in 1..Uploaders |-> uploads[t]]
  /\ \A t \in 1..Uploaders : uploads[t] = Idle \/ (uploads[t] \in Upload /\ Held(uploads[t]))
  /\ backup \in [at: {"none", "assets", "done"}, rows: [AssetIds -> Version \cup {NoVersion, Pathless}],
                 todo: SUBSET (Keys \X Kinds), archive: Archive]
  /\ shared \in BOOLEAN

\* What stands in the files of a key that is being written.
Unfinished(u) ==
  [data |-> IF u.at = "open" THEN Nothing ELSE IF u.at = "data" THEN Torn ELSE u.content,
   meta |-> Nothing]

\* What is pointed at is written, and nobody writes where something points or somebody
\* else has a number for.
SettledInv ==
  /\ \A v \in Settled : files[v.key] = [data |-> v.sha, meta |-> v.sha]
  /\ \A t \in Writing : files[Key(uploads[t])] = Unfinished(uploads[t])
  /\ \A t \in Writing : \A v \in Settled : v.key # Key(uploads[t])
  /\ \A t, o \in Numbered : Key(uploads[o]) = Key(uploads[t]) => o = t
  /\ \A k \in Keys : files[k].data = Nothing => files[k].meta = Nothing

\* Files of the copied rows are in the archive or still to be met.
ArchiveInv ==
  /\ backup.at = "none" => backup = NoBackup
  /\ backup.at = "done" => backup.todo = {}
  /\ \A a \in AssetIds :
       backup.rows[a] \in {NoVersion, Pathless} \/
         \A x \in Kinds :
           \/ backup.archive[backup.rows[a].key][x] = backup.rows[a].sha
           \/ backup.archive[backup.rows[a].key][x] = Nothing /\ <<backup.rows[a].key, x>> \in backup.todo

StorageInv == StoreShape /\ (~shared => SettledInv /\ ArchiveInv)

\* What the types ask besides: the pointers, and the bounds of the counters.
StoreBounds ==
  /\ latest \in [AssetIds -> Version \cup {NoVersion}]
  /\ begun \in 0..MaxUploads /\ crashes \in 0..MaxCrashes

LEMMA StoreConstants ==
  /\ Uploaders \in Nat /\ MaxVersion \in Nat
  /\ Nothing \notin Contents /\ Torn \notin Contents /\ Nothing # Torn
BY AssetAssumption DEF Nothing, Torn

LEMMA KeyIsKey ==
  ASSUME NEW u, u.asset \in AssetIds, u.number \in 1..MaxVersion
  PROVE  Key(u) \in Keys
BY DEF Key, Keys

LEMMA IdleIsIdle == Idle.at = "idle"
BY DEF Idle

\* Who is at a step has an upload.
LEMMA AtWork ==
  ASSUME StoreShape, NEW t \in 1..Uploaders, uploads[t].at # "idle"
  PROVE  uploads[t] \in Upload /\ Held(uploads[t])
BY IdleIsIdle DEF StoreShape

LEMMA SettledVersions ==
  ASSUME StoreShape
  PROVE  Settled \subseteq Version
<1>1. RowsPointing \subseteq Version
  BY DEF RowsPointing, StoreShape
<1>2. ASSUME NEW t \in Pointing
      PROVE  Target(uploads[t]) \in Version
  <2>1. uploads[t].at \in {"version", "point", "row"} /\ t \in 1..Uploaders
    BY DEF Pointing
  <2>2. Held(uploads[t])
    BY <2>1, AtWork
  <2>3. uploads[t].number \in 1..MaxVersion /\ uploads[t].asset \in AssetIds /\ uploads[t].content \in Contents
    BY <2>1, <2>2 DEF Held
  <2> QED
    BY <2>3, KeyIsKey DEF Target, Version
<1>3. versions \subseteq Version
  BY DEF StoreShape
<1> QED
  BY <1>1, <1>2, <1>3 DEF Settled

LEMMA NumberedKeys ==
  ASSUME StoreShape, NEW t \in Numbered
  PROVE  /\ Key(uploads[t]) \in Keys /\ uploads[t].content \in Contents
         /\ uploads[t] \in Upload /\ Held(uploads[t]) /\ t \in 1..Uploaders
<1>1. t \in 1..Uploaders /\ uploads[t].at \in {"store", "open", "data", "meta"}
  BY DEF Numbered
<1>2. uploads[t] \in Upload /\ Held(uploads[t])
  BY <1>1, AtWork
<1> QED
  BY <1>1, <1>2, KeyIsKey DEF Held

\* A step of one upload keeps the invariant when it touches no file that something
\* points at or that another upload writes.
LEMMA StepKeeps ==
  ASSUME StoreShape, SettledInv, NEW t \in 1..Uploaders, NEW u,
         uploads' = [uploads EXCEPT ![t] = u],
         \A v \in Settled : files'[v.key] = files[v.key],
         \A o \in Writing \ {t} : files'[Key(uploads[o])] = files[Key(uploads[o])],
         \A k \in Keys : files'[k].data = Nothing => files'[k].meta = Nothing,
         \A v \in Settled' : v \in Settled \/
            /\ files'[v.key] = [data |-> v.sha, meta |-> v.sha]
            /\ \A o \in Writing \ {t} : v.key # Key(uploads[o]),
         u.at \in {"open", "data", "meta"} =>
            /\ files'[Key(u)] = Unfinished(u)
            /\ \A v \in Settled' : v.key # Key(u),
         u.at \in {"store", "open", "data", "meta"} =>
            \A o \in Numbered \ {t} : Key(uploads[o]) # Key(u)
  PROVE  SettledInv'
<1>1. /\ uploads'[t] = u /\ \A o \in 1..Uploaders : o # t => uploads'[o] = uploads[o]
  BY DEF StoreShape
<1>2. /\ \A o \in Writing' : o # t => o \in Writing /\ uploads'[o] = uploads[o]
      /\ t \in Writing' => u.at \in {"open", "data", "meta"}
  BY <1>1 DEF Writing
<1>3. /\ \A o \in Numbered' : o # t => o \in Numbered /\ uploads'[o] = uploads[o]
      /\ t \in Numbered' => u.at \in {"store", "open", "data", "meta"}
  BY <1>1 DEF Numbered
<1>4. \A v \in Settled' : files'[v.key] = [data |-> v.sha, meta |-> v.sha]
  BY DEF SettledInv
<1>5. \A o \in Writing' : files'[Key(uploads'[o])] = Unfinished(uploads'[o])
  BY <1>1, <1>2 DEF SettledInv
<1>6. ASSUME NEW o \in Writing', NEW v \in Settled'
      PROVE  v.key # Key(uploads'[o])
  <2>1. CASE o = t
    BY <2>1, <1>1, <1>2
  <2>2. CASE o # t /\ v \in Settled
    BY <2>2, <1>2 DEF SettledInv
  <2>3. CASE o # t /\ v \notin Settled
    <3>1. o \in Writing \ {t} /\ uploads'[o] = uploads[o]
      BY <2>3, <1>2
    <3>2. \A q \in Writing \ {t} : v.key # Key(uploads[q])
      BY <2>3
    <3> QED
      BY <3>1, <3>2
  <2> QED
    BY <2>1, <2>2, <2>3
<1>7. \A a, o \in Numbered' : Key(uploads'[o]) = Key(uploads'[a]) => o = a
  BY <1>1, <1>3 DEF SettledInv
<1>8. \A x : Key(x)' = Key(x) /\ Unfinished(x)' = Unfinished(x)
  BY DEF Key, Unfinished
<1> QED
  BY <1>4, <1>5, <1>6, <1>7 DEF SettledInv, Key, Unfinished

\* The shape of the store after a step of one upload that leaves the rest alone.
LEMMA ShapeKeeps ==
  ASSUME StoreShape, NEW t \in 1..Uploaders, NEW u,
         uploads' = [uploads EXCEPT ![t] = u],
         u = Idle \/ (u \in Upload /\ Held(u)'),
         rows' \in [AssetIds -> Version \cup {NoVersion, Pathless}],
         versions' \subseteq Version, files' \in [Keys -> FilePair], shared' \in BOOLEAN,
         backup' = backup, counters' = counters
  PROVE  StoreShape'
<1>1. uploads' = [o \in 1..Uploaders |-> uploads'[o]]
  BY DEF StoreShape
<1>2. uploads'[t] = u /\ \A o \in 1..Uploaders : o # t => uploads'[o] = uploads[o]
  BY DEF StoreShape
<1>3. \A o \in 1..Uploaders : o # t => uploads'[o] = Idle \/ (uploads'[o] \in Upload /\ Held(uploads[o]))
  BY <1>2 DEF StoreShape
<1>4. \A x : Held(x)' = Held(x)
  BY DEF Held
<1>5. (\A o \in 1..Uploaders : uploads[o] = Idle \/ (uploads[o] \in Upload /\ Held(uploads[o])))'
  BY <1>2, <1>3, <1>4 DEF Held
<1> QED
  BY <1>1, <1>5 DEF StoreShape

\* What points at versions after such a step.
LEMMA SettledAfter ==
  ASSUME StoreShape, NEW t \in 1..Uploaders, NEW u, uploads' = [uploads EXCEPT ![t] = u],
         NEW v \in Settled'
  PROVE  \/ v \in RowsPointing' \/ v \in versions'
         \/ v \in Settled
         \/ v = Target(u) /\ u.at \in {"version", "point", "row"}
<1>1. /\ uploads'[t] = u /\ \A o \in 1..Uploaders : o # t => uploads'[o] = uploads[o]
  BY DEF StoreShape
<1>2. ASSUME NEW o \in Pointing'
      PROVE  (o \in Pointing /\ o # t) \/ (o = t /\ u.at \in {"version", "point", "row"})
  BY <1>1 DEF Pointing
<1> QED
  BY <1>1, <1>2 DEF Settled, Target, Key, Pointing

\* A request thread that goes on has the same upload, at its next step.
LEMMA GoesWith ==
  ASSUME StoreShape, NEW t \in 1..Uploaders, uploads[t] \in Upload, NEW step \in Steps,
         NEW n \in 0..MaxVersion, GoWith(t, step, n)
  PROVE  \E u \in Upload :
           /\ uploads' = [uploads EXCEPT ![t] = u]
           /\ u.at = step /\ u.asset = uploads[t].asset /\ u.content = uploads[t].content
           /\ u.number = n
<1> DEFINE u == [at |-> step, asset |-> uploads[t].asset, content |-> uploads[t].content,
                 number |-> n]
<1>1. u \in Upload
  BY DEF Upload, Steps
<1>2. uploads' = [uploads EXCEPT ![t] = u]
  BY DEF GoWith
<1> QED
  BY <1>1, <1>2

LEMMA GoesOn ==
  ASSUME StoreShape, NEW t \in 1..Uploaders, uploads[t] \in Upload, NEW step \in Steps, Go(t, step)
  PROVE  \E u \in Upload :
           /\ uploads' = [uploads EXCEPT ![t] = u]
           /\ u.at = step /\ u.asset = uploads[t].asset /\ u.content = uploads[t].content
           /\ u.number = uploads[t].number
           /\ Key(u) = Key(uploads[t]) /\ Target(u) = Target(uploads[t])
<1>1. uploads[t].number \in 0..MaxVersion
  BY DEF Upload
<1>2. GoWith(t, step, uploads[t].number)
  BY DEF Go
<1>3. PICK u \in Upload :
           /\ uploads' = [uploads EXCEPT ![t] = u]
           /\ u.at = step /\ u.asset = uploads[t].asset /\ u.content = uploads[t].content
           /\ u.number = uploads[t].number
  BY <1>1, <1>2, GoesWith
<1>4. Key(u) = Key(uploads[t]) /\ Target(u) = Target(uploads[t])
  BY <1>3 DEF Key, Target
<1> QED
  BY <1>3, <1>4

\* A step that writes no file and points at nothing new.
LEMMA QuietUpload ==
  ASSUME StoreShape, SettledInv, NEW t \in 1..Uploaders, NEW u,
         uploads' = [uploads EXCEPT ![t] = u], files' = files, backup' = backup,
         \A v \in RowsPointing' : v \in Settled, \A v \in versions' : v \in Settled,
         u.at \in {"version", "point", "row"} => Target(u) \in Settled,
         u.at \notin {"store", "open", "data", "meta"}
  PROVE  SettledInv'
<1>1. \A v \in Settled' : v \in Settled
  BY SettledAfter
<1>2. \A k \in Keys : files'[k].data = Nothing => files'[k].meta = Nothing
  BY DEF SettledInv
<1>3. u.at \notin {"open", "data", "meta"}
  OBVIOUS
<1> QED
  BY <1>1, <1>2, <1>3, StepKeeps

LEMMA RowsStay ==
  ASSUME rows' = rows, backup' = backup
  PROVE  RowsPointing' = RowsPointing
BY DEF RowsPointing

LEMMA BeginKeeps ==
  ASSUME StoreShape, NEW t \in 1..Uploaders, NEW a \in AssetIds, NEW c \in Contents, NEW new \in BOOLEAN,
         BeginUpload(t, a, c, new), backup' = backup
  PROVE  StoreShape' /\ (SettledInv => SettledInv')
<1> DEFINE u == [at |-> "number", asset |-> a, content |-> c, number |-> 0]
<1>1. uploads' = [uploads EXCEPT ![t] = u] /\ versions' = versions /\ files' = files
      /\ counters' = counters /\ shared' = shared
  BY DEF BeginUpload
<1>2. 0 \in 0..MaxVersion
  BY StoreConstants
<1>3. u.at = "number" /\ u \in Upload /\ Held(u)'
  BY <1>2 DEF Upload, Held, Steps
<1>4. rows' = rows \/ rows' = [rows EXCEPT ![a] = Pathless]
  BY DEF BeginUpload
<1>5. rows' \in [AssetIds -> Version \cup {NoVersion, Pathless}]
  BY <1>4 DEF StoreShape
<1>6. \A v \in RowsPointing' : v \in RowsPointing
  BY <1>4 DEF RowsPointing, StoreShape
<1>7. versions' \subseteq Version /\ files' \in [Keys -> FilePair] /\ shared' \in BOOLEAN
  BY <1>1 DEF StoreShape
<1> HIDE DEF u
<1>8. StoreShape'
  BY <1>1, <1>3, <1>5, <1>7, ShapeKeeps
<1>9. ASSUME SettledInv PROVE SettledInv'
  <2>1. \A v \in RowsPointing' : v \in Settled
    BY <1>6 DEF Settled
  <2>2. \A v \in versions' : v \in Settled
    BY <1>1 DEF Settled
  <2> QED
    BY <1>1, <1>3, <1>9, <2>1, <2>2, QuietUpload
<1> QED
  BY <1>8, <1>9

LEMMA EndKeeps ==
  ASSUME StoreShape, NEW t \in 1..Uploaders, SaveRow(t) \/ Fail(t), backup' = backup
  PROVE  StoreShape' /\ (SettledInv => SettledInv')
<1>1. uploads' = [uploads EXCEPT ![t] = Idle] /\ versions' = versions /\ files' = files
      /\ counters' = counters /\ shared' = shared
  BY DEF SaveRow, Fail
<1>2. \/ rows' = rows
      \/ /\ uploads[t].at = "row"
         /\ rows' = [rows EXCEPT ![uploads[t].asset] = Target(uploads[t])]
  BY DEF SaveRow, Fail
<1>3. Idle.at \notin {"store", "open", "data", "meta", "version", "point", "row"}
  BY IdleIsIdle
<1>4. versions' \subseteq Version /\ files' \in [Keys -> FilePair] /\ shared' \in BOOLEAN
  BY <1>1 DEF StoreShape
<1>5. uploads[t].at = "row" => Target(uploads[t]) \in Settled /\ uploads[t].asset \in AssetIds
  <2>1. SUFFICES ASSUME uploads[t].at = "row"
                 PROVE  Target(uploads[t]) \in Settled /\ uploads[t].asset \in AssetIds
    OBVIOUS
  <2>2. t \in Pointing
    BY <2>1 DEF Pointing
  <2>3. Held(uploads[t])
    BY <2>1, AtWork
  <2> QED
    BY <2>2, <2>3 DEF Settled, Held
<1>6. \A v \in RowsPointing' : v \in Settled
  BY <1>2, <1>5 DEF RowsPointing, StoreShape, Settled
<1>7. rows' \in [AssetIds -> Version \cup {NoVersion, Pathless}]
  BY <1>2, <1>5, SettledVersions DEF StoreShape
<1>8. StoreShape'
  BY <1>1, <1>4, <1>7, ShapeKeeps
<1>9. ASSUME SettledInv PROVE SettledInv'
  <2>1. \A v \in versions' : v \in Settled
    BY <1>1 DEF Settled
  <2> QED
    BY <1>1, <1>3, <1>6, <1>9, <2>1, QuietUpload
<1> QED
  BY <1>8, <1>9

LEMMA SetLatestKeeps ==
  ASSUME StoreShape, NEW t \in 1..Uploaders, NEW v \in versions, SetLatest(t, v), backup' = backup
  PROVE  StoreShape' /\ (SettledInv => SettledInv')
<1> DEFINE u == [at |-> "row", asset |-> v.key[1], content |-> v.sha, number |-> v.key[2]]
<1>1. uploads' = [uploads EXCEPT ![t] = u] /\ versions' = versions /\ files' = files
      /\ counters' = counters /\ shared' = shared /\ rows' = rows
  BY DEF SetLatest
<1>2. v \in Version
  BY DEF StoreShape
<1>3. /\ v.key = <<v.key[1], v.key[2]>> /\ v.key[1] \in AssetIds /\ v.key[2] \in 1..MaxVersion
      /\ v.sha \in Contents /\ v = [key |-> v.key, sha |-> v.sha]
  BY <1>2 DEF Version, Keys
<1>4. v.key[2] \in 0..MaxVersion
  BY <1>3, StoreConstants
<1>5. u.at = "row" /\ u \in Upload /\ Held(u)'
  BY <1>3, <1>4 DEF Upload, Held, Steps
<1>6. Target(u) = v
  BY <1>3 DEF Target, Key
<1>7. versions' \subseteq Version /\ files' \in [Keys -> FilePair] /\ shared' \in BOOLEAN
      /\ rows' \in [AssetIds -> Version \cup {NoVersion, Pathless}]
  BY <1>1 DEF StoreShape
<1> HIDE DEF u
<1>8. StoreShape'
  BY <1>1, <1>5, <1>7, ShapeKeeps
<1>9. ASSUME SettledInv PROVE SettledInv'
  <2>1. (\A x \in versions' : x \in Settled) /\ \A x \in RowsPointing' : x \in Settled
    BY <1>1, RowsStay DEF Settled
  <2>2. Target(u) \in Settled
    BY <1>6 DEF Settled
  <2> QED
    BY <1>1, <1>5, <1>9, <2>1, <2>2, QuietUpload
<1> QED
  BY <1>8, <1>9

LEMMA ReadKeeps ==
  ASSUME StoreShape, NEW t \in 1..Uploaders, ReadCounter(t), backup' = backup
  PROVE  StoreShape' /\ (SettledInv => SettledInv')
<1>0. uploads[t].at = "number" /\ uploads[t] \in Upload /\ Held(uploads[t])
  BY AtWork DEF ReadCounter
<1>1. uploads[t].asset \in AssetIds /\ counters[uploads[t].asset] \in 0..MaxVersion
      /\ counters[uploads[t].asset] < MaxVersion
  BY <1>0 DEF Held, StoreShape, ReadCounter
<1>2. counters[uploads[t].asset] + 1 \in 1..MaxVersion /\ counters[uploads[t].asset] + 1 \in 0..MaxVersion
  BY <1>1, StoreConstants
<1>3. PICK u \in Upload :
           /\ uploads' = [uploads EXCEPT ![t] = u]
           /\ u.at = "count" /\ u.asset = uploads[t].asset /\ u.content = uploads[t].content
           /\ u.number = counters[uploads[t].asset] + 1
  BY <1>0, <1>2, GoesWith DEF ReadCounter, Steps
<1>4. versions' = versions /\ files' = files
      /\ counters' = counters /\ shared' = shared /\ rows' = rows
  BY DEF ReadCounter
<1>5. Held(u)'
  BY <1>0, <1>2, <1>3 DEF Held, Steps
<1>6. versions' \subseteq Version /\ files' \in [Keys -> FilePair] /\ shared' \in BOOLEAN
      /\ rows' \in [AssetIds -> Version \cup {NoVersion, Pathless}]
  BY <1>4 DEF StoreShape
<1>7. StoreShape'
  BY <1>3, <1>4, <1>5, <1>6, ShapeKeeps
<1>8. ASSUME SettledInv PROVE SettledInv'
  <2>1. (\A x \in versions' : x \in Settled) /\ \A x \in RowsPointing' : x \in Settled
    BY <1>4, RowsStay DEF Settled
  <2> QED
    BY <1>3, <1>4, <1>8, <2>1, QuietUpload
<1> QED
  BY <1>7, <1>8

LEMMA WriteCounterKeeps ==
  ASSUME StoreShape, NEW t \in 1..Uploaders, WriteCounter(t), backup' = backup
  PROVE  StoreShape' /\ (SettledInv => SettledInv')
<1>0. uploads[t].at = "count" /\ uploads[t] \in Upload /\ Held(uploads[t])
  BY AtWork DEF WriteCounter
<1>1. uploads[t].asset \in AssetIds /\ uploads[t].number \in 1..MaxVersion
  BY <1>0 DEF Held
<1>2. uploads[t].number \in 0..MaxVersion
  BY <1>1, StoreConstants
<1>3. PICK u \in Upload :
           /\ uploads' = [uploads EXCEPT ![t] = u]
           /\ u.at = "take" /\ u.asset = uploads[t].asset /\ u.content = uploads[t].content
           /\ u.number = uploads[t].number
           /\ Key(u) = Key(uploads[t]) /\ Target(u) = Target(uploads[t])
  BY <1>0, GoesOn DEF WriteCounter, Steps
<1>4. versions' = versions /\ files' = files /\ shared' = shared /\ rows' = rows
      /\ counters' = [counters EXCEPT ![uploads[t].asset] = uploads[t].number]
  BY DEF WriteCounter
<1>5. /\ counters' \in [AssetIds -> 0..MaxVersion]
      /\ \A a \in AssetIds : counters[a] \in 1..MaxVersion => counters'[a] \in 1..MaxVersion
      /\ counters'[uploads[t].asset] \in 1..MaxVersion
  BY <1>1, <1>2, <1>4 DEF StoreShape
<1>6. (\A o \in 1..Uploaders : uploads[o] = Idle \/ (uploads[o] \in Upload /\ Held(uploads[o])))'
  <2> SUFFICES ASSUME NEW o \in 1..Uploaders
               PROVE  (uploads[o] = Idle \/ (uploads[o] \in Upload /\ Held(uploads[o])))'
    OBVIOUS
  <2>1. CASE o = t
    <3>1. uploads'[o] = u
      BY <2>1, <1>3 DEF StoreShape
    <3>2. counters'[u.asset] \in 1..MaxVersion
      BY <1>3, <1>5
    <3>3. u.at \in Steps /\ u.asset \in AssetIds /\ u.content \in Contents /\ u.number \in 0..MaxVersion
      BY <1>3, <1>0, <1>2 DEF Held, Steps
    <3> QED
      BY <3>1, <3>2, <3>3, <1>3 DEF Held
  <2>2. CASE o # t
    <3>1. uploads'[o] = uploads[o]
      BY <2>2, <1>3 DEF StoreShape
    <3> QED
      BY <3>1, <1>5 DEF Held, StoreShape
  <2> QED
    BY <2>1, <2>2
<1>7. uploads' = [o \in 1..Uploaders |-> uploads'[o]]
  BY <1>3 DEF StoreShape
<1>8. StoreShape'
  BY <1>4, <1>5, <1>6, <1>7 DEF StoreShape
<1>9. ASSUME SettledInv PROVE SettledInv'
  <2>1. (\A x \in versions' : x \in Settled) /\ \A x \in RowsPointing' : x \in Settled
    BY <1>4, RowsStay DEF Settled
  <2> QED
    BY <1>3, <1>4, <1>9, <2>1, QuietUpload
<1> QED
  BY <1>8, <1>9

\* Each step that gives a number or writes a file, one after the other: the shape first.
LEMMA FileIs ==
  ASSUME StoreShape, NEW k \in Keys
  PROVE  files[k] \in FilePair /\ files[k] = [data |-> files[k].data, meta |-> files[k].meta]
BY DEF StoreShape, FilePair

LEMMA TakeKeeps ==
  ASSUME StoreShape, NEW t \in 1..Uploaders, TakeNumber(t), backup' = backup
  PROVE  StoreShape' /\ (~shared' => ~shared /\ (SettledInv => SettledInv'))
<1>0. uploads[t].at = "take" /\ uploads[t] \in Upload /\ Held(uploads[t])
  BY AtWork DEF TakeNumber
<1>1. uploads[t].asset \in AssetIds /\ counters[uploads[t].asset] \in 1..MaxVersion
  BY <1>0 DEF Held
<1>2. counters[uploads[t].asset] \in 0..MaxVersion
  BY <1>1, StoreConstants
<1>3. PICK u \in Upload :
           /\ uploads' = [uploads EXCEPT ![t] = u]
           /\ u.at = "store" /\ u.asset = uploads[t].asset /\ u.content = uploads[t].content
           /\ u.number = counters[uploads[t].asset]
  BY <1>0, <1>2, GoesWith DEF TakeNumber, Steps
<1>4. versions' = versions /\ files' = files /\ counters' = counters /\ rows' = rows
      /\ shared' = (shared \/ \E o \in Working \ {t} : Key(uploads[o]) = <<uploads[t].asset, counters[uploads[t].asset]>>)
  BY DEF TakeNumber
<1>5. Held(u)'
  BY <1>0, <1>1, <1>2, <1>3 DEF Held, Steps
<1>6. versions' \subseteq Version /\ files' \in [Keys -> FilePair] /\ shared' \in BOOLEAN
      /\ rows' \in [AssetIds -> Version \cup {NoVersion, Pathless}]
  BY <1>4 DEF StoreShape
<1>7. StoreShape'
  BY <1>3, <1>4, <1>5, <1>6, ShapeKeeps
<1>8. ASSUME ~shared', SettledInv PROVE SettledInv'
  <2>1. (\A x \in versions' : x \in Settled) /\ \A x \in RowsPointing' : x \in Settled
    BY <1>4, RowsStay DEF Settled
  <2>2. \A x \in Settled' : x \in Settled
    BY <2>1, <1>3, SettledAfter
  <2>3. ASSUME NEW o \in Numbered \ {t} PROVE Key(uploads[o]) # Key(u)
    <3>1. o \in Working
      BY IdleIsIdle DEF Numbered, Working
    <3>2. Key(uploads[o]) # <<uploads[t].asset, counters[uploads[t].asset]>>
      BY <3>1, <1>4, <1>8
    <3> QED
      BY <3>2, <1>3 DEF Key
  <2>4. \A k \in Keys : files'[k].data = Nothing => files'[k].meta = Nothing
    BY <1>4, <1>8 DEF SettledInv
  <2> QED
    BY <2>2, <2>3, <2>4, <1>3, <1>4, <1>8, StepKeeps
<1> QED
  BY <1>4, <1>7, <1>8

LEMMA CheckKeeps ==
  ASSUME StoreShape, NEW t \in 1..Uploaders, CheckKey(t), backup' = backup
  PROVE  StoreShape' /\ (SettledInv => SettledInv')
<1>0. uploads[t].at = "store" /\ uploads[t] \in Upload /\ Held(uploads[t])
  BY AtWork DEF CheckKey
<1>1. versions' = versions /\ files' = files /\ counters' = counters /\ rows' = rows /\ shared' = shared
  BY DEF CheckKey
<1>2. versions' \subseteq Version /\ files' \in [Keys -> FilePair] /\ shared' \in BOOLEAN
      /\ rows' \in [AssetIds -> Version \cup {NoVersion, Pathless}]
  BY <1>1 DEF StoreShape
<1>3. (\A x \in versions' : x \in Settled) /\ \A x \in RowsPointing' : x \in Settled
  BY <1>1, RowsStay DEF Settled
<1>4. CASE files[Key(uploads[t])].data # Nothing
  <2>1. uploads' = [uploads EXCEPT ![t] = Idle]
    BY <1>4 DEF CheckKey
  <2>2. StoreShape'
    BY <2>1, <1>1, <1>2, ShapeKeeps
  <2>3. Idle.at \notin {"store", "open", "data", "meta", "version", "point", "row"}
    BY IdleIsIdle
  <2>4. SettledInv => SettledInv'
    BY <2>1, <2>3, <1>1, <1>3, QuietUpload
  <2> QED
    BY <2>2, <2>4
<1>5. CASE files[Key(uploads[t])].data = Nothing
  <2>0. Go(t, "open")
    BY <1>5 DEF CheckKey
  <2>1. PICK u \in Upload :
           /\ uploads' = [uploads EXCEPT ![t] = u]
           /\ u.at = "open" /\ u.asset = uploads[t].asset /\ u.content = uploads[t].content
           /\ u.number = uploads[t].number
           /\ Key(u) = Key(uploads[t]) /\ Target(u) = Target(uploads[t])
    BY <2>0, <1>0, GoesOn DEF Steps
  <2>2. Held(u)'
    BY <1>0, <2>1 DEF Held, Steps
  <2>3. StoreShape'
    BY <2>1, <2>2, <1>1, <1>2, ShapeKeeps
  <2>4. ASSUME SettledInv PROVE SettledInv'
    <3>1. \A x \in Settled' : x \in Settled
      BY <1>3, <2>1, SettledAfter
    <3>2. t \in Numbered
      BY <1>0 DEF Numbered
    <3>3. Key(u) \in Keys
      BY <3>2, <2>1, NumberedKeys
    <3>4. files'[Key(u)] = Unfinished(u)
      <4>1. files[Key(u)].data = Nothing /\ files[Key(u)].meta = Nothing
        BY <3>3, <2>1, <1>5, <2>4 DEF SettledInv
      <4> QED
        BY <4>1, <3>3, <1>1, <2>1, FileIs DEF Unfinished
    <3>5. ASSUME NEW x \in Settled' PROVE x.key # Key(u)
      <4>0. x \in Settled /\ x \in Version
        BY <3>1, SettledVersions
      <4>1. files[x.key] = [data |-> x.sha, meta |-> x.sha] /\ x.sha \in Contents
        BY <4>0, <2>4 DEF SettledInv, Version
      <4> QED
        BY <4>1, <1>5, <2>1, StoreConstants
    <3>6. \A o \in Numbered \ {t} : Key(uploads[o]) # Key(u)
      BY <3>2, <2>1, <2>4 DEF SettledInv
    <3>7. \A k \in Keys : files'[k].data = Nothing => files'[k].meta = Nothing
      BY <1>1, <2>4 DEF SettledInv
    <3> QED
      BY <3>1, <3>4, <3>5, <3>6, <3>7, <2>1, <2>4, <1>1, StepKeeps
  <2> QED
    BY <2>3, <2>4
<1> QED
  BY <1>4, <1>5

\* The three steps that write a file of an upload's own key, which leave it as
\* Unfinished says for the next step, the last of them with both files there.
LEMMA WriteKeeps ==
  ASSUME StoreShape, NEW t \in 1..Uploaders, OpenFile(t) \/ WriteData(t) \/ WriteMeta(t), backup' = backup
  PROVE  StoreShape' /\ (SettledInv => SettledInv')
<1> DEFINE k == Key(uploads[t])
<1>0. uploads[t].at \in {"open", "data", "meta"} /\ uploads[t] \in Upload /\ Held(uploads[t])
  BY AtWork DEF OpenFile, WriteData, WriteMeta
<1>1. t \in Numbered /\ t \in Writing
  BY <1>0 DEF Numbered, Writing
<1>2. k \in Keys /\ uploads[t].content \in Contents
  BY <1>1, NumberedKeys
<1>3. versions' = versions /\ counters' = counters /\ rows' = rows /\ shared' = shared
  BY DEF OpenFile, WriteData, WriteMeta
<1>4. \/ uploads[t].at = "open" /\ Go(t, "data") /\ files' = [files EXCEPT ![k].data = Torn]
      \/ uploads[t].at = "data" /\ Go(t, "meta") /\ files' = [files EXCEPT ![k].data = uploads[t].content]
      \/ uploads[t].at = "meta" /\ Go(t, "version") /\ files' = [files EXCEPT ![k].meta = uploads[t].content]
  BY DEF OpenFile, WriteData, WriteMeta
<1>5. PICK u \in Upload :
           /\ uploads' = [uploads EXCEPT ![t] = u]
           /\ u.asset = uploads[t].asset /\ u.content = uploads[t].content
           /\ u.number = uploads[t].number
           /\ Key(u) = k /\ Target(u) = Target(uploads[t])
           /\ uploads[t].at = "open" => u.at = "data"
           /\ uploads[t].at = "data" => u.at = "meta"
           /\ uploads[t].at = "meta" => u.at = "version"
  <2>1. CASE uploads[t].at = "open"
    <3>1. Go(t, "data")
      BY <2>1, <1>4
    <3> QED
      BY <3>1, <2>1, <1>0, GoesOn DEF Steps
  <2>2. CASE uploads[t].at = "data"
    <3>1. Go(t, "meta")
      BY <2>2, <1>4
    <3> QED
      BY <3>1, <2>2, <1>0, GoesOn DEF Steps
  <2>3. CASE uploads[t].at = "meta"
    <3>1. Go(t, "version")
      BY <2>3, <1>4
    <3> QED
      BY <3>1, <2>3, <1>0, GoesOn DEF Steps
  <2> QED
    BY <2>1, <2>2, <2>3, <1>0
<1> HIDE DEF k
<1>6. u.at \in {"data", "meta", "version"} /\ Held(u)'
  BY <1>0, <1>1, <1>5, <1>3 DEF Held, Steps
<1>7. files' \in [Keys -> FilePair] /\ \A q \in Keys : q # k => files'[q] = files[q]
  <2>1. files[k] \in FilePair /\ files \in [Keys -> FilePair]
    BY <1>2 DEF StoreShape
  <2>2. PICK f \in FilePair : files' = [files EXCEPT ![k] = f]
    <3>1. [files[k] EXCEPT !.data = Torn] \in FilePair
      BY <2>1 DEF FilePair
    <3>2. [files[k] EXCEPT !.data = uploads[t].content] \in FilePair
      BY <2>1, <1>2 DEF FilePair
    <3>3. [files[k] EXCEPT !.meta = uploads[t].content] \in FilePair
      BY <2>1, <1>2 DEF FilePair
    <3> QED
      BY <3>1, <3>2, <3>3, <1>4
  <2> QED
    BY <2>1, <2>2
<1>8. versions' \subseteq Version /\ shared' \in BOOLEAN
      /\ rows' \in [AssetIds -> Version \cup {NoVersion, Pathless}]
  BY <1>3 DEF StoreShape
<1>9. StoreShape'
  BY <1>3, <1>5, <1>6, <1>7, <1>8, ShapeKeeps
<1>10. ASSUME SettledInv PROVE SettledInv'
  <2>1. (\A x \in versions' : x \in Settled) /\ \A x \in RowsPointing' : x \in Settled
    BY <1>3, RowsStay DEF Settled
  <2>2. files[k] = Unfinished(uploads[t])
    BY <1>1, <1>10 DEF SettledInv, k
  <2>3. files'[k] = [data |-> files'[k].data, meta |-> files'[k].meta]
    BY <1>2, <1>7 DEF FilePair
  <2>4. /\ uploads[t].at = "open" => files'[k].data = Torn /\ files'[k].meta = Nothing
        /\ uploads[t].at = "data" => files'[k].data = u.content /\ files'[k].meta = Nothing
        /\ uploads[t].at = "meta" => files'[k].data = u.content /\ files'[k].meta = u.content
    BY <2>2, <1>2, <1>4, <1>5 DEF Unfinished, StoreShape, FilePair
  <2>5. /\ u.at \in {"data", "meta"} => files'[k] = Unfinished(u)
        /\ u.at = "version" => files'[k] = [data |-> u.content, meta |-> u.content]
    BY <2>3, <2>4, <1>0, <1>5 DEF Unfinished
  <2>6. \A q \in Keys : files'[q].data = Nothing => files'[q].meta = Nothing
    BY <2>4, <1>0, <1>5, <1>7, <1>2, <1>10, StoreConstants DEF SettledInv
  <2>7. \A v \in Settled : v.key \in Keys /\ v.key # k
    BY <1>1, <1>10, SettledVersions DEF SettledInv, k, Version
  <2>8. \A v \in Settled : files'[v.key] = files[v.key]
    BY <2>7, <1>7
  <2>9. \A o \in Numbered \ {t} : Key(uploads[o]) \in Keys /\ Key(uploads[o]) # k
    BY <1>1, <1>10, NumberedKeys DEF SettledInv, k
  <2>10. \A o \in Writing : o \in Numbered
    BY DEF Writing, Numbered
  <2>11. \A o \in Writing \ {t} : files'[Key(uploads[o])] = files[Key(uploads[o])] /\ k # Key(uploads[o])
    BY <2>9, <2>10, <1>7
  <2>12. \A v \in Settled' : v \in Settled \/ (v = Target(u) /\ u.at = "version")
    <3>1. u.at \in {"version", "point", "row"} => u.at = "version"
      BY <1>6
    <3> QED
      BY <3>1, <2>1, <1>5, SettledAfter
  <2>13. Target(u).key = k /\ Target(u).sha = u.content
    BY <1>5 DEF Target
  <2>14. \A v \in Settled' : v \in Settled \/
            /\ files'[v.key] = [data |-> v.sha, meta |-> v.sha]
            /\ \A o \in Writing \ {t} : v.key # Key(uploads[o])
    BY <2>5, <2>11, <2>12, <2>13
  <2>15. u.at \in {"open", "data", "meta"} =>
            /\ files'[Key(u)] = Unfinished(u)
            /\ \A v \in Settled' : v.key # Key(u)
    BY <2>5, <2>7, <2>12, <1>5, <1>6
  <2>16. u.at \in {"store", "open", "data", "meta"} => \A o \in Numbered \ {t} : Key(uploads[o]) # Key(u)
    BY <2>9, <1>5
  <2> QED
    BY <2>6, <2>8, <2>11, <2>14, <2>15, <2>16, <1>5, <1>10, StepKeeps
<1> QED
  BY <1>9, <1>10

LEMMA PointKeeps ==
  ASSUME StoreShape, NEW t \in 1..Uploaders, SaveVersion(t) \/ PointLatest(t), backup' = backup
  PROVE  StoreShape' /\ (SettledInv => SettledInv')
<1>0. uploads[t].at \in {"version", "point"} /\ uploads[t] \in Upload /\ Held(uploads[t])
  BY AtWork DEF SaveVersion, PointLatest
<1>1. t \in Pointing
  BY <1>0 DEF Pointing
<1>2. Target(uploads[t]) \in Settled
  BY <1>1 DEF Settled
<1>3. files' = files /\ counters' = counters /\ rows' = rows /\ shared' = shared
      /\ (versions' = versions \/ versions' = versions \cup {Target(uploads[t])})
  BY DEF SaveVersion, PointLatest
<1>4. PICK u \in Upload :
           /\ uploads' = [uploads EXCEPT ![t] = u]
           /\ u.at \in {"point", "row"} /\ u.asset = uploads[t].asset /\ u.content = uploads[t].content
           /\ u.number = uploads[t].number
           /\ Key(u) = Key(uploads[t]) /\ Target(u) = Target(uploads[t])
  <2>1. Go(t, "point") \/ Go(t, "row")
    BY DEF SaveVersion, PointLatest
  <2> QED
    BY <2>1, <1>0, GoesOn DEF Steps
<1>5. Held(u)'
  BY <1>0, <1>4 DEF Held, Steps
<1>6. versions' \subseteq Version /\ files' \in [Keys -> FilePair] /\ shared' \in BOOLEAN
      /\ rows' \in [AssetIds -> Version \cup {NoVersion, Pathless}]
  BY <1>2, <1>3, SettledVersions DEF StoreShape
<1>7. StoreShape'
  BY <1>3, <1>4, <1>5, <1>6, ShapeKeeps
<1>8. ASSUME SettledInv PROVE SettledInv'
  <2>1. (\A x \in versions' : x \in Settled) /\ \A x \in RowsPointing' : x \in Settled
    BY <1>2, <1>3, RowsStay DEF Settled
  <2> QED
    BY <1>2, <1>3, <1>4, <1>8, <2>1, QuietUpload
<1> QED
  BY <1>7, <1>8

\* A crash: only metadata of keys that were being written is cut.
LEMMA CrashKeeps ==
  ASSUME StoreShape, NEW gone \in SUBSET Keys, Crash(gone), backup' = backup
  PROVE  StoreShape' /\ (SettledInv => SettledInv')
<1> DEFINE Was(k) == IF k \in gone THEN [files[k] EXCEPT !.meta = Torn] ELSE files[k]
<1>1. /\ versions' = {} /\ counters' = [a \in AssetIds |-> 0] /\ rows' = rows /\ shared' = shared
      /\ uploads' = [t \in 1..Uploaders |-> Idle] /\ files' = [k \in Keys |-> Was(k)]
  BY DEF Crash
<1>2. \A k \in Keys : Was(k) \in FilePair
  BY ZenonT(40) DEF StoreShape, FilePair
<1>3. \A k \in Keys : Was(k).data = files[k].data /\ (k \notin gone => Was(k) = files[k])
  BY DEF StoreShape, FilePair
<1>4. \A k \in gone : \E t \in Writing : k = Key(uploads[t]) /\ uploads[t].at = "meta"
  BY DEF Crash, Writing, Working
<1> HIDE DEF Was
<1>5. files' \in [Keys -> FilePair] /\ \A k \in Keys : files'[k] = Was(k)
  BY <1>1, <1>2
<1>6. 0 \in 0..MaxVersion
  BY StoreConstants
<1>7. (\A t \in 1..Uploaders : uploads[t] = Idle)' /\ uploads' = [t \in 1..Uploaders |-> uploads'[t]]
  BY <1>1
<1>8. StoreShape'
  BY <1>1, <1>5, <1>6, <1>7 DEF StoreShape
<1>9. Pointing' = {} /\ Writing' = {} /\ Numbered' = {}
  BY <1>7, IdleIsIdle DEF Pointing, Writing, Numbered
<1>10. ASSUME SettledInv PROVE SettledInv'
  <2>1. \A v \in Settled' : v \in Settled
    BY <1>1, <1>9, RowsStay DEF Settled
  <2>2. \A v \in Settled : v.key \in Keys /\ v.key \notin gone
    BY <1>4, <1>10, SettledVersions DEF SettledInv, Version
  <2>3. \A v \in Settled' : files'[v.key] = [data |-> v.sha, meta |-> v.sha]
    BY <2>1, <2>2, <1>3, <1>5, <1>10 DEF SettledInv
  <2>4. ASSUME NEW k \in Keys, files'[k].data = Nothing PROVE files'[k].meta = Nothing
    <3>1. files[k].data = Nothing /\ files[k].meta = Nothing
      BY <2>4, <1>3, <1>5, <1>10 DEF SettledInv
    <3>2. k \notin gone
      <4>1. SUFFICES ASSUME k \in gone PROVE FALSE
        OBVIOUS
      <4>2. PICK t \in Writing : k = Key(uploads[t]) /\ uploads[t].at = "meta"
        BY <4>1, <1>4
      <4>3. files[k].data = uploads[t].content
        <5>1. files[k] = Unfinished(uploads[t])
          BY <4>2, <1>10 DEF SettledInv
        <5>2. Unfinished(uploads[t]).data = uploads[t].content
          BY <4>2 DEF Unfinished
        <5> QED
          BY <5>1, <5>2
      <4>4. t \in Numbered
        BY DEF Writing, Numbered
      <4> QED
        BY <4>3, <4>4, <3>1, NumberedKeys, StoreConstants
    <3> QED
      BY <3>1, <3>2, <1>3, <1>5
  <2> QED
    BY <2>3, <2>4, <1>9 DEF SettledInv
<1> QED
  BY <1>8, <1>10

LEMMA StorageInit == BackupInit => StorageInv
<1> SUFFICES ASSUME BackupInit PROVE StorageInv
  OBVIOUS
<1> USE DEF BackupInit, AssetInit
<1>1. 0 \in 0..MaxVersion
  BY StoreConstants
<1>2. \A k \in Keys : files[k] = [data |-> Nothing, meta |-> Nothing] /\ files[k] \in FilePair
  BY DEF FilePair
<1>3. files \in [Keys -> FilePair]
  BY <1>2
<1>4. backup.at = "none" /\ backup.todo = {} /\ backup.rows = [a \in AssetIds |-> NoVersion]
  BY DEF NoBackup
<1>5. [k \in Keys |-> [x \in Kinds |-> Nothing]] \in Archive
  BY DEF Archive
<1>6. backup \in [at: {"none", "assets", "done"}, rows: [AssetIds -> Version \cup {NoVersion, Pathless}],
                 todo: SUBSET (Keys \X Kinds), archive: Archive]
  BY <1>5 DEF NoBackup
<1>7. (\A t \in 1..Uploaders : uploads[t] = Idle) /\ uploads = [t \in 1..Uploaders |-> uploads[t]]
  OBVIOUS
<1>8. StoreShape
  BY <1>1, <1>3, <1>6, <1>7 DEF StoreShape
<1>9. Pointing = {} /\ Writing = {} /\ Numbered = {}
  BY <1>7, IdleIsIdle DEF Pointing, Writing, Numbered
<1>10. RowsPointing = {} /\ Settled = {}
  BY <1>4, <1>9 DEF RowsPointing, Settled
<1>11. SettledInv
  BY <1>2, <1>9, <1>10 DEF SettledInv
<1>12. ArchiveInv
  BY <1>4 DEF ArchiveInv
<1> QED
  BY <1>8, <1>11, <1>12 DEF StorageInv

\* What the script reads of the store it does not change.
LEMMA StoreStays ==
  ASSUME UNCHANGED assetVars, \A v \in RowsPointing' : v \in RowsPointing
  PROVE  /\ \A v \in Settled' : v \in Settled
         /\ SettledInv => SettledInv'
<1>1. /\ Pointing' = Pointing /\ Writing' = Writing /\ Numbered' = Numbered
  BY DEF assetVars, Pointing, Writing, Numbered
<1>2. versions' = versions /\ uploads' = uploads /\ files' = files
  BY DEF assetVars
<1>3. \A v \in Settled' : v \in Settled
  BY <1>1, <1>2 DEF Settled, Target, Key
<1>4. SettledInv => SettledInv'
  BY <1>1, <1>2, <1>3 DEF SettledInv, Key, Unfinished
<1> QED
  BY <1>3, <1>4

LEMMA ShapeStays ==
  ASSUME StoreShape, UNCHANGED assetVars,
         backup' \in [at: {"none", "assets", "done"}, rows: [AssetIds -> Version \cup {NoVersion, Pathless}],
                      todo: SUBSET (Keys \X Kinds), archive: Archive]
  PROVE  StoreShape'
BY DEF StoreShape, assetVars, Held

LEMMA BackupStart ==
  ASSUME StorageInv, BackupDatabase, UNCHANGED assetVars
  PROVE  StorageInv'
<1>1. /\ backup.at = "none" /\ backup'.at = "assets" /\ backup'.rows = rows
      /\ backup'.todo = Existing /\ backup'.archive = backup.archive
      /\ backup' = [at |-> backup'.at, rows |-> backup'.rows, todo |-> backup'.todo,
                    archive |-> backup'.archive]
  BY DEF BackupDatabase, StorageInv, StoreShape
<1>2. Existing \subseteq Keys \X Kinds
  BY DEF Existing
<1>3. StoreShape'
  BY <1>1, <1>2, ShapeStays DEF StorageInv, StoreShape
<1>4. \A v \in RowsPointing' : v \in RowsPointing
  BY <1>1 DEF RowsPointing, assetVars
<1>5. ASSUME ~shared, SettledInv, ArchiveInv PROVE ArchiveInv'
  <2>1. \A k \in Keys, x \in Kinds : backup'.archive[k][x] = Nothing
    BY <1>1, <1>5 DEF ArchiveInv, NoBackup
  <2>2. ASSUME NEW a \in AssetIds, rows[a] \notin {NoVersion, Pathless}, NEW x \in Kinds
        PROVE  backup'.archive[rows[a].key][x] = Nothing /\ <<rows[a].key, x>> \in Existing
    <3>1. rows[a] \in Settled /\ rows[a] \in Version
      BY <2>2 DEF Settled, RowsPointing, StorageInv, StoreShape
    <3>2. rows[a].key \in Keys /\ rows[a].sha \in Contents
      BY <3>1 DEF Version
    <3>3. files[rows[a].key] = [data |-> rows[a].sha, meta |-> rows[a].sha]
      BY <3>1, <1>5 DEF SettledInv
    <3>4. files[rows[a].key][x] = rows[a].sha
      BY <3>3 DEF Kinds
    <3> QED
      BY <2>1, <3>2, <3>4, StoreConstants DEF Existing
  <2>3. \A a \in AssetIds :
          backup'.rows[a] \in {NoVersion, Pathless} \/
            \A x \in Kinds : /\ backup'.archive[backup'.rows[a].key][x] = Nothing
                             /\ <<backup'.rows[a].key, x>> \in backup'.todo
    BY <1>1, <2>2
  <2> QED
    BY <1>1, <2>3 DEF ArchiveInv
<1> QED
  BY <1>3, <1>4, <1>5, StoreStays DEF StorageInv, assetVars

LEMMA BackupWalk ==
  ASSUME StorageInv, NEW f \in Keys \X Kinds, BackupFile(f), UNCHANGED assetVars
  PROVE  StorageInv'
<1>1. /\ backup.at = "assets" /\ backup'.at = "assets" /\ backup'.rows = backup.rows
      /\ backup'.todo = backup.todo \ {f}
      /\ backup'.archive = [backup.archive EXCEPT ![f[1]][f[2]] = files[f[1]][f[2]]]
      /\ backup' = [at |-> backup'.at, rows |-> backup'.rows, todo |-> backup'.todo,
                    archive |-> backup'.archive]
  BY DEF BackupFile, StorageInv, StoreShape
<1>2. f[1] \in Keys /\ f[2] \in Kinds /\ f = <<f[1], f[2]>>
  OBVIOUS
<1>3. files[f[1]] \in FilePair
  BY <1>2 DEF StorageInv, StoreShape
<1>4. files[f[1]][f[2]] \in Contents \cup {Nothing, Torn}
  BY <1>2, <1>3 DEF FilePair, Kinds
<1>5. backup.archive \in [Keys -> [Kinds -> Contents \cup {Nothing, Torn}]]
  BY DEF StorageInv, StoreShape, Archive
<1>6. /\ backup'.archive \in Archive
      /\ \A k \in Keys, x \in Kinds :
           backup'.archive[k][x] = IF <<k, x>> = f THEN files[k][x] ELSE backup.archive[k][x]
  BY <1>1, <1>2, <1>4, <1>5 DEF Archive
<1>7. StoreShape'
  BY <1>1, <1>6, ShapeStays DEF StorageInv, StoreShape
<1>8. \A v \in RowsPointing' : v \in RowsPointing
  BY <1>1 DEF RowsPointing, assetVars
<1>9. ASSUME ~shared, SettledInv, ArchiveInv PROVE ArchiveInv'
  <2>1. ASSUME NEW a \in AssetIds, backup.rows[a] \notin {NoVersion, Pathless}, NEW x \in Kinds
        PROVE  \/ backup'.archive[backup.rows[a].key][x] = backup.rows[a].sha
               \/ /\ backup'.archive[backup.rows[a].key][x] = Nothing
                  /\ <<backup.rows[a].key, x>> \in backup'.todo
    <3>1. backup.rows[a] \in Settled /\ backup.rows[a] \in Version
      BY <2>1 DEF Settled, RowsPointing, StorageInv, StoreShape
    <3>2. backup.rows[a].key \in Keys
      BY <3>1 DEF Version
    <3>3. files[backup.rows[a].key] = [data |-> backup.rows[a].sha, meta |-> backup.rows[a].sha]
      BY <3>1, <1>9 DEF SettledInv
    <3>4. files[backup.rows[a].key][x] = backup.rows[a].sha
      BY <3>3 DEF Kinds
    <3>5. \/ backup.archive[backup.rows[a].key][x] = backup.rows[a].sha
          \/ /\ backup.archive[backup.rows[a].key][x] = Nothing
             /\ <<backup.rows[a].key, x>> \in backup.todo
      BY <2>1, <1>9 DEF ArchiveInv
    <3> QED
      BY <3>2, <3>4, <3>5, <1>1, <1>6
  <2> QED
    BY <2>1, <1>1 DEF ArchiveInv
<1> QED
  BY <1>7, <1>8, <1>9, StoreStays DEF StorageInv, assetVars

LEMMA BackupEnd ==
  ASSUME StorageInv, CreateManifest, UNCHANGED assetVars
  PROVE  StorageInv'
<1>1. /\ backup.at = "assets" /\ backup.todo = {} /\ backup'.at = "done" /\ backup'.rows = backup.rows
      /\ backup'.todo = backup.todo /\ backup'.archive = backup.archive
      /\ backup' = [at |-> backup'.at, rows |-> backup'.rows, todo |-> backup'.todo,
                    archive |-> backup'.archive]
  BY DEF CreateManifest, StorageInv, StoreShape
<1>2. StoreShape'
  BY <1>1, ShapeStays DEF StorageInv, StoreShape
<1>3. \A v \in RowsPointing' : v \in RowsPointing
  BY <1>1 DEF RowsPointing, assetVars
<1>4. ArchiveInv => ArchiveInv'
  BY <1>1 DEF ArchiveInv
<1> QED
  BY <1>2, <1>3, <1>4, StoreStays DEF StorageInv, assetVars

LEMMA AssetsKeep ==
  ASSUME StorageInv, AssetNext, backup' = backup
  PROVE  StorageInv'
<1>0. StoreShape /\ (~shared => SettledInv /\ ArchiveInv)
  BY DEF StorageInv
<1>1. ArchiveInv => ArchiveInv'
  BY DEF ArchiveInv
<1>2. ASSUME StoreShape', ~shared' => ~shared /\ (SettledInv => SettledInv') PROVE StorageInv'
  BY <1>0, <1>1, <1>2 DEF StorageInv
<1>3. ASSUME NEW t \in 1..Uploaders, NEW a \in AssetIds, NEW c \in Contents, NEW new \in BOOLEAN,
             BeginUpload(t, a, c, new)
      PROVE  StorageInv'
  BY <1>0, <1>2, <1>3, BeginKeeps DEF BeginUpload
<1>4. ASSUME NEW t \in 1..Uploaders, UploadStep(t)
      PROVE  StorageInv'
  <2>1. CASE ReadCounter(t)
    BY <2>1, <1>0, <1>2, ReadKeeps DEF ReadCounter
  <2>2. CASE WriteCounter(t)
    BY <2>2, <1>0, <1>2, WriteCounterKeeps DEF WriteCounter
  <2>3. CASE TakeNumber(t)
    BY <2>3, <1>0, <1>2, TakeKeeps
  <2>4. CASE CheckKey(t)
    BY <2>4, <1>0, <1>2, CheckKeeps DEF CheckKey
  <2>5. CASE OpenFile(t) \/ WriteData(t) \/ WriteMeta(t)
    BY <2>5, <1>0, <1>2, WriteKeeps DEF OpenFile, WriteData, WriteMeta
  <2>6. CASE SaveVersion(t) \/ PointLatest(t)
    BY <2>6, <1>0, <1>2, PointKeeps DEF SaveVersion, PointLatest
  <2>7. CASE SaveRow(t)
    BY <2>7, <1>0, <1>2, EndKeeps DEF SaveRow
  <2> QED
    BY <1>4, <2>1, <2>2, <2>3, <2>4, <2>5, <2>6, <2>7 DEF UploadStep
<1>5. ASSUME NEW t \in 1..Uploaders, Fail(t)
      PROVE  StorageInv'
  BY <1>0, <1>2, <1>5, EndKeeps DEF Fail
<1>6. ASSUME NEW t \in 1..Uploaders, NEW v \in versions, SetLatest(t, v)
      PROVE  StorageInv'
  BY <1>0, <1>2, <1>6, SetLatestKeeps DEF SetLatest
<1>7. ASSUME NEW gone \in SUBSET Keys, Crash(gone)
      PROVE  StorageInv'
  BY <1>0, <1>2, <1>7, CrashKeeps DEF Crash
<1> QED
  BY <1>3, <1>4, <1>5, <1>6, <1>7 DEF AssetNext

LEMMA StorageStep == StorageInv /\ [BackupNext]_<<assetVars, backup>> => StorageInv'
<1> SUFFICES ASSUME StorageInv, [BackupNext]_<<assetVars, backup>> PROVE StorageInv'
  OBVIOUS
<1>1. CASE AssetNext /\ UNCHANGED backup
  BY <1>1, AssetsKeep
<1>2. CASE BackupStep
  BY <1>2, BackupStart, BackupWalk, BackupEnd DEF BackupStep
<1>3. CASE UNCHANGED <<assetVars, backup>>
  <2>1. RowsPointing' = RowsPointing
    BY <1>3 DEF RowsPointing, assetVars
  <2>2. StoreShape'
    BY <1>3, ShapeStays DEF StorageInv, StoreShape
  <2>3. ArchiveInv => ArchiveInv'
    BY <1>3 DEF ArchiveInv
  <2> QED
    BY <1>3, <2>1, <2>2, <2>3, StoreStays DEF StorageInv, assetVars
<1> QED
  BY <1>1, <1>2, <1>3 DEF BackupNext

LEMMA StorageSettled == StorageInv => StorageSound
<1> SUFFICES ASSUME StorageInv PROVE StorageSound
  OBVIOUS
<1>1. ASSUME ~shared, NEW v \in Settled PROVE Readable(v)
  <2>1. files[v.key] = [data |-> v.sha, meta |-> v.sha]
    BY <1>1 DEF StorageInv, SettledInv
  <2> QED
    BY <2>1 DEF Readable
<1>2. StoredIntact
  BY <1>1 DEF StoredIntact, Settled, RowsPointing
<1>3. ASSUME backup.at = "done", ~shared, NEW a \in AssetIds,
             backup.rows[a] \notin {NoVersion, Pathless}
      PROVE  /\ backup.archive[backup.rows[a].key]["data"] = backup.rows[a].sha
             /\ backup.archive[backup.rows[a].key]["meta"] = backup.rows[a].sha
  BY <1>3 DEF StorageInv, ArchiveInv, Kinds
<1> QED
  BY <1>2, <1>3 DEF StorageSound, BackupRestorable

LEMMA StoreBoundsKept ==
  ASSUME StoreShape, StoreBounds, [BackupNext]_<<assetVars, backup>>
  PROVE  StoreBounds'
<1>1. CASE UNCHANGED assetVars
  BY <1>1 DEF assetVars, StoreBounds
<1>2. ASSUME UNCHANGED latest, begun' = begun + 1, begun < MaxUploads, UNCHANGED crashes
      PROVE  StoreBounds'
  BY <1>2, AssetAssumption DEF StoreBounds
<1>3. ASSUME NEW t \in 1..Uploaders, NEW a \in AssetIds, NEW c \in Contents, NEW new \in BOOLEAN,
             BeginUpload(t, a, c, new)
      PROVE  StoreBounds'
  BY <1>2, <1>3 DEF BeginUpload, FreeThread
<1>4. ASSUME NEW t \in 1..Uploaders, UploadStep(t) \/ Fail(t)
      PROVE  StoreBounds'
  <2>1. CASE PointLatest(t)
    <3>1. /\ uploads[t].at = "point" /\ UNCHANGED <<begun, crashes>>
          /\ latest' = [latest EXCEPT ![uploads[t].asset] = Target(uploads[t])]
      BY <2>1 DEF PointLatest
    <3>2. uploads[t] \in Upload /\ uploads[t].number \in 1..MaxVersion
      BY <3>1, IdleIsIdle DEF StoreShape, Held
    <3>3. Target(uploads[t]) \in Version
      BY <3>2, KeyIsKey DEF Target, Version, Upload
    <3> QED
      BY <3>1, <3>3 DEF StoreBounds
  <2>2. CASE ~PointLatest(t)
    <3>1. UNCHANGED <<latest, begun, crashes>>
      BY <1>4, <2>2 DEF UploadStep, Fail, ReadCounter, WriteCounter, TakeNumber, CheckKey, OpenFile,
                        WriteData, WriteMeta, SaveVersion, SaveRow
    <3> QED
      BY <3>1 DEF StoreBounds
  <2> QED
    BY <2>1, <2>2
<1>5. ASSUME NEW t \in 1..Uploaders, NEW v \in versions, SetLatest(t, v)
      PROVE  StoreBounds'
  <2>1. /\ latest' = [latest EXCEPT ![v.key[1]] = v] /\ v \in Version
        /\ begun' = begun + 1 /\ begun < MaxUploads /\ UNCHANGED crashes
    BY <1>5 DEF SetLatest, FreeThread, StoreShape
  <2>2. latest' \in [AssetIds -> Version \cup {NoVersion}]
    BY <2>1 DEF StoreBounds
  <2>3. begun' \in 0..MaxUploads
    BY <2>1, AssetAssumption DEF StoreBounds
  <2> QED
    BY <2>1, <2>2, <2>3 DEF StoreBounds
<1>6. ASSUME NEW torn \in SUBSET Keys, Crash(torn)
      PROVE  StoreBounds'
  BY <1>6, AssetAssumption DEF Crash, StoreBounds
<1> QED
  BY <1>1, <1>3, <1>4, <1>5, <1>6 DEF BackupNext, BackupStep, AssetNext

LEMMA StoreTypes == StoreShape /\ StoreBounds => AssetTypeOK /\ BackupTypeOK
<1> SUFFICES ASSUME StoreShape, StoreBounds PROVE AssetTypeOK /\ BackupTypeOK
  OBVIOUS
<1>1. uploads \in [1..Uploaders -> Upload \cup {Idle}]
  BY DEF StoreShape
<1> QED
  BY <1>1 DEF StoreShape, StoreBounds, FilePair, AssetTypeOK, BackupTypeOK

(***************************************************************************)
(* Asset uploads and backup.py together never leave a version, an asset row *)
(* or a row of a finished backup pointing at bytes that are missing, torn   *)
(* or of another hash, unless two uploads were given one version number    *)
(* (components/assets/component.py, adapters/local_storage.py,              *)
(* scripts/backup.py), for any number of request threads and crashes.      *)
(***************************************************************************)
THEOREM StorageTheorem == BackupSpec => [](AssetTypeOK /\ BackupTypeOK /\ StorageSound)
<1>1. BackupInit => StoreBounds
  BY AssetAssumption DEF BackupInit, AssetInit, StoreBounds
<1>2. StorageInv => StoreShape
  BY DEF StorageInv
<1> QED
  BY <1>1, <1>2, StorageInit, StorageStep, StorageSettled, StoreBoundsKept, StoreTypes, PTL DEF BackupSpec

-----------------------------------------------------------------------------
(***************************************************************************)
(* LondonTime: every offset, every two changes of the clocks far enough    *)
(* apart, and every instant.                                               *)
(***************************************************************************)
\* What is on the display is the reading of the instant that was meant, and what was
\* typed back is read from it.
ClockInv ==
  /\ clock \in Instants /\ chosen \in Instants \cup {Unset}
  /\ shown # Unset => chosen \in Instants /\ shown = ToLocal(chosen)
  /\ parsed # Unset => shown # Unset /\ parsed = ParseLocal(shown)

LEMMA LondonConstants ==
  /\ Spring \in Nat /\ Autumn \in Nat /\ Hour \in Nat /\ MaxInstant \in Nat
  /\ Hour > 0 /\ Spring + Hour <= Autumn /\ Autumn + Hour <= MaxInstant
BY LondonAssumption

\* A reading typed back: an hour later in the first pass of the repeated hour, else the
\* same instant.
LEMMA RoundTrip ==
  ASSUME NEW u \in Nat
  PROVE  /\ ToLocal(u) \in Nat
         /\ ParseLocal(ToLocal(u)) = IF u \in (Autumn - Hour)..(Autumn - 1) THEN u + Hour ELSE u
<1> USE LondonConstants
<1> DEFINE w == ToLocal(u)
<1>1. w = IF Spring <= u /\ u < Autumn THEN u + Hour ELSE u
  BY DEF ToLocal, Offset
<1>2. w \in Nat /\ ~Skipped(w)
  BY <1>1 DEF Skipped
<1> HIDE DEF w
<1>3. CASE Repeated(w)
  <2>1. OffsetOf(w, 1) = 0
    BY <1>2, <1>3 DEF OffsetOf
  <2>2. Autumn <= w /\ w < Autumn + Hour
    BY <1>2, <1>3 DEF Repeated
  <2>3. ParseLocal(w) = w
    BY <2>1, <1>2 DEF ParseLocal
  <2> QED
    BY <2>2, <2>3, <1>1, <1>2 DEF w
<1>4. CASE ~Repeated(w)
  <2>1. OffsetOf(w, 1) = Offset(w - Hour)
    BY <1>2, <1>4 DEF OffsetOf
  <2>2. w < Autumn \/ w >= Autumn + Hour
    BY <1>2, <1>4 DEF Repeated
  <2>3. ParseLocal(w) = u
    BY <2>1, <2>2, <1>1, <1>2 DEF ParseLocal, Offset
  <2> QED
    BY <2>2, <2>3, <1>1, <1>2 DEF w
<1> QED
  BY <1>3, <1>4

LEMMA ClockStep == ClockInv /\ [ClockNext]_clockVars => ClockInv'
<1> SUFFICES ASSUME ClockInv, [ClockNext]_clockVars PROVE ClockInv'
  OBVIOUS
<1> USE DEF ClockInv, Instants
<1>1. ASSUME NEW u \in Instants, Format(u) PROVE ClockInv'
  <2>1. chosen' = u /\ shown' = ToLocal(u) /\ clock' = clock /\ parsed' = parsed /\ chosen = Unset
    BY <1>1 DEF Format
  <2>2. parsed = Unset
    BY <2>1, LondonConstants DEF Unset
  <2> QED
    BY <2>1, <2>2, <1>1 DEF ToLocal, Offset
<1>2. CASE Parse
  BY <1>2 DEF Parse, ToLocal, Offset, ParseLocal, OffsetOf, Skipped, Repeated
<1>3. CASE Arrive
  BY <1>3 DEF Arrive
<1>4. CASE Advance
  BY <1>4, LondonConstants DEF Advance, ToLocal, Offset, ParseLocal, OffsetOf, Skipped, Repeated
<1>5. CASE UNCHANGED clockVars
  BY <1>5 DEF clockVars, ToLocal, Offset, ParseLocal, OffsetOf, Skipped, Repeated
<1> QED
  BY <1>1, <1>2, <1>3, <1>4, <1>5 DEF ClockNext

LEMMA ClockTypes == ClockInv => ClockTypeOK
<1> SUFFICES ASSUME ClockInv PROVE ClockTypeOK
  OBVIOUS
<1>1. shown = Unset \/ shown \in 0..(MaxInstant + Hour)
  BY LondonConstants DEF ClockInv, Instants, ToLocal, Offset
<1>2. parsed = Unset \/ parsed \in Instants
  <2> SUFFICES ASSUME parsed # Unset PROVE parsed \in Instants
    OBVIOUS
  <2>1. chosen \in 0..MaxInstant /\ parsed = ParseLocal(ToLocal(chosen))
    BY DEF ClockInv, Instants
  <2>2. parsed = IF chosen \in (Autumn - Hour)..(Autumn - 1) THEN chosen + Hour ELSE chosen
    BY <2>1, RoundTrip, LondonConstants
  <2> QED
    BY <2>1, <2>2, LondonConstants DEF Instants
<1> QED
  BY <1>1, <1>2, LondonConstants DEF ClockInv, ClockTypeOK, Unset

LEMMA ClockReadBack == ClockInv => NeverReadEarly
<1> SUFFICES ASSUME ClockInv, parsed # Unset
             PROVE  /\ IsPastOrNow(parsed) => IsPastOrNow(chosen)
                    /\ parsed = IF chosen \in (Autumn - Hour)..(Autumn - 1) THEN chosen + Hour ELSE chosen
  BY DEF NeverReadEarly
<1>1. chosen \in Nat /\ clock \in Nat /\ parsed = ParseLocal(ToLocal(chosen))
  BY LondonConstants DEF ClockInv, Instants
<1>2. parsed = IF chosen \in (Autumn - Hour)..(Autumn - 1) THEN chosen + Hour ELSE chosen
  BY <1>1, RoundTrip
<1>3. chosen <= parsed /\ parsed \in Nat
  BY <1>1, <1>2, LondonConstants
<1> QED
  BY <1>1, <1>2, <1>3 DEF IsPastOrNow

(***************************************************************************)
(* A time shown on the London clock and typed back never comes due before   *)
(* the instant that was meant, and differs from it only in the first pass  *)
(* of the repeated hour (adapters/time_london.py), wherever summer time     *)
(* starts and ends.                                                        *)
(***************************************************************************)
THEOREM LondonTheorem == ClockSpec => [](ClockTypeOK /\ NeverReadEarly)
<1>1. ClockInit => ClockInv
  BY LondonConstants DEF ClockInit, ClockInv, Instants, Unset
<1> QED
  BY <1>1, ClockStep, ClockTypes, ClockReadBack, PTL DEF ClockSpec
-----------------------------------------------------------------------------
(* RestoreDrill: how far the drill is, and what its verdict stands for.    *)

\* The entries that were gone through, and half of the one that is open.
Verified == /\ \A k \in Listed(drill.list) \ drill.left : Restorable(k)
            /\ drill.at = "open" => shelf[drill.second][NextEntry].of = drill.list[NextEntry]
DrillInv ==
  /\ DrillTypeOK
  /\ saving.at = "copy" => backups # 0
  /\ drill.at \in {"hash", "open"} =>
       /\ drill.left # {} /\ drill.left \subseteq Listed(drill.list)
  /\ drill.at = "open" /\ ~disturbed => shelf[drill.second][NextEntry] # Missing
  /\ drill.at = "done" => drill.left = {}
  /\ drill.at = "idle" => drill.left = {} /\ drill.list = NoManifest
  /\ drill.at \in {"hash", "open"} /\ ~disturbed => (drill.sound <=> Verified)
  /\ DrillHonest

LEMMA DrillRecord ==
  ASSUME DrillTypeOK
  PROVE  /\ drill.at \in {"idle", "hash", "open", "done", "raised"} /\ drill.second \in Stamps
         /\ drill.list \in Manifest /\ drill.left \in SUBSET FileKinds /\ drill.sound \in BOOLEAN
         /\ DOMAIN drill = {"at", "second", "list", "left", "sound"}
  BY DEF DrillTypeOK

\* Files, manifests, backups and time that move on leave an undisturbed drill as it is.
LEMMA DrillStays ==
  ASSUME DrillInv, DrillTypeOK', (saving.at = "copy" => backups # 0)',
         UNCHANGED drill, ~disturbed' => ~disturbed,
         ~disturbed' /\ drill.at # "idle" => shelf'[drill.second] = shelf[drill.second]
  PROVE  DrillInv'
<1>1. CASE disturbed' \/ drill.at = "idle"
  BY <1>1 DEF DrillInv, DrillHonest
<1>2. CASE ~disturbed' /\ drill.at # "idle"
  <2>1. /\ Verified' <=> Verified
        /\ \A k : Restorable(k)' <=> Restorable(k)
        /\ NextEntry' = NextEntry
        /\ Listed(drill.list)' = Listed(drill.list)
    BY <1>2 DEF Verified, Restorable, NextEntry, Listed
  <2> QED
    BY <1>2, <2>1 DEF DrillInv, DrillHonest
<1> QED
  BY <1>1, <1>2

\* Whatever writes to the files of the drilled second says so.
LEMMA TouchTells ==
  ASSUME DrillInv, NEW s \in Stamps, NEW k \in FileKinds, NEW new \in File,
         shelf' = [shelf EXCEPT ![s][k] = new], Touch(s), UNCHANGED drill
  PROVE  /\ shelf' \in [Stamps -> [FileKinds -> File]] /\ disturbed' \in BOOLEAN
         /\ ~disturbed' => ~disturbed
         /\ ~disturbed' /\ drill.at # "idle" => shelf'[drill.second] = shelf[drill.second]
<1>1. shelf \in [Stamps -> [FileKinds -> File]] /\ disturbed \in BOOLEAN /\ drill.second \in Stamps
  BY DrillRecord DEF DrillInv, DrillTypeOK
<1> QED
  BY <1>1 DEF Touch

LEMMA FileFacts ==
  /\ Missing \in File
  /\ DamagedFile \subseteq File
  /\ \A n \in 1..MaxBackups, t \in BOOLEAN : [of |-> n, opens |-> TRUE, tables |-> t] \in File
  BY DEF File, CopiedFile

LEMMA ListFacts ==
  /\ NoManifest \in Manifest
  /\ NotSaving \in [at : {"rest", "copy"}, second : Stamps, made : Manifest]
  /\ NotDrilling \in [at : {"idle", "hash", "open", "done", "raised"}, second : Stamps,
                      list : Manifest, left : SUBSET FileKinds, sound : BOOLEAN]
  /\ \A m \in Manifest : m # NoManifest => Listed(m) # {}
  /\ \A m \in Manifest : Listed(m) \subseteq FileKinds
<1>1. NoManifest \in Manifest
  BY DrillAssumption DEF NoManifest, Manifest
<1>s. 0 \in Stamps
  BY DrillAssumption DEF Stamps
<1>3. NotSaving \in [at : {"rest", "copy"}, second : Stamps, made : Manifest]
  BY <1>1, <1>s DEF NotSaving
<1>4. NotDrilling \in [at : {"idle", "hash", "open", "done", "raised"}, second : Stamps,
                      list : Manifest, left : SUBSET FileKinds, sound : BOOLEAN]
  BY <1>1, <1>s DEF NotDrilling
<1>2. ASSUME NEW m \in Manifest, Listed(m) = {}
      PROVE  m = NoManifest
  <2>1. \A k \in FileKinds : m[k] = 0
    BY <1>2 DEF Listed
  <2> QED
    BY <2>1 DEF Manifest, NoManifest
<1> QED
  BY <1>1, <1>2, <1>3, <1>4 DEF Listed

\* An entry is done with; its verdict counts for the whole.
LEMMA EntryEnds ==
  ASSUME DrillInv, drill.at \in {"hash", "open"}, NEW v \in BOOLEAN, EndEntry(v),
         UNCHANGED <<shelf, manifests, saving, stampNow, backups, harmed, disturbed>>,
         ~disturbed /\ drill.at = "hash" => (v <=> Restorable(NextEntry)),
         ~disturbed /\ drill.at = "open" =>
           (v /\ shelf[drill.second][NextEntry].of = drill.list[NextEntry] <=> Restorable(NextEntry))
  PROVE  DrillInv'
<1> DEFINE left == drill.left \ {NextEntry}
           at == IF left = {} THEN "done" ELSE "hash"
           sound == drill.sound /\ v
<1>1. DrillTypeOK /\ drill.left \subseteq Listed(drill.list) /\ NextEntry \in drill.left
  BY DEF DrillInv, DrillTypeOK, NextEntry, FileKinds
<1>2. drill' = [drill EXCEPT !.at = at, !.left = left, !.sound = sound]
  BY DEF EndEntry
<1>3. at \in {"done", "hash"} /\ left \in SUBSET FileKinds /\ sound \in BOOLEAN
  BY <1>1, DrillRecord
<1>4. at = "done" <=> left = {}
  OBVIOUS
<1>s. sound <=> drill.sound /\ v
  OBVIOUS
<1>l. left = drill.left \ {NextEntry}
  OBVIOUS
<1> HIDE DEF left, at, sound
<1>5. /\ drill'.at = at /\ drill'.left = left /\ drill'.sound = sound
      /\ drill'.second = drill.second /\ drill'.list = drill.list
  BY <1>1, <1>2, DrillRecord, Zenon
<1>6. DrillTypeOK'
  BY <1>1, <1>2, <1>3 DEF DrillTypeOK
<1>7. \A k : Restorable(k)' <=> Restorable(k)
  BY <1>5 DEF Restorable
<1>9. ASSUME ~disturbed
      PROVE  drill.sound /\ v <=> \A k \in Listed(drill.list) \ left : Restorable(k)
  <2>1. drill.sound <=> Verified
    BY <1>9 DEF DrillInv
  <2>2. Listed(drill.list) \ left = (Listed(drill.list) \ drill.left) \cup {NextEntry}
    BY <1>1, <1>l
  <2>3. CASE drill.at = "hash"
    <3>1. Verified <=> \A k \in Listed(drill.list) \ drill.left : Restorable(k)
      BY <2>3 DEF Verified
    <3> QED
      BY <1>9, <2>1, <2>2, <2>3, <3>1
  <2>4. CASE drill.at = "open"
    <3>1. Verified <=> /\ \A k \in Listed(drill.list) \ drill.left : Restorable(k)
                       /\ shelf[drill.second][NextEntry].of = drill.list[NextEntry]
      BY <2>4 DEF Verified
    <3>2. Restorable(NextEntry) => shelf[drill.second][NextEntry].of = drill.list[NextEntry]
      BY DEF Restorable
    <3> QED
      BY <1>9, <2>1, <2>2, <2>4, <3>1, <3>2
  <2> QED
    BY <2>3, <2>4
<1>10. Listed(drill.list)' = Listed(drill.list)
  BY <1>5 DEF Listed
<1>11. Verified' <=> \A k \in Listed(drill.list) \ left : Restorable(k)
  BY <1>3, <1>5, <1>7, <1>10 DEF Verified
<1>12. ~disturbed => (sound <=> \A k \in Listed(drill.list) \ left : Restorable(k))
  BY <1>9, <1>s
<1>13. CASE left = {}
  <2>1. at = "done" /\ Listed(drill.list) \ left = Listed(drill.list) /\ Listed(drill.list) # {}
    BY <1>1, <1>4, <1>13
  <2>2. DrillHonest'
    BY <1>5, <1>7, <1>10, <1>12, <2>1 DEF DrillHonest
  <2> QED
    BY <1>5, <1>6, <1>13, <2>1, <2>2 DEF DrillInv
<1>14. CASE left # {}
  <2>1. at = "hash" /\ left \subseteq Listed(drill.list)
    BY <1>1, <1>3, <1>4, <1>l, <1>14
  <2>2. DrillHonest'
    BY <1>5, <2>1 DEF DrillHonest
  <2> QED
    BY <1>5, <1>6, <1>10, <1>11, <1>12, <1>14, <2>1, <2>2 DEF DrillInv
<1> QED
  BY <1>13, <1>14

LEMMA DrillStep == DrillInv /\ [DrillNext]_drillVars => DrillInv'
<1> SUFFICES ASSUME DrillInv, [DrillNext]_drillVars PROVE DrillInv'
  OBVIOUS
<1>t. DrillTypeOK
  BY DEF DrillInv
<1>n. NotSaving.at = "rest"
  BY DEF NotSaving
<1>1. CASE BeginBackup
  <2>1. DrillTypeOK' /\ (saving'.at = "copy" => backups' # 0)
    BY <1>1, <1>t, ListFacts, DrillAssumption DEF BeginBackup, DrillTypeOK
  <2> QED
    BY <1>1, <2>1, DrillStays DEF BeginBackup
<1>2. ASSUME NEW k \in FileKinds, NEW tables \in BOOLEAN, CopyKind(k, tables)
      PROVE  DrillInv'
  <2> DEFINE new == [of |-> backups, opens |-> TRUE, tables |-> tables]
  <2>1. backups \in 1..MaxBackups
    BY <1>2, <1>t, DrillAssumption DEF DrillTypeOK, DrillInv, CopyKind
  <2>2. new \in File
    BY <2>1, FileFacts
  <2>3. /\ shelf' = [shelf EXCEPT ![saving.second][k] = new] /\ Touch(saving.second)
        /\ saving' = [saving EXCEPT !.made[k] = backups]
        /\ UNCHANGED <<manifests, drill, stampNow, backups, harmed>>
    BY <1>2 DEF CopyKind
  <2> HIDE DEF new
  <2>4. saving.second \in Stamps
    BY <1>t DEF DrillTypeOK
  <2>5. /\ shelf' \in [Stamps -> [FileKinds -> File]] /\ disturbed' \in BOOLEAN
        /\ ~disturbed' => ~disturbed
        /\ ~disturbed' /\ drill.at # "idle" => shelf'[drill.second] = shelf[drill.second]
    BY <2>2, <2>3, <2>4, TouchTells
  <2> DEFINE listed == [saving.made EXCEPT ![k] = backups]
  <2>m. listed \in Manifest
    BY <1>t, <2>1 DEF DrillTypeOK, Manifest
  <2>s. saving' = [saving EXCEPT !.made = listed]
    BY <2>3
  <2> HIDE DEF listed
  <2>6. /\ saving' \in [at : {"rest", "copy"}, second : Stamps, made : Manifest]
        /\ backups' # 0
    BY <1>t, <2>1, <2>3, <2>m, <2>s, SMTT(30) DEF DrillTypeOK
  <2>7. DrillTypeOK'
    BY <1>t, <2>3, <2>5, <2>6 DEF DrillTypeOK
  <2> QED
    BY <2>3, <2>5, <2>6, <2>7, DrillStays
<1>3. CASE WriteManifest
  <2>1. DrillTypeOK' /\ (saving'.at = "copy" => backups' # 0)
    BY <1>3, <1>t, ListFacts, <1>n DEF WriteManifest, DrillTypeOK
  <2> QED
    BY <1>3, <2>1, DrillStays DEF WriteManifest
<1>4. CASE AbandonBackup
  <2>1. DrillTypeOK' /\ (saving'.at = "copy" => backups' # 0)
    BY <1>4, <1>t, ListFacts, <1>n DEF AbandonBackup, DrillTypeOK
  <2> QED
    BY <1>4, <2>1, DrillStays DEF AbandonBackup
<1>5. ASSUME NEW s \in Stamps, NEW k \in FileKinds, NEW new \in {Missing} \union DamagedFile,
             Harm(s, k, new)
      PROVE  DrillInv'
  <2>1. new \in File
    BY FileFacts
  <2>2. /\ shelf' = [shelf EXCEPT ![s][k] = new] /\ Touch(s) /\ harmed < MaxHarm
        /\ harmed' = harmed + 1
        /\ UNCHANGED <<manifests, saving, drill, stampNow, backups>>
    BY <1>5 DEF Harm
  <2>3. /\ shelf' \in [Stamps -> [FileKinds -> File]] /\ disturbed' \in BOOLEAN
        /\ ~disturbed' => ~disturbed
        /\ ~disturbed' /\ drill.at # "idle" => shelf'[drill.second] = shelf[drill.second]
    BY <2>1, <2>2, TouchTells
  <2>4. harmed' \in 0..MaxHarm
    BY <1>t, <2>2, DrillAssumption DEF DrillTypeOK
  <2>5. DrillTypeOK' /\ (saving'.at = "copy" => backups' # 0)
    BY <1>t, <2>2, <2>3, <2>4 DEF DrillTypeOK, DrillInv
  <2> QED
    BY <2>2, <2>3, <2>5, DrillStays
<1>6. CASE PassSecond
  <2>1. DrillTypeOK' /\ (saving'.at = "copy" => backups' # 0)
    BY <1>6, <1>t, DrillAssumption DEF PassSecond, DrillTypeOK, DrillInv, Stamps
  <2> QED
    BY <1>6, <2>1, DrillStays DEF PassSecond
<1>7. CASE BeginDrill
  <2>1. /\ UNCHANGED <<shelf, manifests, saving, stampNow, backups, harmed>>
        /\ disturbed' = FALSE /\ drill.at = "idle"
    BY <1>7 DEF BeginDrill
  <2>2. CASE drill' = [drill EXCEPT !.at = "done", !.sound = FALSE]
    <3>1. drill' = [drill EXCEPT !.at = "done", !.sound = FALSE]
      BY <2>2
    <3>2. /\ drill'.at = "done" /\ drill'.sound = FALSE /\ drill'.left = drill.left
          /\ drill'.list = drill.list
      BY <1>t, <3>1, DrillRecord, Zenon
    <3>3. DrillTypeOK'
      BY <1>t, <2>1, <3>1 DEF DrillTypeOK
    <3>4. drill.left = {} /\ drill.list = NoManifest
      BY <2>1 DEF DrillInv
    <3>5. Listed(drill'.list) = {}
      BY <3>2, <3>4 DEF Listed, NoManifest
    <3>6. DrillHonest'
      BY <3>2, <3>5 DEF DrillHonest
    <3> QED
      BY <2>1, <3>2, <3>3, <3>4, <3>6 DEF DrillInv
  <2>3. ASSUME NEW s \in Stamps, IsNewest(s),
               drill' = [at |-> "hash", second |-> s, list |-> manifests[s],
                         left |-> Listed(manifests[s]), sound |-> TRUE]
        PROVE  DrillInv'
    <3>1. drill' = [at |-> "hash", second |-> s, list |-> manifests[s],
                    left |-> Listed(manifests[s]), sound |-> TRUE]
      BY <2>3
    <3>3. /\ manifests[s] \in Manifest
          /\ Listed(manifests[s]) # {} /\ Listed(manifests[s]) \subseteq FileKinds
      BY <1>t, <2>3, ListFacts DEF IsNewest, Finished, DrillTypeOK
    <3>4. DrillTypeOK'
      BY <1>t, <2>1, <3>1, <3>3 DEF DrillTypeOK
    <3>5. /\ drill'.at = "hash" /\ drill'.left = Listed(drill'.list) /\ drill'.sound = TRUE
          /\ drill'.left # {}
      BY <3>1, <3>3
    <3>6. Verified'
      BY <3>5 DEF Verified
    <3> QED
      BY <2>1, <3>4, <3>5, <3>6 DEF DrillInv, DrillHonest
  <2> QED
    BY <1>7, <2>2, <2>3 DEF BeginDrill
<1>8. CASE CheckHash
  <2> DEFINE file == shelf[drill.second][NextEntry]
  <2>1. /\ UNCHANGED <<shelf, manifests, saving, stampNow, backups, harmed, disturbed>>
        /\ drill.at = "hash"
    BY <1>8 DEF CheckHash
  <2>2. drill.list[NextEntry] \in Nat \ {0} /\ drill.list \in Manifest /\ NextEntry \in drill.left
    BY <1>t, <2>1, DrillRecord DEF DrillInv, Listed, Manifest, NextEntry, FileKinds
  <2>3. CASE file = Missing
    <3>1. EndEntry(FALSE)
      BY <1>8, <2>3 DEF CheckHash
    <3>2. ~Restorable(NextEntry)
      BY <2>3 DEF Restorable, Missing
    <3> QED
      BY <2>1, <3>1, <3>2, EntryEnds
  <2>4. CASE file # Missing
    <3> DEFINE agrees == file.of = drill.list[NextEntry]
    <3>1. drill' = [drill EXCEPT !.at = "open", !.sound = @ /\ agrees]
      BY <1>8, <2>4 DEF CheckHash
    <3>2. /\ drill'.at = "open" /\ drill'.sound = (drill.sound /\ agrees)
          /\ drill'.left = drill.left /\ drill'.second = drill.second /\ drill'.list = drill.list
      BY <1>t, <3>1, DrillRecord, Zenon
    <3>3. (drill.sound /\ agrees) \in BOOLEAN
      BY <1>t, DrillRecord
    <3>4. DrillTypeOK'
      BY <1>t, <2>1, <3>1, <3>3 DEF DrillTypeOK
    <3>5. /\ NextEntry' = NextEntry /\ Listed(drill.list)' = Listed(drill.list)
          /\ \A k : Restorable(k)' <=> Restorable(k)
      BY <2>1, <3>2 DEF NextEntry, Listed, Restorable
    <3>6. ~disturbed => (drill.sound <=> \A k \in Listed(drill.list) \ drill.left : Restorable(k))
      BY <2>1 DEF DrillInv, Verified
    <3>7. Verified' <=> (\A k \in Listed(drill.list) \ drill.left : Restorable(k)) /\ agrees
      BY <2>1, <3>2, <3>5 DEF Verified
    <3> QED
      BY <2>1, <2>4, <3>2, <3>4, <3>5, <3>6, <3>7 DEF DrillInv, DrillHonest
  <2> QED
    BY <2>3, <2>4
<1>9. CASE OpenCopy
  <2> DEFINE file == shelf[drill.second][NextEntry]
             v == file.opens /\ (NextEntry = "database" => file.tables)
  <2>1. /\ UNCHANGED <<shelf, manifests, saving, stampNow, backups, harmed, disturbed>>
        /\ drill.at = "open"
    BY <1>9 DEF OpenCopy
  <2>2. CASE EndEntry(v)
    <3>1. NextEntry \in FileKinds /\ drill.second \in Stamps
      BY <1>t, DrillRecord DEF NextEntry, FileKinds
    <3>2. v \in BOOLEAN
      BY <1>t, <3>1 DEF DrillTypeOK, File, Missing, CopiedFile, DamagedFile
    <3>3. v /\ file.of = drill.list[NextEntry] <=> Restorable(NextEntry)
      BY DEF Restorable
    <3> QED
      BY <2>1, <2>2, <3>2, <3>3, EntryEnds
  <2>3. CASE drill' = [drill EXCEPT !.at = "raised"]
    <3>1. DrillTypeOK' /\ drill'.at = "raised"
      BY <1>t, <2>1, <2>3 DEF DrillTypeOK
    <3> QED
      BY <2>1, <3>1 DEF DrillInv, DrillHonest
  <2> QED
    BY <1>9, <2>2, <2>3 DEF OpenCopy
<1>10. CASE EndDrill
  <2>1. DrillTypeOK'
    BY <1>10, <1>t, ListFacts DEF EndDrill, DrillTypeOK
  <2>2. drill'.at = "idle" /\ drill'.left = {} /\ drill'.list = NoManifest
    BY <1>10 DEF EndDrill, NotDrilling
  <2> QED
    BY <1>10, <2>1, <2>2 DEF EndDrill, DrillInv, DrillHonest
<1>11. CASE UNCHANGED drillVars
  BY <1>11, <1>t, DrillStays DEF drillVars, DrillTypeOK, DrillInv
<1> QED
  BY <1>1, <1>2, <1>3, <1>4, <1>5, <1>6, <1>7, <1>8, <1>9, <1>10, <1>11 DEF DrillNext

(* Whatever backups and files do around it, a drill that nothing disturbs   *)
(* passes exactly when all that the newest manifest lists can be restored.  *)
THEOREM DrillTheorem == DrillSpec => [](DrillTypeOK /\ DrillHonest)
<1>1. DrillInit => DrillInv
  <2> SUFFICES ASSUME DrillInit PROVE DrillInv
    OBVIOUS
  <2>1. 0 \in Stamps /\ 0 \in 0..MaxBackups /\ 0 \in 0..MaxHarm
    BY DrillAssumption DEF Stamps
  <2>2. DrillTypeOK
    BY <2>1, ListFacts, FileFacts DEF DrillInit, DrillTypeOK
  <2>3. /\ saving.at = "rest" /\ drill.at = "idle" /\ drill.left = {}
        /\ drill.list = NoManifest
    BY DEF DrillInit, NotSaving, NotDrilling
  <2> QED
    BY <2>2, <2>3 DEF DrillInv, DrillHonest
<1>2. DrillInv => DrillTypeOK /\ DrillHonest
  BY DEF DrillInv
<1> QED
  BY <1>1, <1>2, DrillStep, PTL DEF DrillSpec

-----------------------------------------------------------------------------
(***************************************************************************)
(* Access: any number of threads, users and invites, any addresses,         *)
(* lifetimes and bounds.                                                    *)
(***************************************************************************)
(* The inductive invariant. *)

\* A redeemer makes a new user; an invite is marked with the user it made.
WriteInv(t) ==
  LET r == requests[t] IN
  /\ r.op = "redeemer" => r.id \notin Known
  /\ r.op = "mark" => r.id \in Known /\ born[r.id] = r.invite
  /\ r.op \in {"redeemer", "mark"} => r.invite \in 1..Len(invites)

\* No other request writes the row of a redeemer.
RowsApart ==
  \A t, o \in 1..Threads :
    /\ t # o
    /\ requests[t].op = "redeemer"
    /\ requests[o].op \in {"user", "redeemer"}
    => requests[t].id # requests[o].id

BornInv ==
  /\ \A u \in 1..MaxUsers : born[u] \in 0..Len(invites)
  /\ \A u \in (1..MaxUsers) \ Known : born[u] = Nobody
  /\ \A i \in 1..Len(invites) :
       invites[i].by # Nobody => invites[i].by \in Known /\ born[invites[i].by] = i

\* As long as no redemption was cut: an invite that made a user has its mark or is
\* about to get it, and one that is being redeemed made none and is nobody else's.
OnePerInvite ==
  /\ \A u \in Known : born[u] # Nobody =>
       \/ invites[born[u]].by = u
       \/ \E t \in 1..Threads :
            requests[t].op = "mark" /\ requests[t].invite = born[u] /\ requests[t].id = u
  /\ \A t \in 1..Threads : requests[t].op \in {"redeemer", "mark"} =>
       /\ invites[requests[t].invite].by = Nobody
       /\ \A o \in 1..Threads :
            o # t /\ requests[o].op \in {"redeemer", "mark"} =>
              requests[o].invite # requests[t].invite
  /\ \A t \in 1..Threads : requests[t].op = "redeemer" =>
       \A u \in Known : born[u] # requests[t].invite

OnceInv == ~cut => OnePerInvite

\* A row about to be written on fresh reads leaves an administrator, and its user no
\* session if it disables him; a session about to be made is of an active user.
FreshInv(t) ==
  LET r == requests[t] IN
  ~crossed /\ r.op # "none" /\ r.fresh =>
    /\ r.op \in {"user", "redeemer"} =>
         /\ \E u \in Known : Admins(u) /\ (u = r.id => r.row.admin /\ r.row.active)
         /\ ~r.row.active => \A s \in sessions : s.user # r.id
    /\ r.op = "session" => r.id \in Known /\ users[r.id].active

AccountsInv ==
  ~crossed => /\ \E u \in Known : Admins(u)
              /\ \A s \in sessions : s.user \in Known /\ users[s.user].active

AccessInv ==
  /\ AccessTypeOK /\ RowsApart /\ BornInv /\ OnceInv /\ AccountsInv
  /\ \A t \in 1..Threads : WriteInv(t) /\ FreshInv(t)

-----------------------------------------------------------------------------
(* Lemmas about requests and ids. *)

LEMMA RequestType ==
  /\ None.op = "none"
  /\ \A r \in Request : r.op # "none" /\ r # None
BY DEF None, Request

\* Requests, looked at through their op.
LEMMA RequestsType ==
  ASSUME AccessTypeOK, NEW t \in 1..Threads
  PROVE  /\ requests[t].op = "none" <=> requests[t] = None
         /\ requests[t].op # "none" <=> t \in Serving
         /\ requests[t].op # "none" => requests[t] \in Request
<1>1. requests[t] \in Request \cup {None}
  BY DEF AccessTypeOK
<1> QED
  BY <1>1, RequestType DEF Serving

\* An id that NewId hands out is nobody's yet.
LEMMA NewIdFree ==
  ASSUME AccessTypeOK, NewId <= MaxUsers
  PROVE  NewId \in 1..MaxUsers /\ NewId \notin Taken
<1> DEFINE Spare == {n \in 1..(MaxUsers + 1) : n \notin Taken}
<1>1. MaxUsers \in Nat \ {0}
  BY AccessAssumption
<1>2. Taken \subseteq 1..MaxUsers
  <2>1. \A t \in Serving : requests[t] \in Request
    BY RequestsType DEF Serving, AccessTypeOK
  <2> QED
    BY <2>1 DEF Taken, AccessTypeOK, Request
<1>3. MaxUsers + 1 \in Spare /\ Spare \subseteq Nat
  BY <1>1, <1>2
<1>4. PICK n \in Spare : \A m \in Spare : ~(m < n)
  <2>1. \A x, y \in Nat : <<x, y>> \in OpToRel(<, Nat) <=> x < y
    BY DEF OpToRel
  <2>2. \E n \in Spare : \A m \in Spare : ~(<<m, n>> \in OpToRel(<, Nat))
    BY <1>3, NatLessThanWellFounded, WFMin
  <2> QED
    BY <1>3, <2>1, <2>2
<1>5. n \in 1..(MaxUsers + 1) /\ n \notin Taken /\ 1..(n - 1) \subseteq Taken
  BY <1>1, <1>4
<1>6. NewId \in 1..(MaxUsers + 1) /\ NewId \notin Taken
  BY <1>5 DEF NewId
<1> QED
  BY <1>1, <1>6

\* The requests after a write: the writer's is done, the others' reads are stale.
LEMMA PendingFacts ==
  ASSUME AccessTypeOK, NEW t \in 1..Threads
  PROVE  /\ Pending(t) \in [1..Threads -> Request \cup {None}]
         /\ Pending(t)[t].op = "none"
         /\ \A o \in (1..Threads) \ {t} :
              /\ Pending(t)[o].op = requests[o].op
              /\ requests[o].op # "none" =>
                   /\ Pending(t)[o].id = requests[o].id
                   /\ Pending(t)[o].invite = requests[o].invite
                   /\ ~Pending(t)[o].fresh
<1>1. ASSUME NEW o \in (1..Threads) \ {t}
      PROVE  /\ Pending(t)[o] \in Request \cup {None}
             /\ Pending(t)[o].op = requests[o].op
             /\ requests[o].op # "none" =>
                  /\ Pending(t)[o].id = requests[o].id
                  /\ Pending(t)[o].invite = requests[o].invite
                  /\ ~Pending(t)[o].fresh
  <2>1. CASE requests[o] = None
    BY <2>1, RequestType DEF Pending
  <2>2. CASE requests[o] # None
    <3>1. Pending(t)[o] = [requests[o] EXCEPT !.fresh = FALSE]
      BY <2>2 DEF Pending
    <3>2. requests[o] \in Request
      BY <2>2 DEF AccessTypeOK
    <3> QED
      BY <3>1, <3>2 DEF Request
  <2> QED
    BY <2>1, <2>2
<1>2. Pending(t)[t] = None
  BY DEF Pending
<1>3. Pending(t) = [o \in 1..Threads |-> Pending(t)[o]]
  BY DEF Pending
<1> QED
  BY <1>1, <1>2, <1>3, RequestType

-----------------------------------------------------------------------------
(* Steps that begin a request. *)

\* A request is planned on what it has just read.
LEMMA PlanStep ==
  ASSUME AccessInv, NEW t \in 1..Threads, NEW r \in Request, Plan(t, r), r.op # "mark",
         UNCHANGED <<users, invites, day, born, crossed>>, sessions' \subseteq sessions,
         cut' \in BOOLEAN, cut => cut',
         r.op = "user" => r.id \in Known \/ r.id \notin Taken,
         r.op = "redeemer" =>
           /\ r.id \notin Taken /\ r.invite \in 1..Len(invites)
           /\ ~cut' => /\ invites[r.invite].by = Nobody
                       /\ \A o \in Serving : requests[o].invite # r.invite,
         ~crossed =>
           /\ r.op \in {"user", "redeemer"} =>
                /\ \E u \in Known : Admins(u) /\ (u = r.id => r.row.admin /\ r.row.active)
                /\ ~r.row.active => \A s \in sessions' : s.user # r.id
           /\ r.op = "session" => r.id \in Known /\ users[r.id].active
  PROVE  AccessInv'
<1>1. /\ requests'[t] = r /\ requests[t].op = "none" /\ r.op # "none"
      /\ \A o \in (1..Threads) \ {t} : requests'[o] = requests[o]
  BY RequestType DEF Plan, Ready, Serving, AccessInv, AccessTypeOK
<1>2. Known' = Known /\ \A u : Admins(u)' <=> Admins(u)
  BY DEF Known, Admins
<1>3. AccessTypeOK'
  <2>1. requests' \in [1..Threads -> Request \cup {None}] /\ requested' \in 0..MaxBegun
    BY AccessAssumption DEF Plan, Ready, AccessInv, AccessTypeOK
  <2> QED
    BY <1>2, <2>1 DEF AccessInv, AccessTypeOK
<1>4. RowsApart'
  <2>1. \A o \in (1..Threads) \ {t} : requests[o].op \in {"user", "redeemer"} =>
          requests[o].id \in Taken
    BY RequestsType DEF Taken, AccessInv
  <2>2. \A o \in 1..Threads : requests[o].op = "redeemer" => requests[o].id \notin Known
    BY DEF AccessInv, WriteInv
  <2> QED
    BY <1>1, <2>1, <2>2 DEF AccessInv, RowsApart
<1>5. BornInv'
  BY <1>2 DEF AccessInv, BornInv
<1>6. OnceInv'
  <2> SUFFICES ASSUME ~cut' PROVE OnceInv'
    BY DEF OnceInv
  <2>1. \A o \in 1..Threads : requests[o].op # "none" => o \in Serving
    BY RequestsType DEF AccessInv
  <2>2. /\ \A u \in Known : born[u] # Nobody =>
            \/ invites[born[u]].by = u
            \/ \E o \in Serving : requests[o].op = "mark" /\ requests[o].invite = born[u]
                                  /\ requests[o].id = u
        /\ \A o \in 1..Threads : requests[o].op \in {"redeemer", "mark"} =>
             /\ invites[requests[o].invite].by = Nobody
             /\ \A p \in 1..Threads :
                  p # o /\ requests[p].op \in {"redeemer", "mark"} =>
                    requests[p].invite # requests[o].invite
        /\ \A o \in 1..Threads : requests[o].op = "redeemer" =>
             \A u \in Known : born[u] # requests[o].invite
    BY <2>1 DEF AccessInv, OnceInv, OnePerInvite
  <2>3. \A u \in Known : u # Nobody
    BY DEF AccessInv, AccessTypeOK, Nobody
  <2>4. ASSUME r.op = "redeemer"
        PROVE  \A u \in Known : born[u] # r.invite
    <3>1. r.invite # Nobody
      BY <2>4, LenProperties DEF AccessInv, AccessTypeOK, Nobody
    <3> QED
      BY <2>2, <2>3, <2>4, <3>1
  <2>5. \A u \in Known : born[u] # Nobody =>
          \/ invites[born[u]].by = u
          \/ \E o \in 1..Threads :
               requests'[o].op = "mark" /\ requests'[o].invite = born[u] /\ requests'[o].id = u
    BY <1>1, <2>2 DEF Serving
  <2>6. \A o \in 1..Threads : requests'[o].op \in {"redeemer", "mark"} =>
          /\ invites[requests'[o].invite].by = Nobody
          /\ \A p \in 1..Threads :
               p # o /\ requests'[p].op \in {"redeemer", "mark"} =>
                 requests'[p].invite # requests'[o].invite
    BY <1>1, <2>1, <2>2
  <2>7. \A o \in 1..Threads : requests'[o].op = "redeemer" =>
          \A u \in Known : born[u] # requests'[o].invite
    BY <1>1, <2>2, <2>4
  <2> QED
    BY <1>2, <2>5, <2>6, <2>7 DEF OnceInv, OnePerInvite
<1>7. AccountsInv'
  BY <1>2 DEF AccessInv, AccountsInv
<1>8. ASSUME NEW o \in 1..Threads
      PROVE  WriteInv(o)' /\ FreshInv(o)'
  <2>1. CASE o = t
    <3>1. WriteInv(t)'
      BY <1>1, <1>2 DEF WriteInv, Taken
    <3>2. FreshInv(t)'
      BY <1>1, <1>2 DEF FreshInv
    <3> QED
      BY <2>1, <3>1, <3>2
  <2>2. CASE o # t
    <3>1. WriteInv(o) /\ FreshInv(o) /\ requests'[o] = requests[o]
      BY <1>1, <2>2 DEF AccessInv
    <3>2. WriteInv(o)'
      BY <1>2, <3>1 DEF WriteInv
    <3>3. FreshInv(o)'
      BY <1>2, <3>1 DEF FreshInv
    <3> QED
      BY <3>2, <3>3
  <2> QED
    BY <2>1, <2>2
<1> QED
  BY <1>3, <1>4, <1>5, <1>6, <1>7, <1>8 DEF AccessInv

LEMMA LoginStep ==
  ASSUME AccessInv, NEW t \in 1..Threads, NEW u \in Known, Login(t, u)
  PROVE  AccessInv'
<1> DEFINE r == [op |-> "session", id |-> u, row |-> users[u], invite |-> 0, fresh |-> TRUE]
<1>1. r \in Request
  BY AccessAssumption DEF AccessInv, AccessTypeOK, Request
<1>2. /\ r.op = "session" /\ r.id = u /\ Plan(t, r) /\ users[u].active
      /\ UNCHANGED <<users, invites, sessions, day, born, crossed, cut>>
  BY DEF Login
<1>3. cut \in BOOLEAN
  BY DEF AccessInv, AccessTypeOK
<1> HIDE DEF r
<1> QED
  BY <1>1, <1>2, <1>3, PlanStep

LEMMA CreateUserStep ==
  ASSUME AccessInv, NEW t \in 1..Threads, NEW actor \in Known, NEW e \in Addresses,
         NEW admin \in BOOLEAN, CreateUser(t, actor, e, admin)
  PROVE  AccessInv'
<1> DEFINE r == [op |-> "user", id |-> NewId, invite |-> 0, fresh |-> TRUE,
                 row |-> [email |-> e, admin |-> admin, active |-> TRUE]]
<1>1. NewId \in 1..MaxUsers /\ NewId \notin Taken
  BY NewIdFree DEF CreateUser, AccessInv
<1>2. r \in Request
  BY <1>1, AccessAssumption DEF Request, User
<1>3. /\ r.op = "user" /\ r.id = NewId /\ r.row.active /\ Plan(t, r) /\ Admins(actor)
      /\ UNCHANGED <<users, invites, sessions, day, born, crossed, cut>>
  BY DEF CreateUser
<1>4. cut \in BOOLEAN /\ actor # NewId
  BY <1>1 DEF AccessInv, AccessTypeOK, Taken
<1> HIDE DEF r
<1> QED
  BY <1>1, <1>2, <1>3, <1>4, PlanStep

LEMMA UpdateUserStep ==
  ASSUME AccessInv, NEW t \in 1..Threads, NEW actor \in Known, NEW u \in Known,
         NEW admin \in BOOLEAN, NEW active \in BOOLEAN, UpdateUser(t, actor, u, admin, active)
  PROVE  AccessInv'
<1> DEFINE r == [op |-> "user", id |-> u, invite |-> 0, fresh |-> TRUE,
                 row |-> [users[u] EXCEPT !.admin = admin, !.active = active]]
<1>1. users[u] \in User /\ u \in 1..MaxUsers
  BY DEF AccessInv, AccessTypeOK
<1>2. /\ r.row \in User /\ r.row.admin = admin /\ r.row.active = active
  BY <1>1 DEF User
<1>3. r \in Request
  BY <1>1, <1>2, AccessAssumption DEF Request
<1>4. /\ r.op = "user" /\ r.id = u /\ Plan(t, r) /\ Admins(actor)
      /\ UNCHANGED <<users, invites, day, born, crossed, cut>>
      /\ sessions' = sessions \ Dropped(u, active)
  BY DEF UpdateUser
<1>5. actor = u => admin /\ active
  BY DEF UpdateUser, LocksSelfOut, Admins
<1>6. ~crossed /\ ~active => \A s \in sessions' : s.user # u
  BY <1>4 DEF Dropped, AccessInv, AccountsInv
<1>7. cut \in BOOLEAN
  BY DEF AccessInv, AccessTypeOK
<1> HIDE DEF r
<1> QED
  BY <1>2, <1>3, <1>4, <1>5, <1>6, <1>7, PlanStep

LEMMA RedeemStep ==
  ASSUME AccessInv, NEW t \in 1..Threads, NEW i \in 1..MaxInvites, NEW e \in Addresses,
         Redeem(t, i, e)
  PROVE  AccessInv'
<1> DEFINE r == [op |-> "redeemer", id |-> NewId, invite |-> i, fresh |-> TRUE,
                 row |-> [email |-> e, admin |-> invites[i].admin, active |-> TRUE]]
<1>1. NewId \in 1..MaxUsers /\ NewId \notin Taken
  BY NewIdFree DEF Redeem, RedeemAny, AccessInv
<1>2. i \in 1..Len(invites) /\ invites[i] \in Invite /\ invites[i].by = Nobody
  BY ElementOfSeq DEF Redeem, AccessInv, AccessTypeOK
<1>3. r \in Request
  BY <1>1, <1>2, AccessAssumption DEF Request, User, Invite
<1>4. /\ r.op = "redeemer" /\ r.id = NewId /\ r.invite = i /\ r.row.active /\ Plan(t, r)
      /\ cut' = (cut \/ \E o \in Serving : requests[o].invite = i)
      /\ UNCHANGED <<users, invites, sessions, day, born, crossed>>
  BY DEF Redeem, RedeemAny
<1>5. cut \in BOOLEAN
  BY DEF AccessInv, AccessTypeOK
<1>6. ~crossed => \E u \in Known : Admins(u) /\ u # NewId
  BY <1>1 DEF AccessInv, AccountsInv, Taken
<1> HIDE DEF r
<1> QED
  BY <1>1, <1>2, <1>3, <1>4, <1>5, <1>6, PlanStep

\* run_create of an invite, which is one write.
LEMMA CreateInviteStep ==
  ASSUME AccessInv, NEW t \in 1..Threads, NEW actor \in Known, NEW admin \in BOOLEAN,
         CreateInvite(t, actor, admin)
  PROVE  AccessInv'
<1> DEFINE new == [admin |-> admin, ends |-> day + InviteLife, by |-> Nobody]
<1>1. /\ Len(invites) < MaxInvites /\ invites' = Append(invites, new)
      /\ requested < MaxBegun /\ requested' = requested + 1
      /\ UNCHANGED <<users, sessions, requests, day, born, crossed, cut>>
  BY DEF CreateInvite, Ready
<1>2. new \in Invite /\ new.by = Nobody
  BY AccessAssumption DEF AccessInv, AccessTypeOK, Invite, Nobody
<1> HIDE DEF new
<1>3. /\ invites' \in Seq(Invite) /\ Len(invites) \in Nat /\ Len(invites') = Len(invites) + 1
      /\ \A k \in 1..Len(invites) : invites'[k] = invites[k]
      /\ invites'[Len(invites')].by = Nobody
  BY <1>1, <1>2, AppendProperties, LenProperties DEF AccessInv, AccessTypeOK
<1>4. Known' = Known /\ \A u : Admins(u)' <=> Admins(u)
  BY <1>1 DEF Known, Admins
<1>5. AccessTypeOK'
  <2>1. requested' \in 0..MaxBegun /\ Len(invites') <= MaxInvites
    BY <1>1, <1>3, AccessAssumption DEF AccessInv, AccessTypeOK
  <2> QED
    BY <1>1, <1>3, <1>4, <2>1 DEF AccessInv, AccessTypeOK
<1>6. RowsApart' /\ AccountsInv'
  BY <1>1, <1>4 DEF AccessInv, RowsApart, AccountsInv
<1>7. BornInv'
  BY <1>1, <1>3, <1>4 DEF AccessInv, BornInv
<1>8. \A o \in 1..Threads : WriteInv(o)' /\ FreshInv(o)'
  BY <1>1, <1>3, <1>4 DEF AccessInv, WriteInv, FreshInv
<1>9. OnceInv'
  <2> SUFFICES ASSUME ~cut' PROVE OnceInv'
    BY DEF OnceInv
  <2>1. \A o \in 1..Threads : requests[o].op \in {"redeemer", "mark"} =>
          invites'[requests[o].invite] = invites[requests[o].invite]
    BY <1>3 DEF AccessInv, WriteInv
  <2>2. \A u \in Known : born[u] # Nobody => invites'[born[u]] = invites[born[u]]
    BY <1>3 DEF AccessInv, BornInv, AccessTypeOK, Nobody
  <2> QED
    BY <1>1, <1>4, <2>1, <2>2, ZenonT(40) DEF AccessInv, OnceInv, OnePerInvite
<1> QED
  BY <1>1, <1>5, <1>6, <1>7, <1>8, <1>9 DEF AccessInv

-----------------------------------------------------------------------------
(* Steps that end one. *)

LEMMA CreateSessionStep ==
  ASSUME AccessInv, NEW t \in 1..Threads, CreateSession(t)
  PROVE  AccessInv'
<1> DEFINE r == requests[t]
           new == [user |-> r.id, ends |-> day + SessionLife]
<1>1. /\ r.op = "session" /\ sessions' = sessions \cup {new}
      /\ crossed' = (crossed \/ ~r.fresh) /\ requests' = Pending(t)
      /\ UNCHANGED <<users, invites, day, requested, born, cut>>
  BY DEF CreateSession
<1>2. r \in Request /\ r.fresh \in BOOLEAN /\ r.id \in 1..MaxUsers
  BY <1>1, RequestsType DEF AccessInv, Request
<1>3. new \in Session /\ new.user = r.id
  <2>1. day + SessionLife \in 0..(MaxDay + SessionLife)
    BY AccessAssumption DEF AccessInv, AccessTypeOK
  <2> QED
    BY <1>2, <2>1 DEF Session
<1>4. /\ requests' \in [1..Threads -> Request \cup {None}] /\ requests'[t].op = "none"
      /\ \A o \in (1..Threads) \ {t} :
           /\ requests'[o].op = requests[o].op
           /\ requests[o].op # "none" => /\ requests'[o].id = requests[o].id
                                         /\ requests'[o].invite = requests[o].invite
                                         /\ ~requests'[o].fresh
  BY <1>1, PendingFacts DEF AccessInv
<1> HIDE DEF new
<1>5. Known' = Known /\ \A u : Admins(u)' <=> Admins(u)
  BY <1>1 DEF Known, Admins
<1>6. AccessTypeOK'
  BY <1>1, <1>2, <1>3, <1>4, <1>5 DEF AccessInv, AccessTypeOK
<1>7. RowsApart'
  BY <1>4 DEF AccessInv, RowsApart
<1>8. BornInv'
  BY <1>1, <1>5 DEF AccessInv, BornInv
<1>9. OnceInv'
  <2> SUFFICES ASSUME ~cut' PROVE OnceInv'
    BY DEF OnceInv
  <2>1. \A o \in 1..Threads :
          /\ requests'[o].op \in {"redeemer", "mark"} =>
               requests'[o].op = requests[o].op /\ requests'[o].invite = requests[o].invite
          /\ requests[o].op = "mark" =>
               /\ requests'[o].op = "mark" /\ requests'[o].invite = requests[o].invite
               /\ requests'[o].id = requests[o].id
    BY <1>1, <1>4
  <2> QED
    BY <1>1, <1>5, <2>1 DEF AccessInv, OnceInv, OnePerInvite
<1>10. AccountsInv'
  BY <1>1, <1>2, <1>3, <1>5 DEF AccessInv, AccountsInv, FreshInv
<1>11. \A o \in 1..Threads : WriteInv(o)' /\ FreshInv(o)'
  BY <1>1, <1>4, <1>5 DEF AccessInv, WriteInv, FreshInv
<1> QED
  BY <1>6, <1>7, <1>8, <1>9, <1>10, <1>11 DEF AccessInv

LEMMA SaveUserStep ==
  ASSUME AccessInv, NEW t \in 1..Threads, SaveUser(t)
  PROVE  AccessInv'
<1> DEFINE r == requests[t]
           clash == \E u \in Known \ {r.id} : users[u].email = r.row.email
<1>1. /\ r.op \in {"user", "redeemer"} /\ UNCHANGED <<invites, sessions, day, requested, cut>>
  BY DEF SaveUser
<1>2. /\ r \in Request /\ r.fresh \in BOOLEAN /\ r.id \in 1..MaxUsers /\ r.row \in User
      /\ r.invite \in 0..MaxInvites
  BY <1>1, RequestsType DEF AccessInv, Request
<1>3. CASE clash
  <2>1. /\ requests' = [requests EXCEPT ![t] = None] /\ UNCHANGED <<users, born, crossed>>
    BY <1>3 DEF SaveUser
  <2>2. /\ requests'[t].op = "none" /\ \A o \in (1..Threads) \ {t} : requests'[o] = requests[o]
        /\ requests' \in [1..Threads -> Request \cup {None}]
    BY <2>1, RequestType DEF AccessInv, AccessTypeOK
  <2>3. Known' = Known /\ \A u : Admins(u)' <=> Admins(u)
    BY <2>1 DEF Known, Admins
  <2>4. AccessTypeOK'
    BY <1>1, <2>1, <2>2, <2>3 DEF AccessInv, AccessTypeOK
  <2>5. RowsApart' /\ BornInv' /\ AccountsInv'
    BY <1>1, <2>1, <2>2, <2>3 DEF AccessInv, RowsApart, BornInv, AccountsInv
  <2>6. OnceInv'
    <3>1. \A o \in 1..Threads : requests[o].op = "mark" => requests'[o] = requests[o]
      BY <1>1, <2>2
    <3>2. \A o \in 1..Threads : requests'[o].op # "none" => requests'[o] = requests[o]
      BY <2>2
    <3> QED
      BY <1>1, <2>1, <2>3, <3>1, <3>2 DEF AccessInv, OnceInv, OnePerInvite
  <2>7. \A o \in 1..Threads : WriteInv(o)' /\ FreshInv(o)'
    BY <1>1, <2>1, <2>2, <2>3 DEF AccessInv, WriteInv, FreshInv
  <2> QED
    BY <2>4, <2>5, <2>6, <2>7 DEF AccessInv
<1>4. CASE ~clash
  <2>1. /\ users' = [u \in Known \cup {r.id} |-> IF u = r.id THEN r.row ELSE users[u]]
        /\ born' = (IF r.op = "redeemer" THEN [born EXCEPT ![r.id] = r.invite] ELSE born)
        /\ crossed' = (crossed \/ ~r.fresh)
        /\ requests' = (IF r.op = "user" THEN Pending(t)
                        ELSE [Pending(t) EXCEPT ![t] = [r EXCEPT !.op = "mark"]])
    BY <1>4 DEF SaveUser
  <2>2. /\ Known' = Known \cup {r.id}
        /\ users'[r.id] = r.row /\ \A u \in Known \ {r.id} : users'[u] = users[u]
        /\ Known \subseteq 1..MaxUsers /\ users' \in [Known' -> User]
    BY <1>2, <2>1 DEF Known, AccessInv, AccessTypeOK
  <2>3. /\ requests' \in [1..Threads -> Request \cup {None}]
        /\ r.op = "user" => requests'[t].op = "none"
        /\ r.op = "redeemer" => /\ requests'[t].op = "mark" /\ requests'[t].id = r.id
                                /\ requests'[t].invite = r.invite
        /\ \A o \in (1..Threads) \ {t} :
             /\ requests'[o].op = requests[o].op
             /\ requests[o].op # "none" => /\ requests'[o].id = requests[o].id
                                           /\ requests'[o].invite = requests[o].invite
                                           /\ ~requests'[o].fresh
    <3>1. /\ [r EXCEPT !.op = "mark"] \in Request
          /\ [r EXCEPT !.op = "mark"].op = "mark" /\ [r EXCEPT !.op = "mark"].id = r.id
          /\ [r EXCEPT !.op = "mark"].invite = r.invite
      BY <1>2 DEF Request
    <3> DEFINE mark == [r EXCEPT !.op = "mark"]
    <3> HIDE DEF mark
    <3>2. /\ Pending(t) \in [1..Threads -> Request \cup {None}]
          /\ Pending(t)[t].op = "none"
          /\ \A o \in (1..Threads) \ {t} :
               /\ Pending(t)[o].op = requests[o].op
               /\ requests[o].op # "none" =>
                    /\ Pending(t)[o].id = requests[o].id
                    /\ Pending(t)[o].invite = requests[o].invite
                    /\ ~Pending(t)[o].fresh
      BY PendingFacts DEF AccessInv
    <3>3. CASE r.op = "user"
      BY <2>1, <3>2, <3>3
    <3>4. CASE r.op = "redeemer"
      <4>1. requests' = [Pending(t) EXCEPT ![t] = mark]
        BY <2>1, <3>4 DEF mark
      <4> QED
        BY <3>1, <3>2, <3>4, <4>1 DEF mark
    <3> QED
      BY <1>1, <3>3, <3>4
  <2>4. born' \in [1..MaxUsers -> 0..MaxInvites]
    BY <1>2, <2>1 DEF AccessInv, AccessTypeOK
  <2>5. AccessTypeOK'
    BY <1>1, <1>2, <2>1, <2>2, <2>3, <2>4 DEF AccessInv, AccessTypeOK
  <2>6. RowsApart'
    <3>1. \A o \in 1..Threads : requests'[o].op \in {"user", "redeemer"} =>
            /\ requests'[o].op = requests[o].op /\ requests'[o].id = requests[o].id
      BY <1>1, <2>3
    <3> QED
      BY <3>1 DEF AccessInv, RowsApart
  <2>7. /\ \A u \in 1..MaxUsers : u # r.id => born'[u] = born[u]
        /\ r.op = "redeemer" => r.id \notin Known /\ born'[r.id] = r.invite
        /\ r.op = "redeemer" => r.invite \in 1..Len(invites)
        /\ r.op = "user" => born'[r.id] = born[r.id]
    BY <1>2, <2>1 DEF AccessInv, AccessTypeOK, WriteInv
  <2>8. \A u \in Known : born'[u] = born[u]
    BY <1>1, <2>2, <2>7
  <2>9. BornInv'
    <3>1. \A u \in 1..MaxUsers : born'[u] \in 0..Len(invites)
      BY <1>1, <1>2, <2>7 DEF AccessInv, BornInv
    <3>2. \A u \in (1..MaxUsers) \ Known' : born'[u] = Nobody
      BY <1>2, <2>2, <2>7 DEF AccessInv, BornInv
    <3>3. \A i \in 1..Len(invites) :
            invites[i].by # Nobody => invites[i].by \in Known' /\ born'[invites[i].by] = i
      BY <2>2, <2>8 DEF AccessInv, BornInv
    <3> QED
      BY <1>1, <3>1, <3>2, <3>3 DEF BornInv
  <2>10. AccountsInv'
    <3> SUFFICES ASSUME ~crossed' PROVE AccountsInv'
      BY DEF AccountsInv
    <3>1. ~crossed /\ r.fresh
      BY <1>2, <2>1
    <3>2. /\ \E u \in Known : Admins(u) /\ (u = r.id => r.row.admin /\ r.row.active)
          /\ ~r.row.active => \A s \in sessions : s.user # r.id
      BY <1>1, <3>1 DEF AccessInv, FreshInv
    <3>3. \A s \in sessions : s.user \in Known /\ users[s.user].active
      BY <3>1 DEF AccessInv, AccountsInv
    <3>4. \E u \in Known' : Admins(u)'
      BY <2>2, <3>2 DEF Admins
    <3>5. \A s \in sessions' : s.user \in Known' /\ users'[s.user].active
      BY <1>1, <2>2, <3>2, <3>3
    <3> QED
      BY <3>4, <3>5 DEF AccountsInv
  <2>11. \A o \in 1..Threads : WriteInv(o)'
    <3>1. WriteInv(t)'
      BY <1>1, <2>2, <2>3, <2>7 DEF WriteInv
    <3>2. ASSUME NEW o \in (1..Threads) \ {t}
          PROVE  WriteInv(o)'
      <4>1. WriteInv(o) /\ requests'[o].op = requests[o].op
        BY <2>3 DEF AccessInv
      <4>2. CASE requests[o].op = "redeemer"
        <5>1. requests[o].id # r.id
          BY <1>1, <3>2, <4>2 DEF AccessInv, RowsApart
        <5> QED
          BY <1>1, <2>2, <2>3, <3>2, <4>1, <4>2, <5>1 DEF WriteInv
      <4>3. CASE requests[o].op # "redeemer"
        BY <1>1, <2>2, <2>3, <2>8, <3>2, <4>1, <4>3 DEF WriteInv
      <4> QED
        BY <4>2, <4>3
    <3> QED
      BY <3>1, <3>2
  <2>12. \A o \in 1..Threads : FreshInv(o)'
    <3>1. FreshInv(t)'
      BY <1>1, <2>3 DEF FreshInv
    <3>2. \A o \in (1..Threads) \ {t} : FreshInv(o)'
      BY <2>3 DEF FreshInv
    <3> QED
      BY <3>1, <3>2
  <2>13. OnceInv'
    <3> SUFFICES ASSUME ~cut' PROVE OnceInv'
      BY DEF OnceInv
    <3>1. OnePerInvite
      BY <1>1 DEF AccessInv, OnceInv
    <3>2. r.op = "user" /\ r.id \notin Known => born'[r.id] = Nobody
      BY <1>2, <2>7 DEF AccessInv, BornInv
    <3>3. \A o \in 1..Threads : requests'[o].op \in {"redeemer", "mark"} =>
            requests[o].op \in {"redeemer", "mark"} /\ requests'[o].invite = requests[o].invite
      BY <1>1, <2>3
    <3>4. \A o \in 1..Threads : requests[o].op = "mark" =>
            /\ requests'[o].op = "mark" /\ requests'[o].invite = requests[o].invite
            /\ requests'[o].id = requests[o].id
      BY <1>1, <2>3
    <3>5. \A o \in 1..Threads : requests'[o].op = "redeemer" =>
            /\ o # t /\ requests[o].op = "redeemer" /\ requests[o].invite # Nobody
            /\ requests'[o].invite = requests[o].invite
      BY <1>1, <2>3, LenProperties DEF AccessInv, WriteInv, AccessTypeOK, Nobody
    <3>6. ASSUME NEW u \in Known', born'[u] # Nobody
          PROVE  \/ invites[born'[u]].by = u
                 \/ \E o \in 1..Threads :
                      requests'[o].op = "mark" /\ requests'[o].invite = born'[u] /\ requests'[o].id = u
      <4>1. CASE u \in Known
        BY <2>8, <3>1, <3>4, <3>6, <4>1 DEF OnePerInvite
      <4>2. CASE u = r.id /\ u \notin Known
        BY <1>1, <2>3, <2>7, <3>2, <3>6, <4>2
      <4> QED
        BY <2>2, <4>1, <4>2
    <3>7. ASSUME NEW o \in 1..Threads, requests'[o].op = "redeemer", NEW u \in Known'
          PROVE  born'[u] # requests'[o].invite
      <4>1. CASE u \in Known
        BY <2>8, <3>1, <3>5, <3>7, <4>1 DEF OnePerInvite
      <4>2. CASE u = r.id /\ u \notin Known
        BY <1>1, <2>7, <3>1, <3>2, <3>5, <3>7, <4>2 DEF OnePerInvite
      <4> QED
        BY <2>2, <4>1, <4>2
    <3> QED
      BY <1>1, <3>1, <3>3, <3>6, <3>7 DEF OnceInv, OnePerInvite
  <2> QED
    BY <2>5, <2>6, <2>9, <2>10, <2>11, <2>12, <2>13 DEF AccessInv
<1> QED
  BY <1>3, <1>4

LEMMA MarkRedeemedStep ==
  ASSUME AccessInv, NEW t \in 1..Threads, MarkRedeemed(t)
  PROVE  AccessInv'
<1> DEFINE r == requests[t]
<1>1. /\ r.op = "mark" /\ invites' = [invites EXCEPT ![r.invite].by = r.id]
      /\ crossed' = (crossed \/ ~r.fresh) /\ requests' = Pending(t)
      /\ UNCHANGED <<users, sessions, day, requested, born, cut>>
  BY DEF MarkRedeemed
<1>2. /\ r \in Request /\ r.fresh \in BOOLEAN /\ r.id \in Known /\ r.id \in 1..MaxUsers
      /\ born[r.id] = r.invite /\ r.invite \in 1..Len(invites) /\ invites[r.invite] \in Invite
  BY <1>1, RequestsType, ElementOfSeq DEF AccessInv, Request, WriteInv, AccessTypeOK
<1>3. /\ invites' \in Seq(Invite) /\ Len(invites') = Len(invites)
      /\ invites'[r.invite].by = r.id
      /\ \A i \in 1..Len(invites) : i # r.invite => invites'[i] = invites[i]
  <2> DEFINE new == [invites[r.invite] EXCEPT !.by = r.id]
  <2>1. new \in Invite /\ new.by = r.id
    BY <1>2, SMTT(30) DEF Invite
  <2>2. invites' = [invites EXCEPT ![r.invite] = new]
    BY <1>1
  <2> HIDE DEF new
  <2> QED
    BY <1>2, <2>1, <2>2, ExceptSeq DEF AccessInv, AccessTypeOK
<1>4. /\ requests' \in [1..Threads -> Request \cup {None}] /\ requests'[t].op = "none"
      /\ \A o \in (1..Threads) \ {t} :
           /\ requests'[o].op = requests[o].op
           /\ requests[o].op # "none" => /\ requests'[o].id = requests[o].id
                                         /\ requests'[o].invite = requests[o].invite
                                         /\ ~requests'[o].fresh
  BY <1>1, PendingFacts DEF AccessInv
<1>5. Known' = Known /\ \A u : Admins(u)' <=> Admins(u)
  BY <1>1 DEF Known, Admins
<1>6. AccessTypeOK'
  BY <1>1, <1>2, <1>3, <1>4, <1>5 DEF AccessInv, AccessTypeOK
<1>7. RowsApart'
  BY <1>4 DEF AccessInv, RowsApart
<1>8. BornInv'
  BY <1>1, <1>2, <1>3, <1>5 DEF AccessInv, BornInv
<1>9. AccountsInv'
  BY <1>1, <1>5 DEF AccessInv, AccountsInv
<1>10. \A o \in 1..Threads : WriteInv(o)' /\ FreshInv(o)'
  BY <1>1, <1>3, <1>4, <1>5 DEF AccessInv, WriteInv, FreshInv
<1>11. OnceInv'
  <2> SUFFICES ASSUME ~cut' PROVE OnceInv'
    BY DEF OnceInv
  <2>1. OnePerInvite
    BY <1>1 DEF AccessInv, OnceInv
  <2>2. \A o \in 1..Threads : requests'[o].op \in {"redeemer", "mark"} =>
          /\ o # t /\ requests'[o].op = requests[o].op
          /\ requests'[o].invite = requests[o].invite /\ requests'[o].invite # r.invite
          /\ invites'[requests[o].invite] = invites[requests[o].invite]
    BY <1>1, <1>3, <1>4, <2>1 DEF AccessInv, WriteInv, OnePerInvite
  <2>3. ASSUME NEW u \in Known, born[u] # Nobody
        PROVE  \/ invites'[born[u]].by = u
               \/ \E o \in 1..Threads :
                    requests'[o].op = "mark" /\ requests'[o].invite = born[u] /\ requests'[o].id = u
    <3>1. u \in 1..MaxUsers /\ u # Nobody /\ born[u] \in 1..Len(invites)
      <4>1. u \in 1..MaxUsers
        BY <2>3 DEF AccessInv, AccessTypeOK
      <4>2. born[u] \in 0..Len(invites) /\ Len(invites) \in Nat
        BY <4>1, LenProperties DEF AccessInv, AccessTypeOK, BornInv
      <4> QED
        BY <2>3, <4>1, <4>2 DEF Nobody
    <3>2. CASE born[u] = r.invite
      <4>1. invites[born[u]].by # u
        BY <1>1, <2>1, <3>1, <3>2 DEF OnePerInvite
      <4>2. PICK o \in 1..Threads :
              requests[o].op = "mark" /\ requests[o].invite = born[u] /\ requests[o].id = u
        BY <2>1, <2>3, <4>1 DEF OnePerInvite
      <4>3. o = t
        BY <1>1, <2>1, <3>2, <4>2 DEF OnePerInvite
      <4> QED
        BY <1>3, <3>2, <4>2, <4>3
    <3>3. CASE born[u] # r.invite
      <4>1. invites'[born[u]] = invites[born[u]]
        BY <1>3, <3>1, <3>3
      <4>2. \A o \in 1..Threads : requests[o].op = "mark" /\ requests[o].invite = born[u] =>
              /\ requests'[o].op = "mark" /\ requests'[o].invite = born[u]
              /\ requests'[o].id = requests[o].id
        BY <1>4, <3>3
      <4> QED
        BY <2>1, <2>3, <4>1, <4>2 DEF OnePerInvite
    <3> QED
      BY <3>2, <3>3
  <2> QED
    BY <1>1, <1>5, <2>1, <2>2, <2>3 DEF OnceInv, OnePerInvite
<1> QED
  BY <1>6, <1>7, <1>8, <1>9, <1>10, <1>11 DEF AccessInv

LEMMA RaiseStep ==
  ASSUME AccessInv, NEW t \in 1..Threads, Raise(t)
  PROVE  AccessInv'
<1>1. /\ cut' = (cut \/ requests[t].op = "mark") /\ requests' = [requests EXCEPT ![t] = None]
      /\ UNCHANGED <<users, invites, sessions, day, requested, born, crossed>>
  BY DEF Raise
<1>2. /\ requests'[t].op = "none" /\ \A o \in (1..Threads) \ {t} : requests'[o] = requests[o]
      /\ requests' \in [1..Threads -> Request \cup {None}] /\ cut \in BOOLEAN
  BY <1>1, RequestType DEF AccessInv, AccessTypeOK
<1>3. Known' = Known /\ \A u : Admins(u)' <=> Admins(u)
  BY <1>1 DEF Known, Admins
<1>4. AccessTypeOK'
  BY <1>1, <1>2, <1>3 DEF AccessInv, AccessTypeOK
<1>5. RowsApart' /\ BornInv' /\ AccountsInv'
  BY <1>1, <1>2, <1>3 DEF AccessInv, RowsApart, BornInv, AccountsInv
<1>6. OnceInv'
  <2> SUFFICES ASSUME ~cut' PROVE OnceInv'
    BY DEF OnceInv
  <2>1. \A o \in 1..Threads : requests[o].op = "mark" => requests'[o] = requests[o]
    BY <1>1, <1>2
  <2>2. \A o \in 1..Threads : requests'[o].op # "none" => requests'[o] = requests[o]
    BY <1>2
  <2>3. OnePerInvite
    BY <1>1 DEF AccessInv, OnceInv
  <2>4. \A u \in Known : born[u] # Nobody =>
          \/ invites[born[u]].by = u
          \/ \E o \in 1..Threads :
               requests'[o].op = "mark" /\ requests'[o].invite = born[u] /\ requests'[o].id = u
    BY <2>1, <2>3 DEF OnePerInvite
  <2>5. \A o \in 1..Threads : requests'[o].op \in {"redeemer", "mark"} =>
          /\ invites[requests'[o].invite].by = Nobody
          /\ \A p \in 1..Threads :
               p # o /\ requests'[p].op \in {"redeemer", "mark"} =>
                 requests'[p].invite # requests'[o].invite
    BY <2>2, <2>3 DEF OnePerInvite
  <2> QED
    BY <1>1, <1>3, <2>2, <2>3, <2>4, <2>5 DEF OnceInv, OnePerInvite
<1>7. \A o \in 1..Threads : WriteInv(o)' /\ FreshInv(o)'
  BY <1>1, <1>2, <1>3 DEF AccessInv, WriteInv, FreshInv
<1> QED
  BY <1>4, <1>5, <1>6, <1>7 DEF AccessInv

\* What changes no user, invite or request, and adds no session.
LEMMA AccessQuietStep ==
  ASSUME AccessInv, UNCHANGED <<users, invites, requests, requested, born, crossed, cut>>,
         sessions' \subseteq sessions, day' \in 0..MaxDay
  PROVE  AccessInv'
<1>1. Known' = Known /\ \A u : Admins(u)' <=> Admins(u)
  BY DEF Known, Admins
<1>2. AccessTypeOK'
  BY <1>1 DEF AccessInv, AccessTypeOK
<1>3. RowsApart' /\ BornInv' /\ AccountsInv'
  BY <1>1 DEF AccessInv, RowsApart, BornInv, AccountsInv
<1>4. OnceInv'
  BY <1>1 DEF AccessInv, OnceInv, OnePerInvite
<1>5. \A o \in 1..Threads : WriteInv(o)' /\ FreshInv(o)'
  BY <1>1 DEF AccessInv, WriteInv, FreshInv
<1> QED
  BY <1>2, <1>3, <1>4, <1>5 DEF AccessInv

-----------------------------------------------------------------------------
(* The theorem. *)

\* Users, sessions and invites, whatever requests cross and fail: as long as none wrote
\* on reads another write had overtaken, an administrator is left and nobody disabled
\* has a session; and an invite made one user, unless a redemption was cut or two of
\* one invite overlapped.
THEOREM AccountsTheorem == AccessSpec => [](AccessTypeOK /\ AccountsSafe)
<1>1. AccessInit => AccessInv
  <2> SUFFICES ASSUME AccessInit PROVE AccessInv
    OBVIOUS
  <2>1. /\ Known = {1} /\ users[1] = [email |-> FirstAddress, admin |-> TRUE, active |-> TRUE]
        /\ FirstAddress \in Addresses
    BY AccessAssumption DEF AccessInit, Known, FirstAddress
  <2>2. \A t \in 1..Threads : requests[t].op = "none"
    BY RequestType DEF AccessInit
  <2>3. invites \in Seq(Invite) /\ Len(invites) = 0
    BY EmptySeq DEF AccessInit
  <2>4. AccessTypeOK
    <3>1. users \in [Known -> User]
      BY <2>1 DEF AccessInit, User
    <3>2. /\ 1 \in 1..MaxUsers /\ 0 \in 0..MaxDay /\ 0 \in 0..MaxBegun /\ 0 \in 0..MaxInvites
          /\ 0 <= MaxInvites
      BY AccessAssumption DEF AccessInit
    <3> QED
      BY <2>1, <2>3, <3>1, <3>2 DEF AccessInit, AccessTypeOK, Nobody
  <2>5. RowsApart /\ \A t \in 1..Threads : WriteInv(t) /\ FreshInv(t)
    BY <2>2 DEF RowsApart, WriteInv, FreshInv
  <2>6. BornInv
    BY <2>3 DEF AccessInit, BornInv, Nobody
  <2>7. OnceInv
    <3>1. \A u \in Known : born[u] = Nobody
      BY <2>4 DEF AccessInit, AccessTypeOK
    <3> QED
      BY <2>2, <3>1 DEF OnceInv, OnePerInvite
  <2>8. AccountsInv
    BY <2>1 DEF AccessInit, AccountsInv, Admins
  <2> QED
    BY <2>4, <2>5, <2>6, <2>7, <2>8 DEF AccessInv
<1>2. AccessInv /\ [AccessNext]_accessVars => AccessInv'
  <2> SUFFICES ASSUME AccessInv, [AccessNext]_accessVars PROVE AccessInv'
    OBVIOUS
  <2>1. day \in 0..MaxDay
    BY DEF AccessInv, AccessTypeOK
  <2>2. CASE UNCHANGED accessVars
    BY <2>1, <2>2, AccessQuietStep DEF accessVars
  <2>3. ASSUME NEW t \in 1..Threads, NEW u \in Known, Login(t, u)
        PROVE  AccessInv'
    BY <2>3, LoginStep
  <2>4. ASSUME NEW t \in 1..Threads,
               CreateSession(t) \/ SaveUser(t) \/ MarkRedeemed(t) \/ Raise(t)
        PROVE  AccessInv'
    BY <2>4, CreateSessionStep, SaveUserStep, MarkRedeemedStep, RaiseStep
  <2>5. ASSUME NEW t \in 1..Threads, NEW actor \in Known, NEW admin \in BOOLEAN,
               \/ \E e \in Addresses : CreateUser(t, actor, e, admin)
               \/ \E u \in Known, active \in BOOLEAN : UpdateUser(t, actor, u, admin, active)
               \/ CreateInvite(t, actor, admin)
        PROVE  AccessInv'
    BY <2>5, CreateUserStep, UpdateUserStep, CreateInviteStep
  <2>6. ASSUME NEW t \in 1..Threads, NEW i \in 1..MaxInvites, NEW e \in Addresses, Redeem(t, i, e)
        PROVE  AccessInv'
    BY <2>6, RedeemStep
  <2>7. ASSUME NEW s \in sessions, Expire(s)
        PROVE  AccessInv'
    BY <2>1, <2>7, AccessQuietStep DEF Expire
  <2>8. CASE NextDay
    <3>1. day' \in 0..MaxDay
      BY <2>1, <2>8, AccessAssumption DEF NextDay
    <3> QED
      BY <2>8, <3>1, AccessQuietStep DEF NextDay
  <2> QED
    BY <2>2, <2>3, <2>4, <2>5, <2>6, <2>7, <2>8 DEF AccessNext
<1>3. AccessInv => AccessTypeOK /\ AccountsSafe
  <2> SUFFICES ASSUME AccessInv PROVE AccountsSafe
    BY DEF AccessInv
  <2>1. SomeAdministrator /\ DisabledHasNoSession
    BY DEF AccessInv, AccountsInv, SomeAdministrator, DisabledHasNoSession
  <2>2. ASSUME ~cut, NEW u \in Known, NEW w \in Known, born[u] = born[w], born[u] # Nobody
        PROVE  u = w
    <3>1. u # Nobody /\ w # Nobody
      BY DEF AccessInv, AccessTypeOK, Nobody
    <3>2. \A v \in {u, w} :
            \/ invites[born[u]].by = v
            \/ \E t \in 1..Threads :
                 requests[t].op = "mark" /\ requests[t].invite = born[u] /\ requests[t].id = v
      BY <2>2 DEF AccessInv, OnceInv, OnePerInvite
    <3>3. \A t, o \in 1..Threads :
            /\ requests[t].op = "mark" /\ requests[t].invite = born[u] => invites[born[u]].by = Nobody
            /\ requests[t].op = "mark" /\ requests[t].invite = born[u]
                 /\ requests[o].op = "mark" /\ requests[o].invite = born[u] => t = o
      BY <2>2 DEF AccessInv, OnceInv, OnePerInvite
    <3> QED
      BY <3>1, <3>2, <3>3
  <2>3. RedeemedOnce
    BY <2>2 DEF AccessInv, BornInv, RedeemedOnce
  <2> QED
    BY <2>1, <2>3 DEF AccountsSafe
<1> QED
  BY <1>1, <1>2, <1>3, PTL DEF AccessSpec

-----------------------------------------------------------------------------
(***************************************************************************)
(* Aggregates: any finite set of threads, any bucket types of any width,   *)
(* either repository and any bounds.                                       *)
(***************************************************************************)
CountKinds == {"real", "bot"}
KindOf(class) == IF class = "bot" THEN "bot" ELSE "real"
ClassesOf(k) == IF k = "bot" THEN {"bot"} ELSE {"real", "unknown"}

\* The buckets of a range, and the threads that have yet to count an event of it.
BucketsIn(type, start, end) == {b \in BucketIds : InRange(buckets[b], type, start, end)}
Waiting(type, start, end, k) ==
  {r \in Recorders : /\ type \in task[r].todo /\ KindOf(task[r].class) = k
                     /\ start <= task[r].minute /\ task[r].minute < end}

WholeRange(type, start, end) ==
  /\ type \in BucketTypes /\ start \in Minutes /\ end \in 0..(MaxMinute + 1)
  /\ start < end /\ Aligned(type, start, end)

\* tally is how often an increment of a bucket came to its end.  The stored counts fall
\* behind it where the dictionary loses an update; the table's never do.
StoredInv(tally) ==
  /\ \A b \in BucketIds :
       /\ buckets[b].type = "none" => \A k \in CountKinds : tally[k][b] = 0
       /\ buckets[b].total = buckets[b].real + buckets[b].bot
       /\ \A k \in CountKinds : buckets[b][k] <= tally[k][b]
       /\ store = "sql" => \A k \in CountKinds : buckets[b][k] = tally[k][b]
  /\ \A t \in BucketTypes, m \in Minutes : index[t][m] # 0 =>
       buckets[index[t][m]].type = t /\ buckets[index[t][m]].start = m

\* A thread has the bucket of its type and minute at hand; the copy it is about to put
\* is of that bucket and counts one event more than were counted.
AtHand(r, tally) ==
  LET id == task[r].id
      copy == task[r].copy IN
  /\ task[r].step = "idle" <=> task[r].todo = {}
  /\ task[r].step \in {"enter", "add", "put"} =>
       id # 0 /\ buckets[id].type = TypeOf(r) /\ buckets[id].start = StartOf(r)
  /\ task[r].step \in {"enter", "put"} => store = "memory"
  /\ task[r].step = "put" =>
       /\ copy.type = TypeOf(r) /\ copy.start = StartOf(r)
       /\ copy.total = copy.real + copy.bot
       /\ \A k \in CountKinds : copy[k] <= tally[k][id] + (IF KindOf(task[r].class) = k THEN 1 ELSE 0)

\* What was begun was counted in the buckets or is still to be counted.
Balanced(tally) ==
  \A type, start, end : WholeRange(type, start, end) => \A k \in CountKinds :
    Begun(start, end, ClassesOf(k)) =
      Total(tally[k], BucketsIn(type, start, end)) + Cardinality(Waiting(type, start, end, k))

Tally == [CountKinds -> [BucketIds -> Nat]]
CountInv(tally) ==
  CountTypeOK /\ StoredInv(tally) /\ (\A r \in Recorders : AtHand(r, tally)) /\ Balanced(tally)
CountsInv == BucketTypes # {} => \E tally \in Tally : CountInv(tally)

LEMMA AddUpTotal == ASSUME NEW f, NEW set PROVE AddUp(f, set) = Total(f, set)
BY DEF AddUp, Total, MapThenSumSet, MapThenFoldSet

LEMMA CountSets ==
  /\ IsFiniteSet(BucketIds) /\ IsFiniteSet(Minutes) /\ Minutes \in SUBSET Nat
  /\ BucketIds \in SUBSET Nat /\ 0 \notin BucketIds
  /\ \A type, start, end : BucketsIn(type, start, end) \in SUBSET BucketIds
  /\ \A type, start, end, k : /\ Waiting(type, start, end, k) \in SUBSET Recorders
                              /\ IsFiniteSet(Waiting(type, start, end, k))
                              /\ Cardinality(Waiting(type, start, end, k)) \in Nat
<1>1. IsFiniteSet(BucketIds) /\ IsFiniteSet(Minutes)
  BY AggregateAssumption, FS_Interval DEF BucketIds, Minutes
<1>2. ASSUME NEW type, NEW start, NEW end, NEW k
      PROVE  /\ Waiting(type, start, end, k) \in SUBSET Recorders
             /\ IsFiniteSet(Waiting(type, start, end, k))
             /\ Cardinality(Waiting(type, start, end, k)) \in Nat
  <2>1. Waiting(type, start, end, k) \in SUBSET Recorders
    BY DEF Waiting
  <2> QED
    BY <2>1, AggregateAssumption, FS_Subset, FS_CardinalityType
<1> QED
  BY <1>1, <1>2, AggregateAssumption DEF BucketIds, Minutes, BucketsIn

LEMMA ClassSets ==
  ASSUME NEW k \in CountKinds
  PROVE  /\ ClassesOf(k) \in SUBSET Classes /\ IsFiniteSet(ClassesOf(k)) /\ IsFiniteSet(Classes)
         /\ \A c \in Classes : c \in ClassesOf(k) <=> KindOf(c) = k
<1>1. IsFiniteSet({}) /\ IsFiniteSet({"bot"}) /\ IsFiniteSet({"real"} \cup {"unknown"})
      /\ IsFiniteSet(({"bot"} \cup {"real"}) \cup {"unknown"})
  BY FS_EmptySet, FS_AddElement, FS_Singleton
<1>2. Classes = ({"bot"} \cup {"real"}) \cup {"unknown"} /\ {"real", "unknown"} = {"real"} \cup {"unknown"}
  BY DEF Classes
<1> QED
  BY <1>1, <1>2 DEF CountKinds, ClassesOf, Classes, KindOf

-----------------------------------------------------------------------------
(* What was begun. *)

Recorded == recorded \in [Minutes -> [Classes -> Nat]]
MinutesIn(start, end) == {m \in Minutes : start <= m /\ m < end}

\* What was begun in a range, as a sum over its minutes.
LEMMA BegunSums ==
  ASSUME Recorded, NEW start, NEW end, NEW set \in SUBSET Classes
  PROVE  LET f == [m \in Minutes |-> AddUp(recorded[m], set)] IN
         /\ f \in [Minutes -> Nat] /\ Numeric(f, MinutesIn(start, end))
         /\ IsFiniteSet(MinutesIn(start, end)) /\ MinutesIn(start, end) \in SUBSET Minutes
         /\ Begun(start, end, set) = Total(f, MinutesIn(start, end))
         /\ Begun(start, end, set) \in Nat
<1> DEFINE f == [m \in Minutes |-> AddUp(recorded[m], set)]
           mins == MinutesIn(start, end)
<1>1. IsFiniteSet(set)
  BY ClassSets, FS_Subset DEF CountKinds
<1>2. ASSUME NEW m \in Minutes PROVE AddUp(recorded[m], set) \in Nat
  <2>1. \A c \in set : recorded[m][c] \in Nat
    BY DEF Recorded
  <2> QED
    BY <1>1, <2>1, TotalNatural, AddUpTotal
<1>3. f \in [Minutes -> Nat]
  BY <1>2
<1>4. mins \in SUBSET Minutes /\ IsFiniteSet(mins)
  BY CountSets, FS_Subset DEF MinutesIn
<1>5. Begun(start, end, set) = Total(f, mins)
  BY AddUpTotal DEF Begun, MinutesIn
<1> HIDE DEF f, mins
<1>6. \A m \in mins : f[m] \in Nat
  BY <1>3, <1>4
<1>7. Total(f, mins) \in Nat /\ Numeric(f, mins)
  BY <1>4, <1>6, TotalNat
<1> QED
  BY <1>3, <1>4, <1>5, <1>7 DEF f, mins

\* One event more.
LEMMA BegunGrows ==
  ASSUME Recorded, NEW m \in Minutes, NEW c \in Classes, recorded' = [recorded EXCEPT ![m][c] = @ + 1]
  PROVE  /\ Recorded'
         /\ \A start, end : \A set \in SUBSET Classes :
              Begun(start, end, set)' =
                Begun(start, end, set) + (IF c \in set /\ start <= m /\ m < end THEN 1 ELSE 0)
<1>1. Recorded'
  BY DEF Recorded
<1> SUFFICES ASSUME NEW start, NEW end, NEW set \in SUBSET Classes
             PROVE  Begun(start, end, set)' =
                      Begun(start, end, set) + (IF c \in set /\ start <= m /\ m < end THEN 1 ELSE 0)
  BY <1>1
<1> DEFINE f == [n \in Minutes |-> AddUp(recorded[n], set)]
           g == [n \in Minutes |-> AddUp(recorded'[n], set)]
           mins == MinutesIn(start, end)
<1>2. /\ f \in [Minutes -> Nat] /\ Numeric(f, mins) /\ IsFiniteSet(mins) /\ mins \in SUBSET Minutes
      /\ Begun(start, end, set) = Total(f, mins) /\ Begun(start, end, set) \in Nat
  BY BegunSums
<1>3. /\ g \in [Minutes -> Nat] /\ Numeric(g, mins) /\ Begun(start, end, set)' = Total(g, mins)
  <2>1. IsFiniteSet(set)
    BY ClassSets, FS_Subset DEF CountKinds
  <2>2. ASSUME NEW n \in Minutes PROVE AddUp(recorded'[n], set) \in Nat
    <3>1. \A x \in set : recorded'[n][x] \in Nat
      BY <1>1 DEF Recorded
    <3> QED
      BY <2>1, <3>1, TotalNatural, AddUpTotal
  <2>3. Begun(start, end, set)' = Total(g, mins)
    BY AddUpTotal DEF Begun, MinutesIn
  <2>4. g \in [Minutes -> Nat]
    BY <2>2
  <2> HIDE DEF g
  <2> QED
    BY <1>2, <2>3, <2>4 DEF Numeric
<1>4. \A n \in Minutes : n # m => g[n] = f[n]
  <2>1. \A n \in Minutes : n # m => recorded'[n] = recorded[n]
    BY DEF Recorded
  <2> QED
    BY <2>1
<1>5. g[m] = f[m] + (IF c \in set THEN 1 ELSE 0)
  <2> DEFINE a == recorded[m]
             b == recorded'[m]
  <2>1. /\ \A x \in Classes : x # c => b[x] = a[x]
        /\ b[c] = a[c] + 1 /\ \A x \in Classes : a[x] \in Nat /\ b[x] \in Nat
    BY <1>1 DEF Recorded
  <2>2. Numeric(a, set) /\ Numeric(b, set) /\ IsFiniteSet(set)
    BY <2>1, ClassSets, FS_Subset DEF Numeric, CountKinds
  <2>3. g[m] = Total(b, set) /\ f[m] = Total(a, set)
    BY AddUpTotal
  <2> HIDE DEF a, b, f, g
  <2>4. CASE c \in set
    <3>1. \A x \in set : x # c => b[x] = a[x]
      BY <2>1
    <3>2. Total(b, set) = Total(a, set) + (b[c] - a[c])
      BY <2>2, <2>4, <3>1, TotalChange
    <3> QED
      BY <2>1, <2>3, <2>4, <3>2
  <2>5. CASE c \notin set
    <3>1. \A x \in set : a[x] = b[x]
      BY <2>1, <2>5
    <3>2. Total(a, set) = Total(b, set)
      BY <2>2, <3>1, TotalSame
    <3>3. f[m] \in Nat
      BY <1>2
    <3> QED
      BY <2>3, <2>5, <3>2, <3>3
  <2> QED
    BY <2>4, <2>5
<1>6. m \in mins <=> start <= m /\ m < end
  BY DEF MinutesIn
<1> HIDE DEF f, g, mins
<1>7. CASE m \in mins
  <2>1. \A n \in mins : n # m => g[n] = f[n]
    BY <1>2, <1>4
  <2>2. Total(g, mins) = Total(f, mins) + (g[m] - f[m])
    BY <1>2, <1>3, <1>7, <2>1, TotalChange
  <2>3. f[m] \in Nat /\ g[m] \in Nat
    BY <1>2, <1>3
  <2> QED
    BY <1>1, <1>2, <1>3, <1>5, <1>6, <1>7, <2>2, <2>3
<1>8. CASE m \notin mins
  <2>1. \A n \in mins : f[n] = g[n]
    BY <1>2, <1>4, <1>8
  <2>2. Total(f, mins) = Total(g, mins)
    BY <1>2, <2>1, TotalSame
  <2> QED
    BY <1>1, <1>2, <1>3, <1>6, <1>8, <2>2
<1> QED
  BY <1>7, <1>8

\* What was begun is what real visitors and what bots did.
LEMMA BegunParts ==
  ASSUME Recorded, NEW start, NEW end
  PROVE  Begun(start, end, Classes) =
           Begun(start, end, ClassesOf("real")) + Begun(start, end, ClassesOf("bot"))
<1> DEFINE F(set) == [m \in Minutes |-> AddUp(recorded[m], set)]
           mins == MinutesIn(start, end)
           R == ClassesOf("real")
           B == ClassesOf("bot")
<1>1. /\ Numeric(F(R), mins) /\ Numeric(F(B), mins) /\ IsFiniteSet(mins) /\ mins \in SUBSET Minutes
      /\ Begun(start, end, R) = Total(F(R), mins) /\ Begun(start, end, B) = Total(F(B), mins)
      /\ Begun(start, end, Classes) = Total(F(Classes), mins)
  BY BegunSums, ClassSets DEF CountKinds
<1>2. ASSUME NEW m \in Minutes PROVE F(Classes)[m] = F(R)[m] + F(B)[m]
  <2> DEFINE a == recorded[m]
  <2>1. IsFiniteSet(Classes) /\ Numeric(a, Classes) /\ R \in SUBSET Classes /\ Classes \ R = B
    BY ClassSets DEF Recorded, Numeric, CountKinds, Classes, ClassesOf
  <2> HIDE DEF a, R, B
  <2>2. Total(a, Classes) = Total(a, R) + Total(a, Classes \ R)
    BY <2>1, TotalParts
  <2> QED
    BY <2>1, <2>2, AddUpTotal DEF a
<1> HIDE DEF F, R, B, mins
<1>3. \A m \in mins : F(Classes)[m] = F(R)[m] + F(B)[m]
  BY <1>1, <1>2
<1>4. Total(F(Classes), mins) = Total(F(R), mins) + Total(F(B), mins)
  <2> DEFINE c == F(Classes)
             r == F(R)
             b == F(B)
  <2>1. Numeric(r, mins) /\ Numeric(b, mins) /\ IsFiniteSet(mins) /\ \A m \in mins : c[m] = r[m] + b[m]
    BY <1>1, <1>3
  <2> HIDE DEF c, r, b
  <2>2. Total(c, mins) = Total(r, mins) + Total(b, mins)
    BY <2>1, TotalPlus
  <2> QED
    BY <2>2 DEF c, r, b
<1> QED
  BY <1>1, <1>4 DEF R, B

-----------------------------------------------------------------------------
(* The steps. *)

\* The type and the bucket start a thread has in hand.
LEMMA InHand ==
  ASSUME task \in [Recorders -> Task], NEW r \in Recorders, task[r].todo # {}
  PROVE  /\ TypeOf(r) \in task[r].todo /\ TypeOf(r) \in BucketTypes /\ TypeOf(r) # "none"
         /\ StartOf(r) \in Minutes
         /\ \A start, end : WholeRange(TypeOf(r), start, end) =>
              (start <= StartOf(r) /\ StartOf(r) < end
               <=> start <= task[r].minute /\ task[r].minute < end)
<1>1. TypeOf(r) \in task[r].todo
  BY DEF TypeOf
<1>2. task[r].todo \in SUBSET BucketTypes /\ task[r].minute \in Minutes
  BY DEF Task
<1>3. TypeOf(r) \in BucketTypes /\ TypeOf(r) # "none"
  BY <1>1, <1>2, AggregateAssumption
<1> DEFINE w == Width[TypeOf(r)]
           m == task[r].minute
<1>4. w \in Nat /\ w > 0 /\ m \in Nat /\ StartOf(r) = m - (m % w)
  BY <1>2, <1>3, AggregateAssumption DEF Minutes, StartOf, BucketStart
<1>5. ASSUME NEW s \in Nat, s % w = 0
      PROVE  (s <= m - (m % w) <=> s <= m) /\ (m - (m % w) < s <=> m < s)
  <2> HIDE DEF w, m
  <2> QED
    BY <1>4, <1>5, MultiplesBelow
<1>6. m - (m % w) \in Nat /\ m - (m % w) <= m
  <2>1. 0 % w = 0
    BY <1>4
  <2> HIDE DEF w, m
  <2> QED
    BY <1>4, <2>1, MultiplesBelow
<1>7. StartOf(r) \in Minutes
  BY <1>2, <1>4, <1>6, AggregateAssumption DEF Minutes
<1>8. ASSUME NEW start, NEW end, WholeRange(TypeOf(r), start, end)
      PROVE  start <= StartOf(r) /\ StartOf(r) < end
             <=> start <= task[r].minute /\ task[r].minute < end
  <2>1. start \in Nat /\ end \in Nat /\ start % w = 0 /\ end % w = 0
    BY <1>8, AggregateAssumption DEF WholeRange, Aligned, Minutes
  <2> QED
    BY <1>4, <1>5, <2>1
<1> QED
  BY <1>1, <1>3, <1>7, <1>8

\* A thread keeps what it has at hand while others count.
LEMMA OthersKeep ==
  ASSUME NEW tally \in Tally, NEW new \in Tally, CountTypeOK, NEW o \in Recorders, AtHand(o, tally),
         task'[o] = task[o], store' = store,
         \A b \in BucketIds : buckets[b].type # "none" =>
           buckets'[b].type = buckets[b].type /\ buckets'[b].start = buckets[b].start,
         \A k \in CountKinds, b \in BucketIds : tally[k][b] <= new[k][b]
  PROVE  AtHand(o, new)'
<1>1. task[o] \in Task /\ task[o].id \in 0..MaxBucket /\ task[o].copy \in Bucket
  BY DEF CountTypeOK, Task
<1>2. TypeOf(o)' = TypeOf(o) /\ StartOf(o)' = StartOf(o)
  BY DEF TypeOf, StartOf, BucketStart
<1>3. task[o].step \in {"enter", "add", "put"} =>
        /\ task[o].id \in BucketIds /\ TypeOf(o) # "none"
        /\ buckets'[task[o].id].type = TypeOf(o) /\ buckets'[task[o].id].start = StartOf(o)
  <2> SUFFICES ASSUME task[o].step \in {"enter", "add", "put"}
               PROVE  /\ task[o].id \in BucketIds /\ TypeOf(o) # "none"
                      /\ buckets'[task[o].id].type = TypeOf(o)
                      /\ buckets'[task[o].id].start = StartOf(o)
    OBVIOUS
  <2>1. /\ task[o].id \in BucketIds /\ buckets[task[o].id].type = TypeOf(o)
        /\ buckets[task[o].id].start = StartOf(o) /\ task[o].todo # {}
    BY <1>1, AggregateAssumption DEF AtHand, BucketIds
  <2>2. TypeOf(o) # "none"
    BY <2>1, InHand DEF CountTypeOK
  <2> QED
    BY <2>1, <2>2
<1>4. task[o].step = "put" => \A k \in CountKinds :
        task[o].copy[k] <= new[k][task[o].id] + (IF KindOf(task[o].class) = k THEN 1 ELSE 0)
  <2> SUFFICES ASSUME task[o].step = "put", NEW k \in CountKinds
               PROVE  task[o].copy[k] <= new[k][task[o].id] + (IF KindOf(task[o].class) = k THEN 1 ELSE 0)
    OBVIOUS
  <2>1. task[o].copy[k] <= tally[k][task[o].id] + (IF KindOf(task[o].class) = k THEN 1 ELSE 0)
    BY DEF AtHand
  <2>2. tally[k][task[o].id] \in Nat /\ new[k][task[o].id] \in Nat
        /\ tally[k][task[o].id] <= new[k][task[o].id]
    BY <1>3 DEF Tally
  <2>3. task[o].copy[k] \in Nat
    BY <1>1 DEF Bucket, CountKinds
  <2> QED
    BY <2>1, <2>2, <2>3
<1> QED
  BY <1>2, <1>3, <1>4 DEF AtHand

\* Steps that neither begin an event nor end the counting of one.
LEMMA BalancedStays ==
  ASSUME NEW tally, Balanced(tally), UNCHANGED <<buckets, recorded>>,
         \A r \in Recorders : /\ task'[r].todo = task[r].todo /\ task'[r].class = task[r].class
                              /\ task'[r].minute = task[r].minute
  PROVE  Balanced(tally)'
<1> SUFFICES ASSUME NEW type, NEW start, NEW end, WholeRange(type, start, end), NEW k \in CountKinds
             PROVE  Begun(start, end, ClassesOf(k))' =
                      Total(tally[k], BucketsIn(type, start, end)')
                      + Cardinality(Waiting(type, start, end, k)')
  BY DEF Balanced, WholeRange, Aligned, Minutes
<1>1. Begun(start, end, ClassesOf(k))' = Begun(start, end, ClassesOf(k))
  BY DEF Begun, ClassesOf
<1>2. BucketsIn(type, start, end)' = BucketsIn(type, start, end)
  BY DEF BucketsIn, InRange
<1>3. Waiting(type, start, end, k)' = Waiting(type, start, end, k)
  BY DEF Waiting
<1> QED
  BY <1>1, <1>2, <1>3 DEF Balanced

LEMMA IdleTask == NoBucket \in Bucket /\ NoTask \in Task
<1>1. 0 \in Minutes /\ 0 \in 0..MaxBucket
  BY AggregateAssumption DEF Minutes
<1>2. NoBucket \in Bucket
  BY <1>1 DEF NoBucket, Bucket
<1> QED
  BY <1>1, <1>2 DEF NoTask, Task, Classes

LEMMA RecordStep ==
  ASSUME BucketTypes # {}, NEW tally \in Tally, CountInv(tally), NEW r \in Recorders, Record(r)
  PROVE  CountInv(tally)'
<1>1. PICK m \in Minutes, c \in Classes :
        /\ task[r].step = "idle" /\ recorded' = [recorded EXCEPT ![m][c] = @ + 1]
        /\ Do(r, [NoTask EXCEPT !.step = "get", !.todo = BucketTypes, !.class = c, !.minute = m])
        /\ UNCHANGED <<store, buckets, index>>
  BY DEF Record
<1> DEFINE new == [NoTask EXCEPT !.step = "get", !.todo = BucketTypes, !.class = c, !.minute = m]
<1>t. CountTypeOK /\ StoredInv(tally) /\ Balanced(tally) /\ \A o \in Recorders : AtHand(o, tally)
  BY DEF CountInv
<1>2. /\ new \in Task /\ new.step = "get" /\ new.todo = BucketTypes /\ new.class = c /\ new.minute = m
  BY IdleTask DEF Task
<1>3. task' = [task EXCEPT ![r] = new]
  BY <1>1 DEF Do
<1> HIDE DEF new
<1>4. task' \in [Recorders -> Task] /\ task'[r] = new /\ \A o \in Recorders : o # r => task'[o] = task[o]
  BY <1>2, <1>3, <1>t DEF CountTypeOK
<1>5. Recorded /\ Recorded'
  BY <1>1, <1>t, BegunGrows DEF CountTypeOK, Recorded
<1>b. \A start, end : \A set \in SUBSET Classes :
        Begun(start, end, set)' =
          Begun(start, end, set) + (IF c \in set /\ start <= m /\ m < end THEN 1 ELSE 0)
  BY <1>1, <1>5, BegunGrows
<1>6. CountTypeOK'
  BY <1>1, <1>4, <1>5, <1>t DEF CountTypeOK, Recorded, Bucket, Task, Minutes
<1>7. StoredInv(tally)'
  BY <1>1, <1>t DEF StoredInv
<1>8. ASSUME NEW o \in Recorders PROVE AtHand(o, tally)'
  <2>1. CASE o = r
    BY <1>2, <1>4, <2>1 DEF AtHand
  <2>2. CASE o # r
    BY <1>1, <1>4, <1>t, <2>2, OthersKeep DEF Tally
  <2> QED
    BY <2>1, <2>2
<1>9. Balanced(tally)'
  <2> SUFFICES ASSUME NEW type, NEW start, NEW end, WholeRange(type, start, end), NEW k \in CountKinds
               PROVE  Begun(start, end, ClassesOf(k))' =
                        Total(tally[k], BucketsIn(type, start, end)')
                        + Cardinality(Waiting(type, start, end, k)')
    BY DEF Balanced, WholeRange, Aligned, Minutes
  <2> DEFINE B == Begun(start, end, ClassesOf(k))
             W == Waiting(type, start, end, k)
             in == KindOf(c) = k /\ start <= m /\ m < end
  <2>1. B = Total(tally[k], BucketsIn(type, start, end)) + Cardinality(W)
    BY <1>t DEF Balanced
  <2>2. BucketsIn(type, start, end)' = BucketsIn(type, start, end)
    BY <1>1 DEF BucketsIn, InRange
  <2>3. B' = B + (IF in THEN 1 ELSE 0)
    <3>1. ClassesOf(k) \in SUBSET Classes /\ (c \in ClassesOf(k) <=> KindOf(c) = k)
      BY ClassSets
    <3>2. PICK set \in SUBSET Classes : set = ClassesOf(k)
      BY <3>1
    <3>3. Begun(start, end, set)' =
            Begun(start, end, set) + (IF c \in set /\ start <= m /\ m < end THEN 1 ELSE 0)
      BY <1>b
    <3>4. B = Begun(start, end, set) /\ B' = Begun(start, end, set)'
      BY <3>2
    <3> QED
      BY <3>1, <3>2, <3>3, <3>4
  <2>4. r \notin W
    BY <1>1, <1>t DEF Waiting, AtHand
  <2>5. W' = IF in THEN W \cup {r} ELSE W
    <3>1. type \in BucketTypes
      BY DEF WholeRange
    <3>2. \A o \in Recorders : o # r => (o \in W' <=> o \in W)
      BY <1>4 DEF Waiting
    <3>3. r \in W' <=> in
      BY <1>2, <1>4, <3>1 DEF Waiting
    <3>4. W' \subseteq Recorders /\ W \subseteq Recorders
      BY DEF Waiting
    <3> HIDE DEF W, in
    <3> QED
      BY <2>4, <3>2, <3>3, <3>4 DEF W
  <2>6. Cardinality(W') = Cardinality(W) + (IF in THEN 1 ELSE 0) /\ Cardinality(W) \in Nat
    <3>1. IsFiniteSet(W) /\ Cardinality(W) \in Nat
      BY CountSets
    <3> HIDE DEF W, in
    <3>2. Cardinality(W \cup {r}) = Cardinality(W) + 1
      BY <2>4, <3>1, FS_AddElement
    <3> QED
      BY <2>5, <3>1, <3>2 DEF W
  <2>7. Total(tally[k], BucketsIn(type, start, end)) \in Int
    <3>1. Numeric(tally[k], BucketIds)
      BY DEF Numeric, Tally
    <3> QED
      BY <3>1, CountSets, TotalOfPart
  <2> HIDE DEF in, W, B
  <2>8. B' = Total(tally[k], BucketsIn(type, start, end)') + Cardinality(W')
    BY <2>1, <2>2, <2>3, <2>6, <2>7
  <2> QED
    BY <2>8 DEF B, W
<1> QED
  BY <1>6, <1>7, <1>8, <1>9 DEF CountInv

\* The steps that only move the thread: its type, class and minute stay, and the bucket
\* it comes to is of them.
LEMMA MoveStep ==
  ASSUME NEW tally \in Tally, CountInv(tally), NEW r \in Recorders, NEW new \in Task, Do(r, new),
         UNCHANGED <<store, buckets, recorded>>,
         task[r].todo # {}, new.step # "idle",
         new.todo = task[r].todo, new.class = task[r].class, new.minute = task[r].minute,
         CountTypeOK', StoredInv(tally)',
         new.step \in {"enter", "add", "put"} =>
           new.id # 0 /\ buckets[new.id].type = TypeOf(r) /\ buckets[new.id].start = StartOf(r),
         new.step \in {"enter", "put"} => store = "memory",
         new.step = "put" =>
           /\ new.copy.type = TypeOf(r) /\ new.copy.start = StartOf(r)
           /\ new.copy.total = new.copy.real + new.copy.bot
           /\ \A k \in CountKinds : new.copy[k] <= tally[k][new.id] + (IF KindOf(new.class) = k THEN 1 ELSE 0)
  PROVE  CountInv(tally)'
<1>t. CountTypeOK /\ Balanced(tally) /\ \A o \in Recorders : AtHand(o, tally)
  BY DEF CountInv
<1>1. task'[r] = new /\ \A o \in Recorders : o # r => task'[o] = task[o]
  BY <1>t DEF Do, CountTypeOK
<1>2. ASSUME NEW o \in Recorders PROVE AtHand(o, tally)'
  <2>1. CASE o = r
    <3>1. TypeOf(r)' = TypeOf(r) /\ StartOf(r)' = StartOf(r)
      BY <1>1 DEF TypeOf, StartOf, BucketStart
    <3> QED
      BY <1>1, <2>1, <3>1 DEF AtHand
  <2>2. CASE o # r
    BY <1>1, <1>t, <2>2, OthersKeep DEF Tally
  <2> QED
    BY <2>1, <2>2
<1>3. Balanced(tally)'
  <2>1. \A o \in Recorders : /\ task'[o].todo = task[o].todo /\ task'[o].class = task[o].class
                             /\ task'[o].minute = task[o].minute
    BY <1>1
  <2> QED
    BY <1>t, <2>1, BalancedStays
<1> QED
  BY <1>2, <1>3 DEF CountInv

LEMMA ThreadFacts ==
  ASSUME NEW tally \in Tally, CountInv(tally), NEW r \in Recorders, task[r].step # "idle"
  PROVE  /\ task[r] \in Task /\ task[r].todo # {} /\ AtHand(r, tally)
         /\ TypeOf(r) \in task[r].todo /\ TypeOf(r) \in BucketTypes /\ TypeOf(r) # "none"
         /\ StartOf(r) \in Minutes
BY InHand DEF CountInv, CountTypeOK, AtHand

\* A thread that changes only its step and the bucket at hand.
LEMMA MovedTypes ==
  ASSUME CountTypeOK, NEW r \in Recorders, NEW new \in Task, Do(r, new),
         UNCHANGED <<store, recorded>>, buckets' \in [BucketIds -> Bucket],
         index' \in [BucketTypes -> [Minutes -> 0..MaxBucket]]
  PROVE  CountTypeOK'
BY DEF CountTypeOK, Do, Bucket, Task, Minutes

LEMMA GetStep ==
  ASSUME NEW tally \in Tally, CountInv(tally), NEW r \in Recorders, GetMemory(r) \/ GetSql(r)
  PROVE  CountInv(tally)'
<1>1. /\ task[r].step = "get" /\ UNCHANGED <<store, buckets, index, recorded>>
      /\ CountTypeOK /\ StoredInv(tally)
  BY DEF GetMemory, GetSql, CountInv
<1>2. /\ task[r] \in Task /\ task[r].todo # {} /\ AtHand(r, tally)
      /\ TypeOf(r) \in BucketTypes /\ StartOf(r) \in Minutes
  BY <1>1, ThreadFacts
<1>3. PICK id \in 0..MaxBucket, step \in {"create", "add"} :
        /\ Do(r, [task[r] EXCEPT !.id = id, !.step = step])
        /\ step = "add" => id # 0 /\ buckets[id].type = TypeOf(r) /\ buckets[id].start = StartOf(r)
  <2>1. CASE GetMemory(r)
    <3> DEFINE id == index[TypeOf(r)][StartOf(r)]
    <3>1. id \in 0..MaxBucket /\ (id # 0 => buckets[id].type = TypeOf(r) /\ buckets[id].start = StartOf(r))
      BY <1>1, <1>2 DEF CountTypeOK, StoredInv
    <3>2. Do(r, [task[r] EXCEPT !.id = id, !.step = IF id = 0 THEN "create" ELSE "add"])
      BY <2>1 DEF GetMemory
    <3> HIDE DEF id
    <3> QED
      BY <3>1, <3>2
  <2>2. CASE GetSql(r)
    <3>1. CASE \E b \in BucketIds : /\ buckets[b].type = TypeOf(r) /\ buckets[b].start = StartOf(r)
                                     /\ Do(r, [task[r] EXCEPT !.id = b, !.step = "add"])
      <4>1. PICK b \in BucketIds : /\ buckets[b].type = TypeOf(r) /\ buckets[b].start = StartOf(r)
                                   /\ Do(r, [task[r] EXCEPT !.id = b, !.step = "add"])
        BY <3>1
      <4>2. b \in 0..MaxBucket /\ b # 0 /\ "add" \in {"create", "add"}
        BY AggregateAssumption DEF BucketIds
      <4> QED
        BY <4>1, <4>2
    <3>2. CASE Do(r, [task[r] EXCEPT !.step = "create"])
      <4>1. [task[r] EXCEPT !.step = "create"] = [task[r] EXCEPT !.id = task[r].id, !.step = "create"]
        BY <1>2 DEF Task
      <4>2. task[r].id \in 0..MaxBucket
        BY <1>2 DEF Task
      <4> QED
        BY <3>2, <4>1, <4>2
    <3> QED
      BY <2>2, <3>1, <3>2 DEF GetSql
  <2> QED
    BY <2>1, <2>2
<1> DEFINE new == [task[r] EXCEPT !.id = id, !.step = step]
<1>4. /\ new \in Task /\ new.id = id /\ new.step = step /\ new.todo = task[r].todo
      /\ new.class = task[r].class /\ new.minute = task[r].minute
  BY <1>2 DEF Task
<1>5. Do(r, new)
  BY <1>3
<1> HIDE DEF new
<1>6. CountTypeOK'
  BY <1>1, <1>4, <1>5, MovedTypes DEF CountTypeOK
<1>7. StoredInv(tally)'
  BY <1>1 DEF StoredInv
<1> QED
  BY <1>1, <1>2, <1>3, <1>4, <1>5, <1>6, <1>7, MoveStep

LEMMA EnterIndexStep ==
  ASSUME NEW tally \in Tally, CountInv(tally), NEW r \in Recorders, EnterIndex(r)
  PROVE  CountInv(tally)'
<1>1. /\ task[r].step = "enter" /\ UNCHANGED <<store, buckets, recorded>>
      /\ CountTypeOK /\ StoredInv(tally)
  BY DEF EnterIndex, CountInv
<1>2. /\ task[r] \in Task /\ task[r].todo # {} /\ AtHand(r, tally)
      /\ TypeOf(r) \in BucketTypes /\ StartOf(r) \in Minutes
  BY <1>1, ThreadFacts
<1> DEFINE new == [task[r] EXCEPT !.step = "add"]
<1>3. /\ new \in Task /\ new.id = task[r].id /\ new.step = "add" /\ new.todo = task[r].todo
      /\ new.class = task[r].class /\ new.minute = task[r].minute
  BY <1>2 DEF Task
<1>4. Do(r, new)
  BY DEF EnterIndex
<1>5. /\ task[r].id # 0 /\ buckets[task[r].id].type = TypeOf(r) /\ buckets[task[r].id].start = StartOf(r)
      /\ task[r].id \in 0..MaxBucket
  BY <1>1, <1>2 DEF AtHand, Task
<1>6. index' = [index EXCEPT ![TypeOf(r)][StartOf(r)] = task[r].id]
  BY DEF EnterIndex
<1> HIDE DEF new
<1>7. index' \in [BucketTypes -> [Minutes -> 0..MaxBucket]]
  BY <1>1, <1>2, <1>5, <1>6 DEF CountTypeOK
<1>8. CountTypeOK'
  BY <1>1, <1>3, <1>4, <1>7, MovedTypes DEF CountTypeOK
<1>9. StoredInv(tally)'
  <2>1. ASSUME NEW t \in BucketTypes, NEW m \in Minutes, index'[t][m] # 0
        PROVE  buckets[index'[t][m]].type = t /\ buckets[index'[t][m]].start = m
    <3>1. CASE t = TypeOf(r) /\ m = StartOf(r)
      BY <1>1, <1>2, <1>5, <1>6, <3>1 DEF CountTypeOK
    <3>2. CASE ~(t = TypeOf(r) /\ m = StartOf(r))
      <4>1. index'[t][m] = index[t][m]
        BY <1>1, <1>2, <1>6, <3>2 DEF CountTypeOK
      <4> QED
        BY <1>1, <2>1, <4>1 DEF StoredInv
    <3> QED
      BY <3>1, <3>2
  <2> QED
    BY <1>1, <2>1 DEF StoredInv
<1> QED
  BY <1>1, <1>2, <1>3, <1>4, <1>5, <1>8, <1>9, MoveStep

\* The counts a bucket has after one event more.
LEMMA CountedFacts ==
  ASSUME NEW bucket \in Bucket, NEW class \in Classes
  PROVE  LET new == Counted(bucket, class) IN
         /\ new \in Bucket /\ new.type = bucket.type /\ new.start = bucket.start
         /\ new.total = bucket.total + 1
         /\ \A k \in CountKinds : new[k] = bucket[k] + (IF KindOf(class) = k THEN 1 ELSE 0)
         /\ bucket.total = bucket.real + bucket.bot => new.total = new.real + new.bot
<1> DEFINE new == Counted(bucket, class)
<1>1. /\ bucket.type \in BucketTypes \cup {"none"} /\ bucket.start \in Minutes
      /\ bucket.total \in Nat /\ bucket.real \in Nat /\ bucket.bot \in Nat
  BY DEF Bucket
<1>2. /\ new.type = bucket.type /\ new.start = bucket.start /\ new.total = bucket.total + 1
      /\ new.real = IF class = "bot" THEN bucket.real ELSE bucket.real + 1
      /\ new.bot = IF class = "bot" THEN bucket.bot + 1 ELSE bucket.bot
  BY DEF Counted, Bucket
<1>3. new \in Bucket
  <2>1. /\ bucket.total + 1 \in Nat /\ (IF class = "bot" THEN bucket.real ELSE bucket.real + 1) \in Nat
        /\ (IF class = "bot" THEN bucket.bot + 1 ELSE bucket.bot) \in Nat
    BY <1>1
  <2> QED
    BY <1>1, <2>1 DEF Counted, Bucket
<1> HIDE DEF new
<1>4. new["real"] = bucket["real"] + (IF KindOf(class) = "real" THEN 1 ELSE 0)
  BY <1>1, <1>2 DEF KindOf
<1>5. new["bot"] = bucket["bot"] + (IF KindOf(class) = "bot" THEN 1 ELSE 0)
  BY <1>1, <1>2 DEF KindOf
<1>6. \A k \in CountKinds : new[k] = bucket[k] + (IF KindOf(class) = k THEN 1 ELSE 0)
  BY <1>4, <1>5 DEF CountKinds
<1>7. bucket.total = bucket.real + bucket.bot => new.total = new.real + new.bot
  BY <1>1, <1>2
<1> QED
  BY <1>2, <1>3, <1>6, <1>7 DEF new

LEMMA ReadBucketStep ==
  ASSUME NEW tally \in Tally, CountInv(tally), NEW r \in Recorders, ReadBucket(r)
  PROVE  CountInv(tally)'
<1>1. /\ task[r].step = "add" /\ UNCHANGED <<store, buckets, index, recorded>> /\ store = "memory"
      /\ CountTypeOK /\ StoredInv(tally)
  BY DEF ReadBucket, CountInv
<1>2. /\ task[r] \in Task /\ task[r].todo # {} /\ AtHand(r, tally)
      /\ TypeOf(r) \in BucketTypes /\ StartOf(r) \in Minutes
  BY <1>1, ThreadFacts
<1> DEFINE old == buckets[task[r].id]
           copy == Counted(old, task[r].class)
           new == [task[r] EXCEPT !.copy = copy, !.step = "put"]
<1>3. /\ task[r].id \in BucketIds /\ task[r].class \in Classes
      /\ old \in Bucket /\ old.type = TypeOf(r) /\ old.start = StartOf(r)
      /\ old.total = old.real + old.bot /\ \A k \in CountKinds : old[k] <= tally[k][task[r].id]
  BY <1>1, <1>2, AggregateAssumption DEF AtHand, Task, BucketIds, CountTypeOK, StoredInv
<1>4. Do(r, new)
  BY DEF ReadBucket
<1> HIDE DEF old
<1>5. /\ copy \in Bucket /\ copy.type = TypeOf(r) /\ copy.start = StartOf(r)
      /\ copy.total = copy.real + copy.bot
      /\ \A k \in CountKinds : copy[k] = old[k] + (IF KindOf(task[r].class) = k THEN 1 ELSE 0)
  BY <1>3, CountedFacts
<1> HIDE DEF copy
<1>6. /\ new \in Task /\ new.id = task[r].id /\ new.step = "put" /\ new.todo = task[r].todo
      /\ new.class = task[r].class /\ new.minute = task[r].minute /\ new.copy = copy
  BY <1>2, <1>5 DEF Task
<1> HIDE DEF new
<1>7. \A k \in CountKinds : copy[k] <= tally[k][task[r].id] + (IF KindOf(task[r].class) = k THEN 1 ELSE 0)
  <2> SUFFICES ASSUME NEW k \in CountKinds
               PROVE  copy[k] <= tally[k][task[r].id] + (IF KindOf(task[r].class) = k THEN 1 ELSE 0)
    OBVIOUS
  <2>1. /\ copy[k] = old[k] + (IF KindOf(task[r].class) = k THEN 1 ELSE 0)
        /\ old[k] <= tally[k][task[r].id] /\ old[k] \in Nat /\ tally[k][task[r].id] \in Nat
    BY <1>3, <1>5 DEF Bucket, CountKinds, Tally
  <2> QED
    BY <2>1
<1>8. CountTypeOK'
  BY <1>1, <1>4, <1>6, MovedTypes DEF CountTypeOK
<1>9. StoredInv(tally)'
  BY <1>1 DEF StoredInv
<1>10. new.id # 0 /\ buckets[new.id].type = TypeOf(r) /\ buckets[new.id].start = StartOf(r)
  BY <1>1, <1>2, <1>6 DEF AtHand
<1> QED
  BY <1>1, <1>2, <1>4, <1>5, <1>6, <1>7, <1>8, <1>9, <1>10, MoveStep

\* A step that changes buckets only where none was, or in their counts.
LEMMA CreateBucketStep ==
  ASSUME NEW tally \in Tally, CountInv(tally), NEW r \in Recorders, CreateBucket(r)
  PROVE  CountInv(tally)'
<1>1. PICK b \in BucketIds :
        /\ task[r].step = "create" /\ buckets[b].type = "none"
        /\ buckets' = [buckets EXCEPT ![b] = [NoBucket EXCEPT !.type = TypeOf(r), !.start = StartOf(r)]]
        /\ Do(r, [task[r] EXCEPT !.id = b, !.step = IF store = "sql" THEN "add" ELSE "enter"])
        /\ UNCHANGED <<store, index, recorded>>
  BY DEF CreateBucket
<1>t. CountTypeOK /\ StoredInv(tally) /\ Balanced(tally) /\ \A o \in Recorders : AtHand(o, tally)
  BY DEF CountInv
<1>2. /\ task[r] \in Task /\ task[r].todo # {} /\ AtHand(r, tally) /\ TypeOf(r) # "none"
      /\ TypeOf(r) \in BucketTypes /\ StartOf(r) \in Minutes
  BY <1>1, ThreadFacts
<1> DEFINE fresh == [NoBucket EXCEPT !.type = TypeOf(r), !.start = StartOf(r)]
           step == IF store = "sql" THEN "add" ELSE "enter"
           new == [task[r] EXCEPT !.id = b, !.step = step]
<1>3. /\ fresh \in Bucket /\ fresh.type = TypeOf(r) /\ fresh.start = StartOf(r)
      /\ fresh.total = 0 /\ fresh.real = 0 /\ fresh.bot = 0
  BY <1>2 DEF NoBucket, Bucket
<1>4. /\ new \in Task /\ new.id = b /\ new.step = step /\ new.todo = task[r].todo
      /\ new.class = task[r].class /\ new.minute = task[r].minute
  <2>1. b \in 0..MaxBucket
    BY AggregateAssumption DEF BucketIds
  <2> QED
    BY <1>2, <2>1 DEF Task
<1>5. Do(r, new) /\ buckets' = [buckets EXCEPT ![b] = fresh]
  BY <1>1
<1>6. b \in Nat /\ b # 0
  BY AggregateAssumption DEF BucketIds
<1>7. step \in {"add", "enter"} /\ (step = "enter" => store = "memory")
  BY <1>t DEF CountTypeOK
<1> HIDE DEF fresh, step, new
<1>8. buckets' \in [BucketIds -> Bucket] /\ buckets'[b] = fresh
      /\ \A a \in BucketIds : a # b => buckets'[a] = buckets[a]
  BY <1>3, <1>5, <1>t DEF CountTypeOK
<1>9. CountTypeOK'
  BY <1>1, <1>4, <1>5, <1>8, <1>t, MovedTypes DEF CountTypeOK
<1>10. task'[r] = new /\ \A o \in Recorders : o # r => task'[o] = task[o]
  BY <1>5, <1>t DEF Do, CountTypeOK
<1>11. tally["real"][b] = 0 /\ tally["bot"][b] = 0
  BY <1>1, <1>t DEF StoredInv, CountKinds
<1>12. StoredInv(tally)'
  <2>1. ASSUME NEW a \in BucketIds
        PROVE  /\ buckets'[a].type = "none" => \A k \in CountKinds : tally[k][a] = 0
               /\ buckets'[a].total = buckets'[a].real + buckets'[a].bot
               /\ \A k \in CountKinds : buckets'[a][k] <= tally[k][a]
               /\ store = "sql" => \A k \in CountKinds : buckets'[a][k] = tally[k][a]
    <3>1. CASE a = b
      BY <1>2, <1>3, <1>8, <1>11, <3>1 DEF CountKinds
    <3>2. CASE a # b
      BY <1>8, <1>t, <3>2 DEF StoredInv
    <3> QED
      BY <3>1, <3>2
  <2>2. ASSUME NEW t \in BucketTypes, NEW m \in Minutes, index[t][m] # 0
        PROVE  buckets'[index[t][m]].type = t /\ buckets'[index[t][m]].start = m
    <3>1. buckets[index[t][m]].type = t /\ buckets[index[t][m]].start = m
      BY <1>t, <2>2 DEF StoredInv
    <3>2. index[t][m] \in BucketIds /\ t # "none"
      BY <1>t, <2>2, AggregateAssumption DEF CountTypeOK, BucketIds
    <3> QED
      BY <1>1, <1>8, <3>1, <3>2
  <2> QED
    BY <1>1, <2>1, <2>2 DEF StoredInv
<1>13. ASSUME NEW o \in Recorders PROVE AtHand(o, tally)'
  <2>1. CASE o = r
    <3>1. TypeOf(r)' = TypeOf(r) /\ StartOf(r)' = StartOf(r)
      BY <1>4, <1>10 DEF TypeOf, StartOf, BucketStart
    <3>2. task'[r].step \in {"add", "enter"} /\ task'[r].id = b /\ task'[r].todo # {}
      BY <1>2, <1>4, <1>7, <1>10
    <3>3. task'[r].step = "enter" => store' = "memory"
      BY <1>1, <1>4, <1>7, <1>10
    <3> QED
      BY <1>3, <1>6, <1>8, <2>1, <3>1, <3>2, <3>3 DEF AtHand
  <2>2. CASE o # r
    <3>1. \A a \in BucketIds : buckets[a].type # "none" =>
            buckets'[a].type = buckets[a].type /\ buckets'[a].start = buckets[a].start
      BY <1>1, <1>8
    <3>2. \A k \in CountKinds, a \in BucketIds : tally[k][a] <= tally[k][a]
      BY DEF Tally
    <3> QED
      BY <1>1, <1>10, <1>t, <2>2, <3>1, <3>2, OthersKeep
  <2> QED
    BY <2>1, <2>2
<1>14. Balanced(tally)'
  <2> SUFFICES ASSUME NEW type, NEW start, NEW end, WholeRange(type, start, end), NEW k \in CountKinds
               PROVE  Begun(start, end, ClassesOf(k))' =
                        Total(tally[k], BucketsIn(type, start, end)')
                        + Cardinality(Waiting(type, start, end, k)')
    BY DEF Balanced, WholeRange, Aligned, Minutes
  <2>1. Begun(start, end, ClassesOf(k))' = Begun(start, end, ClassesOf(k))
    BY <1>1 DEF Begun, ClassesOf
  <2>2. Waiting(type, start, end, k)' = Waiting(type, start, end, k)
    <3>1. \A o \in Recorders : /\ task'[o].todo = task[o].todo /\ task'[o].class = task[o].class
                               /\ task'[o].minute = task[o].minute
      BY <1>4, <1>10
    <3> QED
      BY <3>1 DEF Waiting
  <2> DEFINE old == BucketsIn(type, start, end)
             now == BucketsIn(type, start, end)'
  <2>3. old \in SUBSET now /\ now \in SUBSET BucketIds /\ \A a \in now \ old : a = b
    <3>1. type \in BucketTypes /\ type # "none"
      BY AggregateAssumption DEF WholeRange
    <3>2. b \notin old
      BY <1>1, <3>1 DEF BucketsIn, InRange
    <3>3. \A a \in BucketIds : a # b => (a \in now <=> a \in old)
      BY <1>8 DEF BucketsIn, InRange
    <3>4. now \subseteq BucketIds /\ old \subseteq BucketIds
      BY DEF BucketsIn
    <3> HIDE DEF now, old
    <3> QED
      BY <3>2, <3>3, <3>4
  <2>4. Total(tally[k], old) = Total(tally[k], now)
    <3> HIDE DEF now, old
    <3>1. IsFiniteSet(now)
      BY <2>3, CountSets, FS_Subset
    <3>2. \A a \in now : tally[k][a] \in Nat
      BY <2>3 DEF Tally
    <3>3. \A a \in now \ old : tally[k][a] = 0
      BY <1>11, <2>3 DEF CountKinds
    <3> QED
      BY <2>3, <3>1, <3>2, <3>3, TotalLess
  <2>5. Begun(start, end, ClassesOf(k)) = Total(tally[k], old) + Cardinality(Waiting(type, start, end, k))
    BY <1>t DEF Balanced
  <2> QED
    BY <2>1, <2>2, <2>4, <2>5
<1> QED
  BY <1>9, <1>12, <1>13, <1>14 DEF CountInv

\* The counting of an event in a bucket comes to its end.
LEMMA CountingStep ==
  ASSUME NEW tally \in Tally, CountInv(tally), NEW r \in Recorders, NEW val \in Bucket,
         task[r].step \in {"add", "put"}, NextType(r), UNCHANGED <<store, index, recorded>>,
         buckets' = [buckets EXCEPT ![task[r].id] = val],
         val.type = TypeOf(r), val.start = StartOf(r), val.total = val.real + val.bot,
         \A k \in CountKinds : val[k] <= tally[k][task[r].id] + (IF KindOf(task[r].class) = k THEN 1 ELSE 0),
         store = "sql" => \A k \in CountKinds :
           val[k] = tally[k][task[r].id] + (IF KindOf(task[r].class) = k THEN 1 ELSE 0)
  PROVE  \E new \in Tally : CountInv(new)'
<1> DEFINE id == task[r].id
           class == task[r].class
           todo == task[r].todo \ {TypeOf(r)}
           one(k) == IF KindOf(class) = k THEN 1 ELSE 0
           rec == IF todo = {} THEN NoTask
                  ELSE [task[r] EXCEPT !.step = "get", !.todo = todo, !.id = 0, !.copy = NoBucket]
<1>t. CountTypeOK /\ StoredInv(tally) /\ Balanced(tally) /\ \A o \in Recorders : AtHand(o, tally)
  BY DEF CountInv
<1>1. /\ task[r] \in Task /\ task[r].todo # {} /\ AtHand(r, tally) /\ TypeOf(r) \in task[r].todo
      /\ TypeOf(r) \in BucketTypes /\ TypeOf(r) # "none" /\ StartOf(r) \in Minutes
  BY ThreadFacts
<1>2. /\ id \in BucketIds /\ class \in Classes
      /\ buckets[id].type = TypeOf(r) /\ buckets[id].start = StartOf(r)
  BY <1>1, AggregateAssumption DEF AtHand, Task, BucketIds
<1>3. /\ rec \in Task /\ rec.todo = todo /\ (rec.step = "idle" <=> rec.todo = {})
      /\ rec.step \in {"idle", "get"}
      /\ (rec.todo # {} => rec.class = class /\ rec.minute = task[r].minute)
  <2>1. NoTask \in Task /\ NoBucket \in Bucket /\ 0 \in 0..MaxBucket
    BY IdleTask, AggregateAssumption
  <2>2. CASE todo = {}
    BY <2>1, <2>2 DEF NoTask
  <2>3. CASE todo # {}
    <3>1. todo \in SUBSET BucketTypes
      BY <1>1 DEF Task
    <3> HIDE DEF todo
    <3> QED
      BY <1>1, <2>1, <2>3, <3>1 DEF Task
  <2> QED
    BY <2>2, <2>3
<1>4. task'[r] = rec /\ task' \in [Recorders -> Task] /\ \A o \in Recorders : o # r => task'[o] = task[o]
  <2>1. task' = [task EXCEPT ![r] = rec]
    BY DEF NextType, Do
  <2> HIDE DEF rec
  <2> QED
    BY <1>3, <1>t, <2>1 DEF CountTypeOK
<1>5. \A k \in CountKinds : one(k) \in {0, 1}
  OBVIOUS
<1>6. PICK new \in Tally :
        new = [k \in CountKinds |-> [b \in BucketIds |-> tally[k][b] + (IF b = id THEN one(k) ELSE 0)]]
  <2> HIDE DEF one, id
  <2>1. \A k \in CountKinds : [b \in BucketIds |-> tally[k][b] + (IF b = id THEN one(k) ELSE 0)]
                           \in [BucketIds -> Nat]
    BY <1>5 DEF Tally
  <2>2. [k \in CountKinds |-> [b \in BucketIds |-> tally[k][b] + (IF b = id THEN one(k) ELSE 0)]] \in Tally
    BY <2>1 DEF Tally
  <2> QED
    BY <2>2
<1>7. /\ \A k \in CountKinds : new[k][id] = tally[k][id] + one(k) /\ new[k][id] \in Nat
      /\ \A k \in CountKinds, b \in BucketIds : /\ tally[k][b] <= new[k][b] /\ tally[k][b] \in Nat
                                           /\ (b # id => new[k][b] = tally[k][b])
  BY <1>2, <1>5, <1>6 DEF Tally
<1>8. /\ buckets' \in [BucketIds -> Bucket] /\ buckets'[id] = val
      /\ \A b \in BucketIds : b # id => buckets'[b] = buckets[b]
  BY <1>2, <1>t DEF CountTypeOK
<1>9. \A b \in BucketIds : buckets'[b].type = buckets[b].type /\ buckets'[b].start = buckets[b].start
  BY <1>2, <1>8
<1> HIDE DEF id, class, todo, rec, one
<1>10. CountTypeOK'
  BY <1>4, <1>8, <1>t DEF CountTypeOK, Bucket, Task, Minutes
<1>11. StoredInv(new)'
  <2>1. ASSUME NEW a \in BucketIds
        PROVE  /\ buckets'[a].type = "none" => \A k \in CountKinds : new[k][a] = 0
               /\ buckets'[a].total = buckets'[a].real + buckets'[a].bot
               /\ \A k \in CountKinds : buckets'[a][k] <= new[k][a]
               /\ store = "sql" => \A k \in CountKinds : buckets'[a][k] = new[k][a]
    <3>1. CASE a = id
      BY <1>1, <1>7, <1>8, <3>1 DEF id, class, one
    <3>2. CASE a # id
      BY <1>7, <1>8, <1>t, <3>2 DEF StoredInv
    <3> QED
      BY <3>1, <3>2
  <2>2. ASSUME NEW t \in BucketTypes, NEW m \in Minutes, index[t][m] # 0
        PROVE  buckets'[index[t][m]].type = t /\ buckets'[index[t][m]].start = m
    <3>1. buckets[index[t][m]].type = t /\ buckets[index[t][m]].start = m
      BY <1>t, <2>2 DEF StoredInv
    <3>2. index[t][m] \in BucketIds
      BY <1>t, <2>2, AggregateAssumption DEF CountTypeOK, BucketIds
    <3> QED
      BY <1>9, <3>1, <3>2
  <2> QED
    BY <2>1, <2>2 DEF StoredInv
<1>12. ASSUME NEW o \in Recorders PROVE AtHand(o, new)'
  <2>1. CASE o = r
    BY <1>3, <1>4, <2>1 DEF AtHand
  <2>2. CASE o # r
    <3>1. task'[o] = task[o] /\ store' = store /\ AtHand(o, tally) /\ CountTypeOK
      BY <1>4, <1>t, <2>2
    <3> QED
      BY <1>6, <1>7, <1>9, <3>1, OthersKeep
  <2> QED
    BY <2>1, <2>2
<1>13. Balanced(new)'
  <2> SUFFICES ASSUME NEW type, NEW start, NEW end, WholeRange(type, start, end), NEW k \in CountKinds
               PROVE  Begun(start, end, ClassesOf(k))' =
                        Total(new[k], BucketsIn(type, start, end)')
                        + Cardinality(Waiting(type, start, end, k)')
    BY DEF Balanced, WholeRange, Aligned, Minutes
  <2> DEFINE in == type = TypeOf(r) /\ start <= StartOf(r) /\ StartOf(r) < end
             B == BucketsIn(type, start, end)
             W == Waiting(type, start, end, k)
  <2>1. Begun(start, end, ClassesOf(k))' = Begun(start, end, ClassesOf(k))
    BY DEF Begun, ClassesOf
  <2>2. BucketsIn(type, start, end)' = B
    BY <1>9 DEF BucketsIn, InRange
  <2>3. Begun(start, end, ClassesOf(k)) = Total(tally[k], B) + Cardinality(W)
    BY <1>t DEF Balanced
  <2>4. id \in B <=> in
    BY <1>2 DEF BucketsIn, InRange
  <2>5. in <=> type = TypeOf(r) /\ start <= task[r].minute /\ task[r].minute < end
    BY <1>1, <1>t, InHand DEF CountTypeOK
  <2>6. r \in W /\ r \notin Waiting(type, start, end, k)' <=> in /\ KindOf(class) = k
    BY <1>1, <1>3, <1>4, <2>5 DEF Waiting, todo, class
  <2>7. r \in Waiting(type, start, end, k)' => r \in W
    BY <1>3, <1>4 DEF Waiting, todo, class
  <2>8. \A o \in Recorders : o # r => (o \in Waiting(type, start, end, k)' <=> o \in W)
    BY <1>4 DEF Waiting
  <2>9. W \in SUBSET Recorders /\ Waiting(type, start, end, k)' \in SUBSET Recorders
        /\ IsFiniteSet(W) /\ Cardinality(W) \in Nat
    <3>1. W \in SUBSET Recorders /\ Waiting(type, start, end, k)' \in SUBSET Recorders
      BY DEF Waiting
    <3> QED
      BY <3>1, CountSets
  <2>10. Numeric(tally[k], B) /\ Numeric(new[k], B) /\ B \in SUBSET BucketIds /\ IsFiniteSet(B)
    <3>1. B \in SUBSET BucketIds /\ IsFiniteSet(B)
      BY CountSets, FS_Subset
    <3> HIDE DEF B
    <3> QED
      BY <1>6, <3>1 DEF Numeric, Tally
  <2>11. Total(tally[k], B) \in Int
    BY <2>10, TotalOfPart, CountSets
  <2> HIDE DEF B, W
  <2>12. CASE in /\ KindOf(class) = k
    <3>1. Waiting(type, start, end, k)' = W \ {r} /\ r \in W
      BY <2>6, <2>8, <2>9, <2>12
    <3>2. Cardinality(W \ {r}) = Cardinality(W) - 1
      BY <2>9, <3>1, FS_RemoveElement
    <3>3. \A b \in B : b # id => new[k][b] = tally[k][b]
      BY <1>7, <2>10
    <3>4. Total(new[k], B) = Total(tally[k], B) + (new[k][id] - tally[k][id])
      <4> DEFINE f == tally[k]
                 g == new[k]
      <4>1. Numeric(f, B) /\ Numeric(g, B) /\ IsFiniteSet(B) /\ id \in B
            /\ \A b \in B : b # id => g[b] = f[b]
        BY <2>4, <2>10, <2>12, <3>3
      <4> HIDE DEF f, g
      <4>2. Total(g, B) = Total(f, B) + (g[id] - f[id])
        BY <4>1, TotalChange
      <4> QED
        BY <4>2 DEF f, g
    <3>5. new[k][id] = tally[k][id] + 1 /\ tally[k][id] \in Nat
      BY <1>2, <1>7, <2>12 DEF one
    <3> QED
      BY <2>1, <2>2, <2>3, <2>9, <2>11, <3>1, <3>2, <3>4, <3>5
  <2>13. CASE ~(in /\ KindOf(class) = k)
    <3>1. Waiting(type, start, end, k)' = W
      BY <2>6, <2>7, <2>8, <2>9, <2>13
    <3>2. \A b \in B : tally[k][b] = new[k][b]
      <4> SUFFICES ASSUME NEW b \in B PROVE tally[k][b] = new[k][b]
        OBVIOUS
      <4>1. CASE b = id
        <5>1. one(k) = 0 /\ tally[k][id] \in Nat
          BY <1>2, <1>7, <2>4, <2>13, <4>1 DEF one
        <5> QED
          BY <1>7, <4>1, <5>1
      <4>2. CASE b # id
        BY <1>7, <2>10, <4>2
      <4> QED
        BY <4>1, <4>2
    <3>3. Total(tally[k], B) = Total(new[k], B)
      <4> DEFINE f == tally[k]
                 g == new[k]
      <4>1. Numeric(f, B) /\ IsFiniteSet(B) /\ \A b \in B : f[b] = g[b]
        BY <2>10, <3>2
      <4> HIDE DEF f, g
      <4>2. Total(f, B) = Total(g, B)
        BY <4>1, TotalSame
      <4> QED
        BY <4>2 DEF f, g
    <3> QED
      BY <2>1, <2>2, <2>3, <3>1, <3>3
  <2> QED
    BY <2>12, <2>13
<1> QED
  BY <1>6, <1>10, <1>11, <1>12, <1>13 DEF CountInv

LEMMA PutBucketStep ==
  ASSUME NEW tally \in Tally, CountInv(tally), NEW r \in Recorders, PutBucket(r)
  PROVE  \E new \in Tally : CountInv(new)'
<1>1. /\ task[r].step = "put" /\ NextType(r) /\ UNCHANGED <<store, index, recorded>>
      /\ buckets' = [buckets EXCEPT ![task[r].id] = task[r].copy]
  BY DEF PutBucket
<1>2. task[r] \in Task /\ AtHand(r, tally)
  BY <1>1, ThreadFacts
<1>3. task[r].copy \in Bucket
  BY <1>2 DEF Task
<1>4. /\ task[r].copy.type = TypeOf(r) /\ task[r].copy.start = StartOf(r) /\ store # "sql"
      /\ task[r].copy.total = task[r].copy.real + task[r].copy.bot
      /\ \A k \in CountKinds : task[r].copy[k] <=
           tally[k][task[r].id] + (IF KindOf(task[r].class) = k THEN 1 ELSE 0)
  BY <1>1, <1>2 DEF AtHand
<1> QED
  BY <1>1, <1>3, <1>4, CountingStep

LEMMA IncrementSqlStep ==
  ASSUME NEW tally \in Tally, CountInv(tally), NEW r \in Recorders, IncrementSql(r)
  PROVE  \E new \in Tally : CountInv(new)'
<1> DEFINE old == buckets[task[r].id]
           val == Counted(old, task[r].class)
<1>1. /\ task[r].step = "add" /\ NextType(r) /\ UNCHANGED <<store, index, recorded>> /\ store = "sql"
      /\ CountTypeOK /\ StoredInv(tally)
  BY DEF IncrementSql, CountInv
<1>2. task[r] \in Task /\ AtHand(r, tally)
  BY <1>1, ThreadFacts
<1>3. /\ task[r].id \in BucketIds /\ task[r].class \in Classes
      /\ old \in Bucket /\ old.type = TypeOf(r) /\ old.start = StartOf(r)
      /\ old.total = old.real + old.bot /\ \A k \in CountKinds : old[k] = tally[k][task[r].id]
  BY <1>1, <1>2, AggregateAssumption DEF AtHand, Task, BucketIds, CountTypeOK, StoredInv
<1>4. buckets' = [buckets EXCEPT ![task[r].id] = val]
  BY DEF IncrementSql
<1> HIDE DEF old
<1>5. /\ val \in Bucket /\ val.type = TypeOf(r) /\ val.start = StartOf(r)
      /\ val.total = val.real + val.bot
      /\ \A k \in CountKinds : val[k] = old[k] + (IF KindOf(task[r].class) = k THEN 1 ELSE 0)
  BY <1>3, CountedFacts
<1> HIDE DEF val
<1>6. \A k \in CountKinds :
        /\ val[k] = tally[k][task[r].id] + (IF KindOf(task[r].class) = k THEN 1 ELSE 0)
        /\ val[k] <= tally[k][task[r].id] + (IF KindOf(task[r].class) = k THEN 1 ELSE 0)
  <2> SUFFICES ASSUME NEW k \in CountKinds
               PROVE  /\ val[k] = tally[k][task[r].id] + (IF KindOf(task[r].class) = k THEN 1 ELSE 0)
                      /\ val[k] <= tally[k][task[r].id] + (IF KindOf(task[r].class) = k THEN 1 ELSE 0)
    OBVIOUS
  <2>1. val[k] \in Nat
    BY <1>5 DEF Bucket, CountKinds
  <2> QED
    BY <1>3, <1>5, <2>1
<1> QED
  BY <1>1, <1>4, <1>5, <1>6, CountingStep

LEMMA CountInitially ==
  ASSUME CountInit
  PROVE  \E tally \in Tally : CountInv(tally)
<1> DEFINE tally == [k \in CountKinds |-> [b \in BucketIds |-> 0]]
<1>1. tally \in Tally /\ \A k \in CountKinds, b \in BucketIds : tally[k][b] = 0
  BY DEF Tally
<1>2. CountTypeOK
  BY IdleTask, AggregateAssumption DEF CountInit, CountTypeOK, Minutes
<1> HIDE DEF tally
<1>3. StoredInv(tally)
  <2>1. \A b \in BucketIds : /\ buckets[b].type = "none" /\ buckets[b].total = 0
                             /\ buckets[b].real = 0 /\ buckets[b].bot = 0
    BY DEF CountInit, NoBucket
  <2>2. \A t \in BucketTypes, m \in Minutes : index[t][m] = 0
    BY DEF CountInit
  <2> QED
    BY <1>1, <2>1, <2>2 DEF StoredInv, CountKinds
<1>4. \A r \in Recorders : AtHand(r, tally)
  BY DEF CountInit, NoTask, AtHand
<1>5. Balanced(tally)
  <2> SUFFICES ASSUME NEW type, NEW start, NEW end, WholeRange(type, start, end), NEW k \in CountKinds
               PROVE  Begun(start, end, ClassesOf(k)) =
                        Total(tally[k], BucketsIn(type, start, end))
                        + Cardinality(Waiting(type, start, end, k))
    BY DEF Balanced
  <2>1. Waiting(type, start, end, k) = {}
    BY DEF Waiting, CountInit, NoTask
  <2>2. Cardinality(Waiting(type, start, end, k)) = 0
    BY <2>1, FS_EmptySet
  <2>3. Total(tally[k], BucketsIn(type, start, end)) = 0
    <3> DEFINE B == BucketsIn(type, start, end)
    <3>1. IsFiniteSet(B) /\ \A b \in B : tally[k][b] = 0
      BY <1>1, CountSets, FS_Subset
    <3> HIDE DEF B
    <3> QED
      BY <3>1, TotalZero DEF B
  <2>4. Begun(start, end, ClassesOf(k)) = 0
    <3> DEFINE f == [m \in Minutes |-> AddUp(recorded[m], ClassesOf(k))]
               mins == MinutesIn(start, end)
    <3>1. /\ Recorded /\ IsFiniteSet(mins) /\ mins \in SUBSET Minutes
          /\ Begun(start, end, ClassesOf(k)) = Total(f, mins)
      BY <1>2, BegunSums, ClassSets DEF CountTypeOK, Recorded
    <3>2. \A m \in Minutes : f[m] = 0
      <4> SUFFICES ASSUME NEW m \in Minutes PROVE AddUp(recorded[m], ClassesOf(k)) = 0
        OBVIOUS
      <4>1. IsFiniteSet(ClassesOf(k)) /\ \A c \in ClassesOf(k) : recorded[m][c] = 0
        BY ClassSets DEF CountInit
      <4> QED
        BY <4>1, TotalZero, AddUpTotal
    <3> HIDE DEF f, mins
    <3>3. Total(f, mins) = 0
      BY <3>1, <3>2, TotalZero
    <3> QED
      BY <3>1, <3>3
  <2> QED
    BY <2>2, <2>3, <2>4
<1> QED
  BY <1>1, <1>2, <1>3, <1>4, <1>5 DEF CountInv

LEMMA CountQuiet ==
  ASSUME NEW tally \in Tally, CountInv(tally), UNCHANGED countVars
  PROVE  CountInv(tally)'
<1>1. UNCHANGED <<store, buckets, index, task, recorded>>
  BY DEF countVars
<1>2. CountTypeOK'
  BY <1>1 DEF CountInv, CountTypeOK, Bucket, Task, Minutes
<1>3. StoredInv(tally)'
  BY <1>1 DEF CountInv, StoredInv
<1>4. \A r \in Recorders : AtHand(r, tally)'
  BY <1>1 DEF CountInv, AtHand, TypeOf, StartOf, BucketStart
<1>5. Balanced(tally)'
  BY <1>1, BalancedStays DEF CountInv
<1> QED
  BY <1>2, <1>3, <1>4, <1>5 DEF CountInv

LEMMA CountNextStep ==
  ASSUME BucketTypes # {}, NEW tally \in Tally, CountInv(tally), [CountNext]_countVars
  PROVE  \E new \in Tally : CountInv(new)'
<1>1. CASE UNCHANGED countVars
  BY <1>1, CountQuiet
<1>2. ASSUME NEW r \in Recorders, Record(r) PROVE \E new \in Tally : CountInv(new)'
  BY <1>2, RecordStep
<1>3. ASSUME NEW r \in Recorders, GetMemory(r) \/ GetSql(r) PROVE \E new \in Tally : CountInv(new)'
  BY <1>3, GetStep
<1>4. ASSUME NEW r \in Recorders, CreateBucket(r) PROVE \E new \in Tally : CountInv(new)'
  BY <1>4, CreateBucketStep
<1>5. ASSUME NEW r \in Recorders, EnterIndex(r) PROVE \E new \in Tally : CountInv(new)'
  BY <1>5, EnterIndexStep
<1>6. ASSUME NEW r \in Recorders, ReadBucket(r) PROVE \E new \in Tally : CountInv(new)'
  BY <1>6, ReadBucketStep
<1>7. ASSUME NEW r \in Recorders, PutBucket(r) PROVE \E new \in Tally : CountInv(new)'
  BY <1>7, PutBucketStep
<1>8. ASSUME NEW r \in Recorders, IncrementSql(r) PROVE \E new \in Tally : CountInv(new)'
  BY <1>8, IncrementSqlStep
<1> QED
  BY <1>1, <1>2, <1>3, <1>4, <1>5, <1>6, <1>7, <1>8 DEF CountNext

\* What is stored never exceeds what was begun; the tallies are the bound between them.
LEMMA CountsAgree ==
  ASSUME NEW tally \in Tally, CountInv(tally)
  PROVE  TotalsHonest
<1> SUFFICES ASSUME NEW type, NEW start, NEW end, WholeRange(type, start, end)
             PROVE  LET real == Totals(type, start, end, "real")
                        bot == Totals(type, start, end, "bot") IN
                    /\ real <= Begun(start, end, {"real", "unknown"})
                    /\ bot <= Begun(start, end, {"bot"})
                    /\ Totals(type, start, end, "total") = real + bot
                    /\ store = "sql" /\ (\A r \in Recorders : task[r].step = "idle") =>
                         real + bot = Begun(start, end, Classes)
  BY DEF TotalsHonest, WholeRange
<1> DEFINE B == BucketsIn(type, start, end)
           stored(field) == [b \in BucketIds |-> buckets[b][field]]
<1>t. CountTypeOK /\ StoredInv(tally) /\ Balanced(tally) /\ \A r \in Recorders : AtHand(r, tally)
  BY DEF CountInv
<1>1. IsFiniteSet(B) /\ B \in SUBSET BucketIds
  BY CountSets, FS_Subset
<1>2. \A field : Totals(type, start, end, field) = Total(stored(field), B)
  BY AddUpTotal DEF Totals, BucketsIn
<1>3. ASSUME NEW k \in CountKinds
      PROVE  /\ Numeric(stored(k), B) /\ Numeric(tally[k], B)
             /\ \A b \in B : stored(k)[b] <= tally[k][b]
             /\ store = "sql" => \A b \in B : stored(k)[b] = tally[k][b]
             /\ \A b \in B : stored(k)[b] \in Nat
  <2>1. \A b \in BucketIds : buckets[b][k] \in Nat /\ tally[k][b] \in Nat /\ buckets[b][k] <= tally[k][b]
                             /\ (store = "sql" => buckets[b][k] = tally[k][b])
    BY <1>t DEF CountTypeOK, Bucket, CountKinds, Tally, StoredInv
  <2> HIDE DEF B
  <2> QED
    BY <1>1, <2>1 DEF Numeric
<1>4. \A b \in B : stored("total")[b] = stored("real")[b] + stored("bot")[b]
  BY <1>1, <1>t DEF StoredInv
<1>5. Recorded
  BY <1>t DEF CountTypeOK, Recorded
<1>6. ASSUME NEW k \in CountKinds
      PROVE  /\ Totals(type, start, end, k) \in Nat /\ Begun(start, end, ClassesOf(k)) \in Nat
             /\ Totals(type, start, end, k) <= Begun(start, end, ClassesOf(k))
             /\ store = "sql" /\ (\A r \in Recorders : task[r].step = "idle") =>
                  Totals(type, start, end, k) = Begun(start, end, ClassesOf(k))
  <2> DEFINE f == stored(k)
             g == tally[k]
             n == Cardinality(Waiting(type, start, end, k))
             G == Begun(start, end, ClassesOf(k))
  <2>1. /\ Numeric(f, B) /\ Numeric(g, B) /\ \A b \in B : f[b] <= g[b]
        /\ store = "sql" => \A b \in B : f[b] = g[b]
        /\ \A b \in B : f[b] \in Nat
    BY <1>3
  <2>2. Totals(type, start, end, k) = Total(f, B)
    BY <1>2
  <2>3. G = Total(g, B) + n /\ n \in Nat
    BY <1>t, CountSets DEF Balanced
  <2>4. G \in Nat
    BY <1>5, BegunSums, ClassSets
  <2>5. (\A r \in Recorders : task[r].step = "idle") => n = 0
    <3> SUFFICES ASSUME \A r \in Recorders : task[r].step = "idle" PROVE n = 0
      OBVIOUS
    <3>1. Waiting(type, start, end, k) = {}
      BY <1>t DEF Waiting, AtHand
    <3> QED
      BY <3>1, FS_EmptySet
  <2> HIDE DEF f, g, B, n, G
  <2>6. Total(f, B) <= Total(g, B) /\ Total(f, B) \in Nat /\ Total(g, B) \in Int
    BY <1>1, <2>1, TotalGrows, TotalNat, TotalOfPart
  <2>7. store = "sql" => Total(f, B) = Total(g, B)
    BY <1>1, <2>1, TotalSame
  <2> QED
    BY <2>2, <2>3, <2>4, <2>5, <2>6, <2>7 DEF G
<1>7. Totals(type, start, end, "total") =
        Totals(type, start, end, "real") + Totals(type, start, end, "bot")
  <2> DEFINE f == stored("real")
             g == stored("bot")
             h == stored("total")
  <2>1. Numeric(f, B) /\ Numeric(g, B) /\ \A b \in B : h[b] = f[b] + g[b]
    BY <1>3, <1>4 DEF CountKinds
  <2>2. /\ Totals(type, start, end, "total") = Total(h, B) /\ Totals(type, start, end, "real") = Total(f, B)
        /\ Totals(type, start, end, "bot") = Total(g, B)
    BY <1>2
  <2> HIDE DEF f, g, h, B
  <2>3. Total(h, B) = Total(f, B) + Total(g, B)
    BY <1>1, <2>1, TotalPlus
  <2> QED
    BY <2>2, <2>3
<1>8. /\ Begun(start, end, Classes) = Begun(start, end, ClassesOf("real")) + Begun(start, end, ClassesOf("bot"))
      /\ ClassesOf("real") = {"real", "unknown"} /\ ClassesOf("bot") = {"bot"}
      /\ "real" \in CountKinds /\ "bot" \in CountKinds
  BY <1>5, BegunParts DEF ClassesOf, CountKinds
<1> QED
  BY <1>6, <1>7, <1>8

\* For any finite set of threads, any bucket types of any width, either repository and any
\* bounds: the totals of whole buckets never exceed the events recorded, and over the table
\* they are exact whenever no event is being counted.
THEOREM CountsTheorem == CountSpec => [](TotalsHonest /\ (BucketTypes # {} => CountTypeOK))
<1>1. CountInit => CountsInv
  BY CountInitially DEF CountsInv
<1>2. CountsInv /\ [CountNext]_countVars => CountsInv'
  <2> SUFFICES ASSUME CountsInv, [CountNext]_countVars, BucketTypes # {}
               PROVE  \E new \in Tally : CountInv(new)'
    BY DEF CountsInv, Tally, CountKinds, BucketIds
  <2>1. PICK tally \in Tally : CountInv(tally)
    BY DEF CountsInv
  <2> QED
    BY <2>1, CountNextStep
<1>3. CountsInv => TotalsHonest /\ (BucketTypes # {} => CountTypeOK)
  <2>1. CASE BucketTypes = {}
    BY <2>1 DEF TotalsHonest
  <2>2. CASE BucketTypes # {}
    BY <2>2, CountsAgree DEF CountsInv, CountInv
  <2> QED
    BY <2>1, <2>2
<1> QED
  BY <1>1, <1>2, <1>3, PTL DEF CountSpec

-----------------------------------------------------------------------------
(***************************************************************************)
(* RichText: documents of any nodes and any size, and any link limit.      *)
(***************************************************************************)
TextNode == [id: Nat, depth: Nat, type: Names, attrs: SUBSET Names, src: Urls,
             marks: SUBSET Mark]

\* What every request holds, and what the sanitizer makes of it.
Document(d) ==
  /\ d \in SUBSET TextNode /\ IsFiniteSet(d)
  /\ \A n \in d : IsFiniteSet(n.marks) /\ (n.type = "image" /\ n.src = "unsafe" => "src" \in n.attrs)

LEMMA InDocument ==
  ASSUME NEW d, Document(d), NEW n \in d
  PROVE  /\ n \in TextNode /\ n.id \in Nat /\ n.depth \in Nat /\ n.attrs \in SUBSET Names
         /\ \A m \in n.marks : m \in Mark /\ m.id \in Nat /\ m.attrs \in SUBSET Names
BY DEF Document, TextNode, Mark

\* The place of a link: its node and its mark.
LEMMA LinkPlaces ==
  ASSUME NEW d
  PROVE  \A p : p \in Links(d) <=>
           \E n \in d : \E m \in n.marks : m.type = "link" /\ p = <<n.id, m.id>>
BY DEF Links, LinksOf

LEMMA LinksFinite ==
  ASSUME NEW d, Document(d)
  PROVE  IsFiniteSet(Links(d)) /\ Links(d) \in SUBSET (Nat \X Nat)
<1>1. Links(d) \in SUBSET (Nat \X Nat)
  <2> SUFFICES ASSUME NEW p \in Links(d) PROVE p \in Nat \X Nat
    OBVIOUS
  <2>1. PICK n \in d : \E m \in n.marks : m.type = "link" /\ p = <<n.id, m.id>>
    BY LinkPlaces
  <2> QED
    BY <2>1, InDocument
<1>2. ASSUME NEW n \in d PROVE IsFiniteSet(LinksOf(n))
  <2> DEFINE x == {m \in n.marks : m.type = "link"}
             f == [m \in x |-> <<n.id, m.id>>]
  <2>1. IsFiniteSet(x)
    BY FS_Subset DEF Document
  <2>2. LinksOf(n) = {f[m] : m \in x}
    BY DEF LinksOf
  <2> HIDE DEF x, f
  <2> QED
    BY <2>1, <2>2, FiniteImage
<1>3. IsFiniteSet({LinksOf(n) : n \in d})
  <2> DEFINE f == [n \in d |-> LinksOf(n)]
  <2>1. {LinksOf(n) : n \in d} = {f[n] : n \in d}
    OBVIOUS
  <2>2. IsFiniteSet(d)
    BY DEF Document
  <2> HIDE DEF f
  <2> QED
    BY <2>1, <2>2, FiniteImage, SMTT(30)
<1>4. IsFiniteSet(Links(d))
  BY <1>2, <1>3, FS_UNION DEF Links
<1> QED
  BY <1>1, <1>4

\* Of finitely many links one is the last of the document.
LEMMA LastLink ==
  ASSUME NEW S \in SUBSET (Nat \X Nat), IsFiniteSet(S), S # {}
  PROVE  \E p \in S : \A q \in S : Before(q, p)
<1> DEFINE P == {T \in SUBSET S : T = {} \/ \E p \in T : \A q \in T : Before(q, p)}
<1>1. {} \in P
  OBVIOUS
<1>2. ASSUME NEW T \in P, NEW x \in S PROVE T \cup {x} \in P
  <2>0. T \in SUBSET S /\ (T = {} \/ \E p \in T : \A q \in T : Before(q, p))
    OBVIOUS
  <2> SUFFICES \E p \in T \cup {x} : \A q \in T \cup {x} : Before(q, p)
    BY <2>0
  <2>1. /\ \A q \in S : Before(q, q)
        /\ \A q, p \in S : Before(q, p) \/ Before(p, q)
        /\ \A q, p, o \in S : Before(q, p) /\ Before(p, o) => Before(q, o)
    BY DEF Before
  <2>2. CASE T = {}
    BY <2>1, <2>2
  <2>3. CASE \E p \in T : \A q \in T : Before(q, p)
    <3>1. PICK p \in T : \A q \in T : Before(q, p)
      BY <2>3
    <3>2. CASE Before(x, p)
      BY <3>1, <3>2
    <3>3. CASE Before(p, x)
      BY <2>0, <2>1, <3>1, <3>3
    <3> QED
      BY <2>0, <2>1, <3>1, <3>2, <3>3
  <2> QED
    BY <2>0, <2>2, <2>3
<1> HIDE DEF P
<1>3. S \in P
  BY <1>1, <1>2, AllFiniteSets
<1> QED
  BY <1>3 DEF P

-----------------------------------------------------------------------------
(* What is kept. *)

LEMMA AboveTransitive ==
  ASSUME NEW d, Document(d), NEW a \in d, NEW b \in d, NEW n \in d, Above(d, b, a), Above(d, a, n)
  PROVE  Above(d, b, n)
<1>1. /\ b.id < a.id /\ \A k \in d : b.id < k.id /\ k.id <= a.id => k.depth > b.depth
      /\ a.id < n.id /\ \A k \in d : a.id < k.id /\ k.id <= n.id => k.depth > a.depth
  BY DEF Above
<1>2. a.id \in Nat /\ b.id \in Nat /\ n.id \in Nat /\ a.depth \in Nat /\ b.depth \in Nat
  BY InDocument
<1>3. a.depth > b.depth
  BY <1>1, <1>2
<1>4. ASSUME NEW k \in d, b.id < k.id, k.id <= n.id PROVE k.depth > b.depth
  <2>1. k.id \in Nat /\ k.depth \in Nat
    BY InDocument
  <2>2. k.id <= a.id \/ a.id < k.id
    BY <1>2, <2>1
  <2> QED
    BY <1>1, <1>2, <1>3, <1>4, <2>1, <2>2
<1> QED
  BY <1>1, <1>2, <1>4 DEF Above

\* With a node everything above it is kept.
LEMMA KeptAbove ==
  ASSUME NEW d, Document(d), NEW n \in Kept(d), NEW a \in d, Above(d, a, n)
  PROVE  a \in Kept(d)
<1>1. n \in d /\ \A b \in d : Stripped(b) => b # n /\ ~Above(d, b, n)
  BY DEF Kept
<1>2. ASSUME NEW b \in d, Stripped(b) PROVE b # a /\ ~Above(d, b, a)
  BY <1>1, <1>2, AboveTransitive
<1> QED
  BY <1>2 DEF Kept

LEMMA KeptFacts ==
  ASSUME NEW d
  PROVE  /\ Kept(d) \in SUBSET d
         /\ \A n \in Kept(d) : n.type \in AllowedNodes /\ ~StrippedUnsafe(n)
BY DEF Kept, Stripped

\* A mark, and a node, as the sanitizer rebuilds them.
LEMMA CleanMarkFacts ==
  ASSUME NEW m \in Mark
  PROVE  LET c == CleanMark(m) IN
         /\ c \in Mark /\ c.id = m.id /\ c.type = m.type /\ c.href = m.href
         /\ c.attrs = IF m.type = "link" THEN (m.attrs \intersect {"title"}) \union {"href", "rel"} ELSE {}
         /\ CleanMark(c) = c
<1> DEFINE c == CleanMark(m)
           attrs == IF m.type = "link" THEN (m.attrs \intersect {"title"}) \union {"href", "rel"} ELSE {}
<1>1. /\ c \in Mark /\ c.id = m.id /\ c.type = m.type /\ c.href = m.href
      /\ c.attrs = IF m.type = "link" THEN (m.attrs \intersect {"title"}) \union {"href", "rel"} ELSE {}
  <2>0. "href" \in Names /\ "rel" \in Names
    BY TextAssumption
  <2>1. attrs \in SUBSET Names
    <3>1. m.attrs \in SUBSET Names
      BY DEF Mark
    <3> QED
      BY <2>0, <3>1
  <2>2. c = [m EXCEPT !.attrs = attrs]
    BY DEF CleanMark
  <2>3. c.attrs = attrs /\ c \in Mark /\ c.id = m.id /\ c.type = m.type /\ c.href = m.href
    <3> HIDE DEF attrs, c
    <3> QED
      BY <2>1, <2>2 DEF Mark
  <2> QED
    BY <2>3
<1> HIDE DEF c, attrs
<1>2. CASE m.type = "link"
  <2>1. CleanMark(c) = [c EXCEPT !.attrs = (c.attrs \intersect {"title"}) \union {"href", "rel"}]
    BY <1>1, <1>2 DEF CleanMark, Mark
  <2>2. (c.attrs \intersect {"title"}) \union {"href", "rel"} = c.attrs
    BY <1>1, <1>2
  <2>3. [c EXCEPT !.attrs = c.attrs] = c
    BY <1>1 DEF Mark
  <2> QED
    BY <1>1, <2>1, <2>2, <2>3 DEF c
<1>3. CASE m.type # "link"
  <2>1. CleanMark(c) = [c EXCEPT !.attrs = {}]
    BY <1>1, <1>3 DEF CleanMark
  <2>2. [c EXCEPT !.attrs = c.attrs] = c
    BY <1>1 DEF Mark
  <2> QED
    BY <1>1, <1>3, <2>1, <2>2 DEF c
<1> QED
  BY <1>2, <1>3

KeptMarks(d, n) == {x \in n.marks : KeepsMark(d, n, x)}

LEMMA CleanNodeFacts ==
  ASSUME NEW d, Document(d), NEW n \in d
  PROVE  LET c == CleanNode(d, n) IN
         /\ c \in TextNode /\ c.id = n.id /\ c.depth = n.depth /\ c.type = n.type /\ c.src = n.src
         /\ c.attrs = n.attrs \intersect (AllowedAttrs(n.type) \union {"level"})
         /\ c.marks = {CleanMark(m) : m \in KeptMarks(d, n)}
         /\ IsFiniteSet(c.marks)
<1> DEFINE marks == {CleanMark(m) : m \in KeptMarks(d, n)}
           attrs == n.attrs \intersect (AllowedAttrs(n.type) \union {"level"})
<1>1. n \in TextNode /\ n.attrs \in SUBSET Names
  BY InDocument
<1>2. attrs \in SUBSET Names
  BY <1>1
<1>3. marks \in SUBSET Mark
  BY InDocument, CleanMarkFacts DEF KeptMarks
<1>4. IsFiniteSet(marks)
  <2> DEFINE f == [m \in KeptMarks(d, n) |-> CleanMark(m)]
  <2>1. IsFiniteSet(KeptMarks(d, n))
    BY FS_Subset DEF KeptMarks, Document
  <2>2. marks = {f[m] : m \in KeptMarks(d, n)}
    OBVIOUS
  <2> HIDE DEF f, marks
  <2> QED
    BY <2>1, <2>2, FiniteImage
<1>5. CleanNode(d, n) = [n EXCEPT !.attrs = attrs, !.marks = marks]
  BY <1>1 DEF CleanNode, TextNode, KeptMarks
<1> HIDE DEF attrs, marks
<1>6. LET c == [n EXCEPT !.attrs = attrs, !.marks = marks] IN
      /\ c \in TextNode /\ c.id = n.id /\ c.depth = n.depth /\ c.type = n.type /\ c.src = n.src
      /\ c.attrs = attrs /\ c.marks = marks
  BY <1>1, <1>2, <1>3 DEF TextNode
<1> QED
  BY <1>4, <1>5, <1>6 DEF attrs, marks

\* What is left of a document, when anything is.
Left(d) == {CleanNode(d, n) : n \in Kept(d)}

LEMMA LeftDocument ==
  ASSUME NEW d, Document(d)
  PROVE  Document(Left(d))
<1>1. Kept(d) \in SUBSET d /\ IsFiniteSet(Kept(d))
  BY KeptFacts, FS_Subset DEF Document
<1>2. IsFiniteSet(Left(d))
  <2> DEFINE f == [n \in Kept(d) |-> CleanNode(d, n)]
  <2>1. Left(d) = {f[n] : n \in Kept(d)}
    BY DEF Left
  <2> HIDE DEF f
  <2> QED
    BY <1>1, <2>1, FiniteImage
<1>3. ASSUME NEW n \in Kept(d)
      PROVE  LET c == CleanNode(d, n) IN
             c \in TextNode /\ IsFiniteSet(c.marks) /\ ~(c.type = "image" /\ c.src = "unsafe")
  <2>1. n \in d /\ n.type \in AllowedNodes /\ ~StrippedUnsafe(n)
    BY KeptFacts
  <2>2. ~(n.type = "image" /\ n.src = "unsafe")
    BY <2>1 DEF StrippedUnsafe, Document
  <2> QED
    BY <2>1, <2>2, CleanNodeFacts
<1> QED
  BY <1>2, <1>3 DEF Document, Left

\* Nothing of it is stripped again.
LEMMA LeftKept ==
  ASSUME NEW d, Document(d)
  PROVE  Kept(Left(d)) = Left(d)
<1>1. ASSUME NEW n \in Kept(d) PROVE ~Stripped(CleanNode(d, n))
  <2>1. n \in d /\ n.type \in AllowedNodes /\ ~StrippedUnsafe(n)
    BY KeptFacts
  <2>2. ~(n.type = "image" /\ n.src = "unsafe")
    BY <2>1 DEF StrippedUnsafe, Document
  <2> QED
    BY <2>1, <2>2, CleanNodeFacts DEF Stripped, StrippedUnsafe
<1> QED
  BY <1>1 DEF Kept, Left

\* Its links are some of those kept.
LEMMA LeftLinks ==
  ASSUME NEW d, Document(d)
  PROVE  /\ Links(Left(d)) \in SUBSET Links(Kept(d)) /\ Document(Kept(d))
         /\ \A p \in Links(Left(d)) : \E n \in Kept(d) : \E m \in n.marks :
              m.type = "link" /\ KeepsMark(d, n, m) /\ p = <<n.id, m.id>>
<1>1. ASSUME NEW p \in Links(Left(d))
      PROVE  \E n \in Kept(d) : \E m \in n.marks :
               m.type = "link" /\ KeepsMark(d, n, m) /\ p = <<n.id, m.id>>
  <2>1. PICK c \in Left(d) : \E x \in c.marks : x.type = "link" /\ p = <<c.id, x.id>>
    BY LinkPlaces
  <2>2. PICK n \in Kept(d) : c = CleanNode(d, n)
    BY DEF Left
  <2>3. n \in d /\ c.id = n.id /\ c.marks = {CleanMark(m) : m \in KeptMarks(d, n)}
    BY <2>2, KeptFacts, CleanNodeFacts
  <2>4. PICK x \in c.marks : x.type = "link" /\ p = <<c.id, x.id>>
    BY <2>1
  <2>5. PICK m \in n.marks : KeepsMark(d, n, m) /\ x = CleanMark(m)
    BY <2>3, <2>4 DEF KeptMarks
  <2>6. x.id = m.id /\ x.type = m.type
    BY <2>3, <2>5, InDocument, CleanMarkFacts
  <2> QED
    BY <2>3, <2>4, <2>5, <2>6
<1>2. Links(Left(d)) \in SUBSET Links(Kept(d))
  BY <1>1, LinkPlaces
<1>3. Document(Kept(d))
  BY KeptFacts, FS_Subset DEF Document
<1> QED
  BY <1>1, <1>2, <1>3

\* The number of a link of what is left is no higher than it was: every mark stays.
LEMMA LeftSettles ==
  ASSUME NEW d, Document(d), NEW n \in Kept(d)
  PROVE  CleanNode(Left(d), CleanNode(d, n)) = CleanNode(d, n)
<1> DEFINE e == Left(d)
           c == CleanNode(d, n)
<1>1. /\ n \in d /\ c \in e /\ Document(e) /\ Kept(e) = e
      /\ c \in TextNode /\ c.id = n.id /\ c.type = n.type
      /\ c.attrs = n.attrs \intersect (AllowedAttrs(n.type) \union {"level"})
      /\ c.marks = {CleanMark(m) : m \in KeptMarks(d, n)}
  BY KeptFacts, CleanNodeFacts, LeftDocument, LeftKept DEF Left
<1>2. \A p \in Links(e) : p \in Links(Kept(d))
  BY LeftLinks
<1>3. ASSUME NEW x \in c.marks PROVE KeepsMark(e, c, x) /\ CleanMark(x) = x
  <2>1. PICK m \in n.marks : KeepsMark(d, n, m) /\ x = CleanMark(m)
    BY <1>1 DEF KeptMarks
  <2>2. x.id = m.id /\ x.type = m.type /\ x.href = m.href /\ CleanMark(x) = x
    BY <1>1, <2>1, InDocument, CleanMarkFacts
  <2>3. ASSUME x.type = "link" PROVE LinkNumber(e, c, x) <= MaxLinks
    <3> DEFINE A == {p \in Links(Kept(d)) : Before(p, <<n.id, m.id>>)}
               B == {p \in Links(e) : Before(p, <<n.id, m.id>>)}
    <3>1. B \in SUBSET A /\ A \in SUBSET Links(Kept(d))
      BY <1>2
    <3>2. IsFiniteSet(Links(Kept(d)))
      BY LeftLinks, LinksFinite
    <3>3. LinkNumber(e, c, x) = Cardinality(B) /\ LinkNumber(d, n, m) = Cardinality(A)
      BY <1>1, <2>2 DEF LinkNumber
    <3>4. LinkNumber(d, n, m) <= MaxLinks
      BY <2>1, <2>2, <2>3 DEF KeepsMark
    <3> HIDE DEF A, B
    <3>5. IsFiniteSet(A) /\ IsFiniteSet(B) /\ Cardinality(B) <= Cardinality(A)
          /\ Cardinality(A) \in Nat /\ Cardinality(B) \in Nat
      BY <3>1, <3>2, FS_Subset, FS_CardinalityType
    <3> QED
      BY <3>3, <3>4, <3>5, TextAssumption
  <2> QED
    BY <2>1, <2>2, <2>3 DEF KeepsMark
<1> HIDE DEF e, c
<1>4. KeptMarks(e, c) = c.marks
  BY <1>3 DEF KeptMarks
<1>5. {CleanMark(x) : x \in KeptMarks(e, c)} = c.marks
  BY <1>3, <1>4
<1>6. c.attrs \intersect (AllowedAttrs(c.type) \union {"level"}) = c.attrs
  BY <1>1
<1>7. CleanNode(e, c) = [c EXCEPT !.attrs = c.attrs \intersect (AllowedAttrs(c.type) \union {"level"}),
                                  !.marks = {CleanMark(x) : x \in KeptMarks(e, c)}]
  BY <1>1 DEF CleanNode, TextNode, KeptMarks
<1>8. [c EXCEPT !.attrs = c.attrs, !.marks = c.marks] = c
  BY <1>1 DEF TextNode
<1> QED
  BY <1>5, <1>6, <1>7, <1>8 DEF e, c

LEMMA EmptyFacts ==
  /\ Document(EmptyDoc) /\ Kept(EmptyDoc) = EmptyDoc /\ Left(EmptyDoc) = EmptyDoc
  /\ Links(EmptyDoc) = {} /\ Errors(EmptyDoc) = {} /\ Render(EmptyDoc) = {}
<1> DEFINE root == [id |-> 1, depth |-> 0, type |-> "doc", attrs |-> {}, src |-> "safe", marks |-> {}]
<1>1. EmptyDoc = {root}
  BY DEF EmptyDoc
<1>2. /\ root \in TextNode /\ root.type = "doc" /\ root.attrs = {} /\ root.src = "safe"
      /\ root.marks = {} /\ root.id = 1 /\ root.depth = 0
  <2>1. "doc" \in Names /\ "safe" \in Urls
    BY TextAssumption DEF Urls
  <2>2. {} \in SUBSET Names /\ {} \in SUBSET Mark
    OBVIOUS
  <2>3. root \in TextNode
    BY <2>1, <2>2 DEF TextNode
  <2> QED
    BY <2>3
<1> HIDE DEF root
<1>3. Document(EmptyDoc)
  BY <1>1, <1>2, FS_Singleton, FS_EmptySet DEF Document
<1>4. ~Stripped(root)
  BY <1>2 DEF Stripped, StrippedUnsafe, AllowedNodes
<1>5. Kept(EmptyDoc) = EmptyDoc
  BY <1>1, <1>4 DEF Kept
<1>6. CleanNode(EmptyDoc, root) = root
  <2>1. {CleanMark(m) : m \in {x \in root.marks : KeepsMark(EmptyDoc, root, x)}} = root.marks
        /\ root.attrs \intersect (AllowedAttrs(root.type) \union {"level"}) = root.attrs
    BY <1>2
  <2>2. [root EXCEPT !.attrs = root.attrs, !.marks = root.marks] = root
    BY <1>2 DEF TextNode
  <2> QED
    BY <1>2, <2>1, <2>2 DEF CleanNode, TextNode
<1>7. Left(EmptyDoc) = EmptyDoc
  BY <1>1, <1>5, <1>6 DEF Left
<1>8. Links(EmptyDoc) = {}
  BY <1>1, <1>2, LinkPlaces
<1>9. Errors(EmptyDoc) = {}
  <2>1. CountLinks(EmptyDoc) = 0
    BY <1>8, FS_EmptySet DEF CountLinks
  <2>2. NodeErrors(root) = {}
    BY <1>2 DEF NodeErrors, AllowedNodes
  <2>3. SchemaErrors(EmptyDoc) = {}
    BY <1>1, <1>2, <2>2 DEF SchemaErrors
  <2> QED
    BY <2>1, <2>3, TextAssumption DEF Errors
<1>10. Render(EmptyDoc) = {}
  <2>1. Pieces(EmptyDoc, root) = {}
    BY <1>2 DEF Pieces, Elements, AllowedNodes
  <2> QED
    BY <1>1, <2>1 DEF Render
<1> QED
  BY <1>3, <1>5, <1>7, <1>8, <1>9, <1>10

LEMMA Sanitized ==
  ASSUME NEW d, Document(d)
  PROVE  /\ Sanitize(d) = IF Kept(d) = {} THEN EmptyDoc ELSE Left(d)
         /\ Kept(d) # {} => Left(d) # {}
BY DEF Sanitize, Left

LEMMA SanitizedSettles ==
  ASSUME NEW d, Document(d)
  PROVE  Sanitize(Sanitize(d)) = Sanitize(d)
<1>1. CASE Kept(d) = {}
  BY <1>1, EmptyFacts, Sanitized
<1>2. CASE Kept(d) # {}
  <2> DEFINE e == Left(d)
  <2>1. Sanitize(d) = e /\ Document(e) /\ Kept(e) = e /\ e # {}
    BY <1>2, Sanitized, LeftDocument, LeftKept
  <2>2. Sanitize(e) = Left(e)
    BY <2>1, Sanitized
  <2>3. \A c \in e : CleanNode(e, c) = c
    BY LeftSettles DEF Left
  <2> HIDE DEF e
  <2>4. Left(e) = e
    BY <2>1, <2>3 DEF Left
  <2> QED
    BY <2>1, <2>2, <2>4
<1> QED
  BY <1>1, <1>2

\* The last link of what is left was the highest of those it keeps.
LEMMA LeftWithinLimit ==
  ASSUME NEW d, Document(d)
  PROVE  CountLinks(Left(d)) <= MaxLinks
<1> DEFINE L == Links(Left(d))
           K == Links(Kept(d))
<1>1. /\ L \in SUBSET K /\ IsFiniteSet(K) /\ K \in SUBSET (Nat \X Nat)
      /\ \A p \in L : \E n \in Kept(d) : \E m \in n.marks :
           m.type = "link" /\ KeepsMark(d, n, m) /\ p = <<n.id, m.id>>
  BY LeftLinks, LinksFinite
<1>2. IsFiniteSet(L) /\ L \in SUBSET (Nat \X Nat)
  <2> HIDE DEF L, K
  <2> QED
    BY <1>1, FS_Subset
<1>3. CASE L = {}
  BY <1>3, FS_EmptySet, TextAssumption DEF CountLinks
<1>4. CASE L # {}
  <2>1. PICK p \in L : \A q \in L : Before(q, p)
    <3> HIDE DEF L
    <3> QED
      BY <1>2, <1>4, LastLink
  <2>2. PICK n \in Kept(d) : \E m \in n.marks :
          m.type = "link" /\ KeepsMark(d, n, m) /\ p = <<n.id, m.id>>
    BY <1>1
  <2>3. PICK m \in n.marks : m.type = "link" /\ KeepsMark(d, n, m) /\ p = <<n.id, m.id>>
    BY <2>2
  <2> DEFINE A == {q \in K : Before(q, <<n.id, m.id>>)}
  <2>4. Cardinality(A) <= MaxLinks
    BY <2>3 DEF KeepsMark, LinkNumber
  <2>5. L \in SUBSET A /\ A \in SUBSET K
    BY <1>1, <2>1, <2>3
  <2> HIDE DEF A, L, K
  <2>6. IsFiniteSet(A) /\ Cardinality(L) <= Cardinality(A) /\ Cardinality(A) \in Nat /\ Cardinality(L) \in Nat
    BY <1>1, <1>2, <2>5, FS_Subset, FS_CardinalityType
  <2> QED
    BY <2>4, <2>6, TextAssumption DEF CountLinks, L
<1> QED
  BY <1>3, <1>4

LEMMA LeftErrors ==
  ASSUME NEW d, Document(d)
  PROVE  Errors(Left(d)) \subseteq {<<"attr", "rel">>, <<"attr", "level">>}
<1> DEFINE fine == {<<"attr", "rel">>, <<"attr", "level">>}
<1>1. Errors(Left(d)) = SchemaErrors(Left(d))
  <2>1. CountLinks(Left(d)) \in Nat
    BY LeftDocument, LinksFinite, FS_CardinalityType DEF CountLinks
  <2>2. ~(CountLinks(Left(d)) > MaxLinks)
    BY <2>1, LeftWithinLimit, TextAssumption
  <2> QED
    BY <2>2 DEF Errors
<1>2. ASSUME NEW n \in Kept(d)
      PROVE  NodeErrors(CleanNode(d, n)) \subseteq fine
  <2> DEFINE c == CleanNode(d, n)
  <2>1. /\ c.type = n.type /\ n.type \in AllowedNodes
        /\ c.attrs = n.attrs \intersect (AllowedAttrs(n.type) \union {"level"})
    BY KeptFacts, CleanNodeFacts
  <2> HIDE DEF c
  <2>2. {c.type} \ AllowedNodes = {} /\ c.attrs \ AllowedAttrs(c.type) \subseteq {"level"}
    BY <2>1
  <2>3. NodeErrors(c) = {<<"attr", a>> : a \in c.attrs \ AllowedAttrs(c.type)}
    BY <2>1, <2>2 DEF NodeErrors
  <2> QED
    BY <2>2, <2>3 DEF c
<1>3. ASSUME NEW n \in Kept(d), NEW x \in CleanNode(d, n).marks
      PROVE  MarkErrors(x) \subseteq fine
  <2>1. PICK m \in n.marks : KeepsMark(d, n, m) /\ x = CleanMark(m)
    BY KeptFacts, CleanNodeFacts DEF KeptMarks
  <2>2. /\ x.type = m.type /\ m.type \in AllowedMarks
        /\ x.attrs = IF m.type = "link" THEN (m.attrs \intersect {"title"}) \union {"href", "rel"} ELSE {}
    BY <2>1, KeptFacts, InDocument, CleanMarkFacts DEF KeepsMark
  <2>3. x.attrs \ (IF x.type = "link" THEN {"href", "title"} ELSE {}) \subseteq {"rel"}
    BY <2>2
  <2>4. MarkErrors(x) = {<<"attr", a>> : a \in x.attrs \ (IF x.type = "link" THEN {"href", "title"} ELSE {})}
    BY <2>2 DEF MarkErrors
  <2> QED
    BY <2>3, <2>4
<1>4. SchemaErrors(Left(d)) \subseteq fine
  <2> SUFFICES ASSUME NEW e \in SchemaErrors(Left(d)) PROVE e \in fine
    OBVIOUS
  <2>1. PICK c \in Left(d) : e \in NodeErrors(c) \/ \E x \in c.marks : e \in MarkErrors(x)
    BY DEF SchemaErrors
  <2>2. PICK n \in Kept(d) : c = CleanNode(d, n)
    BY DEF Left
  <2> QED
    BY <1>2, <1>3, <2>1, <2>2
<1> QED
  BY <1>1, <1>4

\* What is above a node in the document is above it in what is left.
LEMMA LeftAbove ==
  ASSUME NEW d, Document(d), NEW n \in Kept(d), NEW a \in d, Above(d, a, n)
  PROVE  /\ CleanNode(d, a) \in Left(d) /\ CleanNode(d, a).type = a.type
         /\ Above(Left(d), CleanNode(d, a), CleanNode(d, n))
<1>1. a \in Kept(d) /\ n \in d
  BY KeptAbove, KeptFacts
<1>2. CleanNode(d, a).id = a.id /\ CleanNode(d, a).depth = a.depth /\ CleanNode(d, a).type = a.type
  BY CleanNodeFacts
<1>3. CleanNode(d, n).id = n.id
  BY <1>1, CleanNodeFacts
<1>4. ASSUME NEW c \in Left(d), a.id < c.id, c.id <= n.id PROVE c.depth > a.depth
  <2>1. PICK k \in Kept(d) : c = CleanNode(d, k)
    BY DEF Left
  <2>2. k \in d /\ c.id = k.id /\ c.depth = k.depth
    BY <2>1, KeptFacts, CleanNodeFacts
  <2> QED
    BY <1>4, <2>2 DEF Above
<1>5. a.id < n.id
  BY DEF Above
<1> QED
  BY <1>1, <1>2, <1>3, <1>4, <1>5 DEF Above, Left

LEMMA LeftShows ==
  ASSUME NEW d, Document(d)
  PROVE  Render(Left(d)) \subseteq Render(d)
<1> SUFFICES ASSUME NEW p \in Render(Left(d)) PROVE p \in Render(d)
  OBVIOUS
<1> DEFINE e == Left(d)
<1>1. PICK c \in e : Shown(e, c) /\ p \in Pieces(e, c)
  BY DEF Render
<1>2. PICK n \in Kept(d) : c = CleanNode(d, n)
  BY DEF Left
<1>3. /\ n \in d /\ c.id = n.id /\ c.type = n.type /\ c.src = n.src
      /\ c.attrs = n.attrs \intersect (AllowedAttrs(n.type) \union {"level"})
      /\ c.marks = {CleanMark(m) : m \in KeptMarks(d, n)}
  BY <1>2, KeptFacts, CleanNodeFacts
<1>4. \A a \in d : Above(d, a, n) => \E b \in e : b.type = a.type /\ Above(e, b, c)
  BY <1>2, LeftAbove
<1>5. Shown(d, n)
  BY <1>1, <1>3, <1>4 DEF Shown
<1>6. Anchors(e, c) \subseteq Anchors(d, n)
  <2> SUFFICES ASSUME NEW q \in Anchors(e, c) PROVE q \in Anchors(d, n)
    OBVIOUS
  <2>1. PICK x \in c.marks : /\ x.type = "link" /\ x.href # "unsafe" /\ q = <<c.id, "a", x.href>>
                            /\ \A b \in e : Above(e, b, c) => b.type # "codeBlock"
    BY DEF Anchors
  <2>2. PICK m \in n.marks : x = CleanMark(m)
    BY <1>3 DEF KeptMarks
  <2>3. x.type = m.type /\ x.href = m.href
    BY <1>3, <2>2, InDocument, CleanMarkFacts
  <2>4. \A a \in d : Above(d, a, n) => a.type # "codeBlock"
    BY <1>4, <2>1
  <2> QED
    BY <1>3, <2>1, <2>3, <2>4 DEF Anchors
<1>7. p \in Pieces(d, n)
  <2> HIDE DEF e
  <2>1. CASE n.type \in Elements
    BY <1>1, <1>3, <2>1 DEF Pieces
  <2>2. CASE n.type \notin Elements /\ n.type = "text"
    BY <1>1, <1>3, <1>6, <2>2 DEF Pieces
  <2>3. CASE n.type \notin Elements /\ n.type # "text" /\ n.type = "image"
    <3>1. ~("src" \in c.attrs /\ c.src = "unsafe") /\ p = <<c.id, "image", c.src>>
      BY <1>1, <1>3, <2>3 DEF Pieces
    <3>2. "src" \in n.attrs => "src" \in c.attrs
      BY <1>3, <2>3 DEF AllowedAttrs
    <3> QED
      BY <1>3, <2>3, <3>1, <3>2 DEF Pieces
  <2>4. CASE n.type \notin Elements /\ n.type # "text" /\ n.type # "image"
    BY <1>1, <1>3, <2>4 DEF Pieces
  <2> QED
    BY <2>1, <2>2, <2>3, <2>4
<1> QED
  BY <1>3, <1>5, <1>7 DEF Render

\* No page shows an unsafe URL, and its pieces are of nodes.
LEMMA PiecesSafe ==
  ASSUME NEW d, Document(d), NEW p \in Render(d)
  PROVE  p[3] # "unsafe" /\ \E n \in d : p[1] = n.id
<1>1. PICK n \in d : p \in Pieces(d, n)
  BY DEF Render
<1>2. CASE n.type \in Elements
  <2>1. p = <<n.id, n.type, "none">>
    BY <1>1, <1>2 DEF Pieces
  <2> QED
    BY <2>1
<1>3. CASE n.type \notin Elements /\ n.type = "text"
  <2>1. CASE p = <<n.id, "text", "none">>
    BY <2>1
  <2>2. CASE p \in Anchors(d, n)
    <3>1. PICK m \in n.marks : m.href # "unsafe" /\ p = <<n.id, "a", m.href>>
      BY <2>2 DEF Anchors
    <3> QED
      BY <3>1
  <2> QED
    BY <1>1, <1>3, <2>1, <2>2 DEF Pieces
<1>4. CASE n.type \notin Elements /\ n.type # "text"
  <2>1. n.type = "image" /\ ~("src" \in n.attrs /\ n.src = "unsafe") /\ p = <<n.id, "image", n.src>>
    BY <1>1, <1>4 DEF Pieces
  <2>2. n.src # "unsafe"
    BY <2>1 DEF Document
  <2> QED
    BY <2>1, <2>2
<1> QED
  BY <1>2, <1>3, <1>4

TextInv ==
  /\ Document(document) /\ document # {} /\ (\A n \in document : n.id \in 1..MaxNodes)
  /\ \/ clean = {} /\ html \subseteq Render(document)
     \/ clean = Sanitize(document) /\ html = Render(clean)

LEMMA TextInvInit ==
  ASSUME TextInit
  PROVE  TextInv
<1>0. PICK k \in 1..MaxNodes : \E s \in [1..k -> Shapes], f \in DepthsOf(k) :
        document = {Node(i, f[i], s[i]) : i \in 1..k} /\ clean = {} /\ html = {}
  BY DEF TextInit
<1>1. PICK s \in [1..k -> Shapes], f \in DepthsOf(k) :
        document = {Node(i, f[i], s[i]) : i \in 1..k} /\ clean = {} /\ html = {}
  BY <1>0
<1>2. k \in Nat /\ 1 \in 1..k /\ 1..k \in SUBSET (1..MaxNodes) /\ 1..k \in SUBSET Nat
  BY TextAssumption
<1>3. ASSUME NEW i \in 1..k
      PROVE  LET n == Node(i, f[i], s[i]) IN
             /\ n \in TextNode /\ n.id = i /\ IsFiniteSet(n.marks)
             /\ n.type = "image" /\ n.src = "unsafe" => "src" \in n.attrs
  <2>1. s[i] \in Shapes /\ f[i] \in Nat
    BY DEF DepthsOf
  <2>2. /\ s[i].type \in Names /\ s[i].attrs \in SUBSET Names /\ s[i].src \in Urls
        /\ s[i].marks \in SUBSET Mark /\ IsFiniteSet(s[i].marks)
        /\ s[i].src = "unsafe" => "src" \in s[i].attrs
    BY <2>1, TextAssumption
  <2> QED
    BY <1>2, <2>1, <2>2 DEF Node, TextNode
<1>4. IsFiniteSet(document)
  <2> DEFINE g == [i \in 1..k |-> Node(i, f[i], s[i])]
  <2>1. document = {g[i] : i \in 1..k} /\ IsFiniteSet(1..k)
    BY <1>1, <1>2, FS_Interval
  <2> HIDE DEF g
  <2> QED
    BY <2>1, FiniteImage
<1> HIDE DEF Node
<1>5. Document(document)
  BY <1>1, <1>3, <1>4 DEF Document
<1>6. document # {} /\ \A n \in document : n.id \in 1..MaxNodes
  BY <1>1, <1>2, <1>3
<1>7. html \subseteq Render(document) /\ clean = {}
  BY <1>1
<1> QED
  BY <1>5, <1>6, <1>7 DEF TextInv

LEMMA TextInvStep ==
  ASSUME TextInv, [TextNext]_textVars
  PROVE  TextInv'
<1>0. /\ document' = document => /\ Document(document)' /\ document' # {}
                                 /\ \A n \in document' : n.id \in 1..MaxNodes
  BY DEF TextInv
<1>1. CASE PreviewRichText
  <2>1. document' = document /\ clean' = {} /\ html' = Render(document)
    BY <1>1 DEF PreviewRichText
  <2>2. Render(document)' = Render(document)
    BY <2>1
  <2> QED
    BY <1>0, <2>1, <2>2 DEF TextInv
<1>2. CASE SanitizeRichText
  <2>1. document' = document /\ clean' = Sanitize(document) /\ html' = Render(clean)'
    BY <1>2 DEF SanitizeRichText
  <2>2. Sanitize(document)' = Sanitize(document)
    BY <2>1
  <2> QED
    BY <1>0, <2>1, <2>2 DEF TextInv
<1>3. CASE UNCHANGED textVars
  <2>1. document' = document /\ clean' = clean /\ html' = html
    BY <1>3 DEF textVars
  <2>2. Render(document)' = Render(document) /\ Sanitize(document)' = Sanitize(document)
        /\ Render(clean)' = Render(clean)
    BY <2>1
  <2> QED
    BY <1>0, <2>1, <2>2 DEF TextInv
<1> QED
  BY <1>1, <1>2, <1>3 DEF TextNext

LEMMA TextSettled ==
  ASSUME TextInv
  PROVE  TextTypeOK /\ SanitizeSettles
<1> DEFINE e == Left(document)
<1>1. Document(document) /\ Document(e)
  BY LeftDocument DEF TextInv
<1>2. html \subseteq Render(document) \/ (clean = Sanitize(document) /\ html = Render(clean))
  BY DEF TextInv
<1>3. Render(Sanitize(document)) \subseteq Render(document)
  BY <1>1, Sanitized, LeftShows, EmptyFacts
<1>4. html \subseteq Render(document)
  BY <1>2, <1>3
<1>5. \A p \in html : p[3] # "unsafe" /\ p[1] \in 1..MaxNodes
  BY <1>1, <1>4, PiecesSafe DEF TextInv
<1>6. ASSUME clean # {}
      PROVE  /\ Sanitize(clean) = clean
             /\ Errors(clean) \subseteq {<<"attr", "rel">>, <<"attr", "level">>}
             /\ Render(clean) \subseteq Render(document)
  <2>1. clean = Sanitize(document)
    BY <1>6 DEF TextInv
  <2>2. Sanitize(clean) = clean
    BY <1>1, <2>1, SanitizedSettles
  <2>3. Errors(clean) \subseteq {<<"attr", "rel">>, <<"attr", "level">>}
    BY <1>1, <2>1, Sanitized, LeftErrors, EmptyFacts
  <2> QED
    BY <1>3, <2>1, <2>2, <2>3
<1>7. \A n \in Left(document) : n.type \in AllowedNodes
  <2> SUFFICES ASSUME NEW n \in Kept(document) PROVE CleanNode(document, n).type \in AllowedNodes
    BY DEF Left
  <2> QED
    BY <1>1, KeptFacts, CleanNodeFacts
<1>8. \A n \in EmptyDoc : n.type \in AllowedNodes
  BY DEF EmptyDoc, AllowedNodes
<1>9. \A n \in clean : n.type \in AllowedNodes
  BY <1>1, <1>7, <1>8, Sanitized DEF TextInv
<1> QED
  BY <1>5, <1>6, <1>9 DEF TextTypeOK, SanitizeSettles, TextInv

\* For documents of any nodes and any size, and any link limit: sanitizing is settled after
\* one pass and within the limit, shows nothing the document would not have shown, and no
\* page shows an unsafe URL.
THEOREM TextTheorem == TextSpec => [](TextTypeOK /\ SanitizeSettles)
<1>1. TextInit => TextInv
  BY TextInvInit
<1>2. TextInv /\ [TextNext]_textVars => TextInv'
  BY TextInvStep
<1>3. TextInv => TextTypeOK /\ SanitizeSettles
  BY TextSettled
<1> QED
  BY <1>1, <1>2, <1>3, PTL DEF TextSpec

-----------------------------------------------------------------------------
(***************************************************************************)
(* Redirects: any paths, any number of requests side by side, any longest  *)
(* chain and any bounds.                                                   *)
(***************************************************************************)
Places == Paths \cup {NoPath}
TableRows == table \in Seq(Redirect)
UniqueIds == \A j, k \in DOMAIN table : table[j].id = table[k].id => j = k
Sources == \A j, k \in DOMAIN table : table[j].source = table[k].source => j = k

\* The step along the redirects.
Onward == [x \in Places |-> IF x = NoPath THEN NoPath ELSE Hop(x)]

LEMMA RowFacts ==
  ASSUME TableRows
  PROVE  /\ Len(table) \in Nat /\ DOMAIN table = 1..Len(table)
         /\ \A k \in DOMAIN table : /\ k \in Nat /\ table[k] \in Redirect /\ table[k].id \in 1..MaxRows
                                    /\ table[k].source \in Paths /\ table[k].target \in Paths
                                    /\ table[k].enabled \in BOOLEAN
<1>1. Len(table) \in Nat /\ DOMAIN table = 1..Len(table) /\ \A k \in 1..Len(table) : table[k] \in Redirect
  BY LenProperties, ElementOfSeq DEF TableRows
<1> QED
  BY <1>1 DEF Redirect

\* The first of some rows is one of them.
LEMMA FirstRow ==
  ASSUME TableRows, NEW found \in SUBSET DOMAIN table, found # {}
  PROVE  Min(found) \in found /\ First(found) = table[Min(found)]
<1>1. found \in SUBSET Nat
  BY RowFacts
<1>2. \E x \in found : \A y \in found : x <= y
  BY <1>1, LeastNumber
<1> QED
  BY <1>2 DEF Min, First

LEMMA HopFacts ==
  ASSUME TableRows, NEW p
  PROVE  /\ Hop(p) \in Places
         /\ BySource(p) = {} => Hop(p) = NoPath
         /\ BySource(p) # {} => \E k \in DOMAIN table :
              /\ k = Min(BySource(p)) /\ First(BySource(p)) = table[k]
              /\ table[k].source = p /\ Hop(p) = table[k].target
<1>1. BySource(p) \in SUBSET DOMAIN table
  BY DEF BySource
<1>2. CASE BySource(p) = {}
  BY <1>2 DEF Hop, Places
<1>3. CASE BySource(p) # {}
  <2>1. Min(BySource(p)) \in BySource(p) /\ First(BySource(p)) = table[Min(BySource(p))]
    BY <1>1, <1>3, FirstRow
  <2>2. Min(BySource(p)) \in DOMAIN table /\ table[Min(BySource(p))].source = p
    BY <2>1 DEF BySource
  <2>3. table[Min(BySource(p))].target \in Paths
    BY <2>2, RowFacts
  <2> QED
    BY <1>3, <2>1, <2>2, <2>3 DEF Hop, Places
<1> QED
  BY <1>2, <1>3

LEMMA OnwardFacts ==
  ASSUME TableRows
  PROVE  /\ Onward \in [Places -> Places] /\ Onward[NoPath] = NoPath
         /\ \A p \in Paths : Onward[p] = Hop(p)
BY HopFacts, RedirectAssumption DEF Onward, Places

\* The trail from a path, step by step.
LEMMA TrailSteps ==
  ASSUME TableRows, NEW p \in Places, NEW k \in Nat
  PROVE  Walk(Trail(p, k), Places, [n \in 1..k |-> Onward], p, k)
<1> DEFINE f == [n \in 1..k |-> Onward]
           good(at) == at = [n \in 0..k |-> IF n = 0 THEN p
                                            ELSE IF at[n - 1] = NoPath THEN NoPath
                                            ELSE Hop(at[n - 1])]
<1>1. Onward \in [Places -> Places] /\ \A x \in Places : Onward[x] = IF x = NoPath THEN NoPath ELSE Hop(x)
  BY OnwardFacts DEF Onward
<1>2. f \in [1..k -> [Places -> Places]]
  BY <1>1
<1>3. PICK h : Walk(h, Places, f, p, k)
  <2> HIDE DEF f
  <2> QED
    BY <1>2, WalkExists
<1>4. h \in [0..k -> Places] /\ h[0] = p /\ \A n \in 1..k : h[n] = Onward[h[n - 1]]
  BY <1>3 DEF Walk
<1>5. good(h)
  <2> DEFINE g == [n \in 0..k |-> IF n = 0 THEN p
                                  ELSE IF h[n - 1] = NoPath THEN NoPath ELSE Hop(h[n - 1])]
  <2>1. ASSUME NEW n \in 0..k PROVE h[n] = g[n]
    <3>1. CASE n = 0
      BY <1>4, <3>1
    <3>2. CASE n # 0
      <4>1. n \in 1..k /\ n - 1 \in 0..k
        BY <3>2
      <4> QED
        BY <1>1, <1>4, <3>2, <4>1
    <3> QED
      BY <3>1, <3>2
  <2>2. DOMAIN g = 0..k /\ g = [n \in 0..k |-> g[n]]
    OBVIOUS
  <2> HIDE DEF g
  <2>3. h = g
    BY <1>4, <2>1, <2>2
  <2> QED
    BY <2>3 DEF g
<1>6. Trail(p, k) = CHOOSE at : good(at)
  BY DEF Trail
<1> DEFINE at == Trail(p, k)
<1>7. good(at)
  <2> HIDE DEF good
  <2> QED
    BY <1>5, <1>6
<1>8. at = [n \in 0..k |-> IF n = 0 THEN p ELSE IF at[n - 1] = NoPath THEN NoPath ELSE Hop(at[n - 1])]
  BY <1>7
<1> HIDE DEF at, f
<1> DEFINE T == {n \in Nat : n > k \/ at[n] \in Places}
<1>9. 0 \in T
  BY <1>8
<1>10. ASSUME NEW n \in Nat, n \in T PROVE n + 1 \in T
  <2>1. CASE n + 1 > k
    BY <2>1
  <2>2. CASE n + 1 <= k
    <3>1. n + 1 \in 0..k /\ n + 1 # 0 /\ (n + 1) - 1 = n /\ at[n] \in Places
      BY <1>10, <2>2
    <3>2. at[n + 1] = IF at[n] = NoPath THEN NoPath ELSE Hop(at[n])
      BY <1>8, <3>1
    <3>3. at[n + 1] \in Places
      BY <3>2, HopFacts DEF Places
    <3> QED
      BY <3>3
  <2> QED
    BY <2>1, <2>2
<1> HIDE DEF T
<1>11. Nat \subseteq T
  BY <1>9, <1>10, AllNumbers
<1>12. \A n \in 0..k : at[n] \in Places
  BY <1>11 DEF T
<1>13. at \in [0..k -> Places]
  BY <1>8, <1>12
<1>14. ASSUME NEW n \in 1..k PROVE at[n] = Onward[at[n - 1]]
  <2>1. n \in 0..k /\ n # 0 /\ n - 1 \in 0..k
    OBVIOUS
  <2>2. at[n] = IF at[n - 1] = NoPath THEN NoPath ELSE Hop(at[n - 1])
    BY <1>8, <2>1
  <2>3. at[n - 1] \in Places
    BY <1>12, <2>1
  <2> QED
    BY <1>1, <2>2, <2>3
<1>15. at[0] = p
  BY <1>8
<1>16. Walk(at, Places, f, p, k)
  BY <1>13, <1>14, <1>15 DEF Walk, f
<1> QED
  BY <1>16 DEF at, f


\* A path that has one redirect leads where that redirect does.
LEMMA HopOfRow ==
  ASSUME TableRows, Sources, NEW k \in DOMAIN table
  PROVE  Hop(table[k].source) = table[k].target
<1> DEFINE p == table[k].source
<1>1. k \in BySource(p)
  BY DEF BySource
<1>2. PICK j \in DOMAIN table : table[j].source = p /\ Hop(p) = table[j].target
  <2> HIDE DEF p
  <2> QED
    BY <1>1, HopFacts
<1>3. j = k
  BY <1>2 DEF Sources
<1> QED
  BY <1>2, <1>3

-----------------------------------------------------------------------------
(* Steps along which something falls, and what stays out of reach. *)

Descends(f) ==
  \E rank \in [Places -> Nat] : rank[NoPath] = 0 /\ \A p \in Paths : rank[f[p]] < rank[p]

\* From g, following f, one never comes to s.
Apart(f, s, g) ==
  \E T \in SUBSET Places : g \in T /\ s \notin T /\ NoPath \in T /\ \A x \in T : f[x] \in T

\* Ending some paths leaves no circle either.
LEMMA FewerSteps ==
  ASSUME NEW f \in [Places -> Places], Descends(f), NEW h \in [Places -> Places],
         \A p \in Paths : h[p] = f[p] \/ h[p] = NoPath
  PROVE  Descends(h)
<1>1. PICK rank \in [Places -> Nat] : rank[NoPath] = 0 /\ \A p \in Paths : rank[f[p]] < rank[p]
  BY DEF Descends
<1>2. ASSUME NEW p \in Paths PROVE rank[h[p]] < rank[p]
  <2>1. rank[p] \in Nat /\ rank[f[p]] \in Nat /\ rank[f[p]] < rank[p] /\ f[p] \in Places
    BY <1>1 DEF Places
  <2> QED
    BY <1>1, <2>1
<1> QED
  BY <1>1, <1>2 DEF Descends

\* A new step from s to a g from where s is out of reach closes no circle.
LEMMA NewStep ==
  ASSUME NEW f \in [Places -> Places], Descends(f), NEW h \in [Places -> Places],
         NEW s \in Paths, NEW g \in Paths, Apart(f, s, g), h[s] = g,
         \A p \in Paths : p # s => h[p] = f[p] \/ h[p] = NoPath
  PROVE  Descends(h)
<1>1. PICK rank \in [Places -> Nat] : rank[NoPath] = 0 /\ \A p \in Paths : rank[f[p]] < rank[p]
  BY DEF Descends
<1>2. PICK T \in SUBSET Places : g \in T /\ s \notin T /\ NoPath \in T /\ \A x \in T : f[x] \in T
  BY DEF Apart
<1> DEFINE low(p) == p \in T /\ rank[p] <= rank[g]
           new == [p \in Places |-> IF low(p) THEN rank[p] ELSE rank[g] + 1 + rank[p]]
<1>3. \A p \in Places : rank[p] \in Nat /\ f[p] \in Places /\ h[p] \in Places
  BY <1>1
<1>4. NoPath \in Places /\ Paths \subseteq Places /\ \A p \in Paths : p # NoPath
  BY RedirectAssumption DEF Places
<1>5. new \in [Places -> Nat] /\ new[NoPath] = 0
  BY <1>1, <1>2, <1>3, <1>4
<1>6. \A p \in Places : /\ low(p) => new[p] = rank[p]
                        /\ ~low(p) => new[p] = rank[g] + 1 + rank[p]
  OBVIOUS
<1>7. low(NoPath) /\ low(g) /\ ~low(s)
  BY <1>1, <1>2, <1>3, <1>4
<1>8. ASSUME NEW p \in Paths PROVE new[h[p]] < new[p]
  <2>1. CASE p = s
    BY <1>3, <1>4, <1>6, <1>7, <2>1
  <2>2. CASE p # s /\ h[p] = NoPath
    <3>1. rank[f[p]] < rank[p] /\ rank[p] \in Nat /\ rank[f[p]] \in Nat /\ rank[g] \in Nat
      BY <1>1, <1>3, <1>4
    <3>2. new[p] > 0
      BY <1>4, <1>6, <3>1
    <3> QED
      BY <1>5, <2>2, <3>2
  <2>3. CASE p # s /\ h[p] = f[p]
    <3>1. rank[f[p]] < rank[p] /\ rank[p] \in Nat /\ rank[f[p]] \in Nat /\ rank[g] \in Nat
      BY <1>1, <1>3, <1>4
    <3>2. low(p) => low(f[p])
      BY <1>2, <3>1
    <3>3. f[p] \in Places /\ p \in Places
      BY <1>3, <1>4
    <3> QED
      BY <1>6, <2>3, <3>1, <3>2, <3>3
  <2> QED
    BY <2>1, <2>2, <2>3
<1> HIDE DEF new
<1> QED
  BY <1>5, <1>8 DEF Descends

\* What create and update check of a target keeps the source out of its reach.
LEMMA CheckedApart ==
  ASSUME TableRows, NEW s \in Paths, NEW g \in Paths, ~DetectLoop(s, g), ~ChainTooLong(g)
  PROVE  Apart(Onward, s, g)
<1> DEFINE at == Trail(g, MaxChain)
           T == {at[n] : n \in 0..MaxChain}
<1>1. MaxChain \in Nat /\ NoPath \notin Paths /\ g \in Places
  BY RedirectAssumption DEF Places
<1>2. Walk(at, Places, [n \in 1..MaxChain |-> Onward], g, MaxChain)
  BY <1>1, TrailSteps
<1>3. at \in [0..MaxChain -> Places] /\ at[0] = g /\ \A n \in 1..MaxChain : at[n] = Onward[at[n - 1]]
  BY <1>2 DEF Walk
<1>4. at[MaxChain] = NoPath
  BY DEF ChainTooLong
<1>5. \A n \in 0..MaxChain : at[n] # s
  BY <1>1 DEF DetectLoop
<1> HIDE DEF at
<1>6. T \in SUBSET Places /\ g \in T /\ s \notin T /\ NoPath \in T
  BY <1>1, <1>3, <1>4, <1>5
<1>7. ASSUME NEW x \in T PROVE Onward[x] \in T
  <2>1. PICK n \in 0..MaxChain : x = at[n]
    OBVIOUS
  <2>2. CASE n = MaxChain
    BY <1>4, <1>6, <2>1, <2>2, OnwardFacts
  <2>3. CASE n # MaxChain
    <3>1. n + 1 \in 1..MaxChain /\ (n + 1) - 1 = n /\ n + 1 \in 0..MaxChain
      BY <1>1, <2>3
    <3>2. Onward[x] = at[n + 1]
      BY <1>3, <2>1, <3>1
    <3> QED
      BY <3>1, <3>2
  <2> QED
    BY <2>2, <2>3
<1> HIDE DEF T
<1> QED
  BY <1>6, <1>7 DEF Apart

-----------------------------------------------------------------------------
(* The walks of a visitor. *)

\* A set of numbers up to some number that is not empty has a greatest one.
LEMMA GreatestNumber ==
  ASSUME NEW n \in Nat, NEW T \in SUBSET (0..n), T # {}
  PROVE  \E x \in T : \A y \in T : y <= x
<1> DEFINE R == {n - x : x \in T}
<1>1. R \subseteq Nat /\ R # {}
  <2>1. \A x \in T : n - x \in Nat
    OBVIOUS
  <2>2. PICK x \in T : TRUE
    OBVIOUS
  <2>3. n - x \in R
    OBVIOUS
  <2> QED
    BY <2>1, <2>3
<1> HIDE DEF R
<1>2. PICK r \in R : \A q \in R : r <= q
  BY <1>1, LeastNumber
<1>3. PICK x \in T : r = n - x
  BY DEF R
<1>4. \A y \in T : n - x <= n - y
  BY <1>2, <1>3 DEF R
<1> QED
  BY <1>4

\* Following enabled redirects one goes down, and only from a path that has a redirect.
LEMMA ResolveFalls ==
  ASSUME TableRows, NEW p \in Paths, NEW rank \in [Places -> Nat], rank[NoPath] = 0,
         \A x \in Paths : rank[Onward[x]] < rank[x], Resolve(p) # NoPath
  PROVE  /\ Resolve(p) \in Paths /\ rank[Resolve(p)] < rank[p]
         /\ BySource(p) # {}
<1> DEFINE Live == [x \in Places |-> IF x = NoPath THEN NoPath ELSE LiveHop(x)]
           f == [n \in 1..MaxChain |-> Live]
           good(at) == at = [n \in 0..MaxChain |-> IF n = 0 THEN p
                                                   ELSE IF at[n - 1] = NoPath THEN NoPath
                                                   ELSE LiveHop(at[n - 1])]
<1>1. NoPath \notin Paths /\ MaxChain \in Nat /\ p \in Places /\ NoPath \in Places
  BY RedirectAssumption DEF Places
<1>2. ASSUME NEW x \in Places PROVE LiveHop(x) = Hop(x) \/ LiveHop(x) = NoPath
  BY DEF LiveHop, Hop
<1>3. Live \in [Places -> Places] /\ \A x \in Places : Live[x] = IF x = NoPath THEN NoPath ELSE LiveHop(x)
  BY <1>1, <1>2, HopFacts
<1>4. f \in [1..MaxChain -> [Places -> Places]]
  BY <1>3
<1> HIDE DEF Live
<1>5. PICK h : Walk(h, Places, f, p, MaxChain)
  <2> HIDE DEF f
  <2> QED
    BY <1>1, <1>4, WalkExists
<1>6. h \in [0..MaxChain -> Places] /\ h[0] = p /\ \A n \in 1..MaxChain : h[n] = Live[h[n - 1]]
  BY <1>5 DEF Walk
<1>7. good(h)
  <2> DEFINE g == [n \in 0..MaxChain |-> IF n = 0 THEN p
                                  ELSE IF h[n - 1] = NoPath THEN NoPath ELSE LiveHop(h[n - 1])]
  <2>1. ASSUME NEW n \in 0..MaxChain PROVE h[n] = g[n]
    <3>1. CASE n = 0
      BY <1>6, <3>1
    <3>2. CASE n # 0
      <4>1. n \in 1..MaxChain /\ n - 1 \in 0..MaxChain
        BY <1>1, <3>2
      <4> QED
        BY <1>3, <1>6, <3>2, <4>1
    <3> QED
      BY <3>1, <3>2
  <2>2. DOMAIN g = 0..MaxChain /\ g = [n \in 0..MaxChain |-> g[n]]
    OBVIOUS
  <2> HIDE DEF g
  <2>3. h = g
    BY <1>6, <2>1, <2>2
  <2> QED
    BY <2>3 DEF g
<1> DEFINE at == CHOOSE w : good(w)
           hops == {n \in 1..MaxChain : at[n] # NoPath}
<1>8. Resolve(p) = IF hops = {} THEN NoPath ELSE at[CHOOSE n \in hops : \A m \in hops : m <= n]
  BY DEF Resolve
<1>9. good(at)
  <2> HIDE DEF good
  <2> QED
    BY <1>7
<1>10. at = [n \in 0..MaxChain |-> IF n = 0 THEN p ELSE IF at[n - 1] = NoPath THEN NoPath
                                   ELSE LiveHop(at[n - 1])]
  BY <1>9
<1> HIDE DEF at
<1>11. at[0] = p /\ \A n \in 1..MaxChain : at[n] = IF at[n - 1] = NoPath THEN NoPath ELSE LiveHop(at[n - 1])
  <2>1. \A n \in 1..MaxChain : n \in 0..MaxChain /\ n # 0
    BY <1>1
  <2> QED
    BY <1>1, <1>10, <2>1
<1> DEFINE Down(n) == at[n] \in Places /\ (at[n] # NoPath => rank[at[n]] < rank[p])
           T == {n \in Nat : n > MaxChain \/ n = 0 \/ Down(n)}
<1>12. ASSUME NEW n \in Nat, n \in T PROVE n + 1 \in T
  <2>s. n + 1 \in Nat /\ (n + 1 > MaxChain \/ n + 1 <= MaxChain)
    BY <1>1
  <2>1. SUFFICES ASSUME n + 1 <= MaxChain PROVE Down(n + 1)
    BY <2>s
  <2>2. n + 1 \in 1..MaxChain /\ (n + 1) - 1 = n
    BY <1>1, <2>1
  <2>3. at[n + 1] = IF at[n] = NoPath THEN NoPath ELSE LiveHop(at[n])
    BY <1>11, <2>2
  <2>4. at[n] \in Places /\ (at[n] # NoPath => rank[at[n]] <= rank[p])
    <3>1. CASE n = 0
      BY <1>1, <1>11, <3>1
    <3>2. CASE n # 0
      BY <1>1, <1>12, <2>1, <3>2
    <3> QED
      BY <3>1, <3>2
  <2>5. CASE at[n + 1] = NoPath
    BY <1>1, <2>5
  <2>6. CASE at[n + 1] # NoPath
    <3>1. at[n] # NoPath /\ at[n + 1] = Hop(at[n]) /\ at[n] \in Paths
      BY <1>2, <2>3, <2>4, <2>6 DEF Places
    <3>2. at[n + 1] = Onward[at[n]] /\ at[n + 1] \in Places
      BY <3>1, OnwardFacts, HopFacts
    <3>3. rank[at[n + 1]] < rank[at[n]] /\ rank[at[n]] <= rank[p]
      BY <2>4, <3>1, <3>2
    <3>4. rank[at[n + 1]] \in Nat /\ rank[at[n]] \in Nat /\ rank[p] \in Nat
      BY <1>1, <2>4, <3>2
    <3> QED
      BY <3>2, <3>3, <3>4
  <2> QED
    BY <2>5, <2>6
<1>13. 0 \in T
  OBVIOUS
<1> HIDE DEF T
<1>14. Nat \subseteq T
  BY <1>12, <1>13, AllNumbers
<1>15. \A n \in 1..MaxChain : Down(n)
  BY <1>1, <1>14 DEF T
<1>16. hops # {}
  BY <1>8
<1>17. hops \in SUBSET (0..MaxChain)
  BY <1>1
<1>18. \E n \in hops : \A m \in hops : m <= n
  <2> HIDE DEF hops
  <2> QED
    BY <1>1, <1>16, <1>17, GreatestNumber
<1>19. PICK n \in hops : Resolve(p) = at[n]
  <2> HIDE DEF hops
  <2> QED
    BY <1>8, <1>16, <1>18
<1>20. Resolve(p) \in Paths /\ rank[Resolve(p)] < rank[p]
  BY <1>15, <1>19 DEF Places
<1>21. BySource(p) # {}
  <2>1. SUFFICES ASSUME BySource(p) = {} PROVE FALSE
    OBVIOUS
  <2>2. LiveHop(p) = NoPath
    BY <2>1 DEF LiveHop
  <2> DEFINE E == {m \in Nat : m = 0 \/ m > MaxChain \/ at[m] = NoPath}
  <2>3. ASSUME NEW m \in Nat, m \in E PROVE m + 1 \in E
    <3>s. m + 1 \in Nat /\ (m + 1 > MaxChain \/ m + 1 <= MaxChain)
      BY <1>1
    <3>1. SUFFICES ASSUME m + 1 <= MaxChain PROVE at[m + 1] = NoPath
      BY <3>s
    <3>2. m + 1 \in 1..MaxChain /\ (m + 1) - 1 = m
      BY <1>1, <3>1
    <3> QED
      BY <1>1, <1>11, <2>2, <2>3, <3>1, <3>2
  <2>4. 0 \in E
    OBVIOUS
  <2> HIDE DEF E
  <2>5. Nat \subseteq E
    BY <2>3, <2>4, AllNumbers
  <2>6. n \in 1..MaxChain /\ at[n] # NoPath
    OBVIOUS
  <2>7. n \in E
    BY <1>1, <2>5, <2>6
  <2> QED
    BY <1>1, <2>6, <2>7 DEF E
<1> QED
  BY <1>20, <1>21


\* With unique ids and no circle, a visitor runs out of redirects before MaxRows + 1 answers.
LEMMA LandsOf ==
  ASSUME TableRows, UniqueIds, Descends(Onward), NEW p \in Paths
  PROVE  Lands(p)
<1>1. PICK rank \in [Places -> Nat] : rank[NoPath] = 0 /\ \A x \in Paths : rank[Onward[x]] < rank[x]
  BY DEF Descends
<1> DEFINE K == MaxRows + 1
           Next1 == [x \in Places |-> IF x = NoPath THEN NoPath ELSE Resolve(x)]
           f == [n \in 1..K |-> Next1]
           good(at) == at = [n \in 0..K |-> IF n = 0 THEN p
                                            ELSE IF at[n - 1] = NoPath THEN NoPath
                                            ELSE Resolve(at[n - 1])]
<1>2. NoPath \notin Paths /\ MaxRows \in Nat /\ K \in Nat /\ p \in Places /\ NoPath \in Places
  BY RedirectAssumption DEF Places
<1>3. ASSUME NEW x \in Paths, Resolve(x) # NoPath
      PROVE  Resolve(x) \in Paths /\ rank[Resolve(x)] < rank[x] /\ BySource(x) # {}
  BY <1>1, <1>3, ResolveFalls
<1>4. Next1 \in [Places -> Places] /\ \A x \in Places : Next1[x] = IF x = NoPath THEN NoPath ELSE Resolve(x)
  BY <1>2, <1>3 DEF Places
<1>5. f \in [1..K -> [Places -> Places]]
  BY <1>4
<1> HIDE DEF Next1
<1>6. PICK h : Walk(h, Places, f, p, K)
  <2> HIDE DEF f, K
  <2> QED
    BY <1>2, <1>5, WalkExists
<1>7. h \in [0..K -> Places] /\ h[0] = p /\ \A n \in 1..K : h[n] = Next1[h[n - 1]]
  BY <1>6 DEF Walk
<1> HIDE DEF K
<1>8. good(h)
  <2> DEFINE g == [n \in 0..K |-> IF n = 0 THEN p
                                  ELSE IF h[n - 1] = NoPath THEN NoPath ELSE Resolve(h[n - 1])]
  <2>1. ASSUME NEW n \in 0..K PROVE h[n] = g[n]
    <3>1. CASE n = 0
      BY <1>7, <3>1
    <3>2. CASE n # 0
      <4>1. n \in 1..K /\ n - 1 \in 0..K
        BY <1>2, <3>2
      <4> QED
        BY <1>4, <1>7, <3>2, <4>1
    <3> QED
      BY <3>1, <3>2
  <2>2. DOMAIN g = 0..K /\ g = [n \in 0..K |-> g[n]]
    OBVIOUS
  <2> HIDE DEF g
  <2>3. h = g
    BY <1>7, <2>1, <2>2
  <2> QED
    BY <2>3 DEF g
<1> DEFINE at == CHOOSE w : good(w)
<1>9. Lands(p) = (at[K] = NoPath)
  BY DEF Lands, K
<1>10. good(at)
  <2> HIDE DEF good
  <2> QED
    BY <1>8
<1>11. at = [n \in 0..K |-> IF n = 0 THEN p ELSE IF at[n - 1] = NoPath THEN NoPath ELSE Resolve(at[n - 1])]
  BY <1>10
<1> HIDE DEF at
<1>12. at[0] = p /\ \A n \in 1..K : at[n] = IF at[n - 1] = NoPath THEN NoPath ELSE Resolve(at[n - 1])
  <2>1. \A n \in 1..K : n \in 0..K /\ n # 0
    BY <1>2
  <2> QED
    BY <1>2, <1>11, <2>1
<1>13. SUFFICES ASSUME at[K] # NoPath PROVE FALSE
  BY <1>9
\* Up to the last answer all of them are paths, each lower than all before it.
<1> DEFINE Falls(n) == at[n] \in Places /\ (at[n] # NoPath => \A m \in 0..(n - 1) :
                              /\ at[m] \in Paths /\ rank[at[n]] < rank[at[m]]
                              /\ BySource(at[m]) # {})
           T == {n \in Nat : n > K \/ Falls(n)}
<1>14. 0 \in T
  BY <1>2, <1>12
<1>15. ASSUME NEW n \in Nat, n \in T PROVE n + 1 \in T
  <2>s. n + 1 \in Nat /\ (n + 1 > K \/ n + 1 <= K)
    BY <1>2
  <2>1. SUFFICES ASSUME n + 1 <= K PROVE Falls(n + 1)
    BY <2>s
  <2>2. n + 1 \in 1..K /\ (n + 1) - 1 = n /\ n <= K
    BY <1>2, <2>1
  <2>3. at[n + 1] = IF at[n] = NoPath THEN NoPath ELSE Resolve(at[n])
    BY <1>12, <2>2
  <2>4. Falls(n)
    BY <1>2, <1>15, <2>2
  <2>5. CASE at[n + 1] = NoPath
    BY <1>2, <2>5
  <2>6. CASE at[n + 1] # NoPath
    <3>1. at[n] \in Paths /\ at[n + 1] = Resolve(at[n]) /\ Resolve(at[n]) # NoPath
      BY <2>3, <2>4, <2>6 DEF Places
    <3>2. at[n + 1] \in Paths /\ rank[at[n + 1]] < rank[at[n]] /\ BySource(at[n]) # {}
      BY <1>3, <3>1
    <3>3. ASSUME NEW m \in 0..n
          PROVE  at[m] \in Paths /\ rank[at[n + 1]] < rank[at[m]] /\ BySource(at[m]) # {}
      <4>1. CASE m = n
        BY <3>1, <3>2, <4>1
      <4>2. CASE m # n
        <5>1. m \in 0..(n - 1)
          BY <4>2
        <5>2. at[m] \in Paths /\ rank[at[n]] < rank[at[m]] /\ BySource(at[m]) # {} /\ at[n] # NoPath
          BY <1>2, <2>4, <3>1, <5>1
        <5>3. rank[at[n]] \in Nat /\ rank[at[m]] \in Nat /\ rank[at[n + 1]] \in Nat
          BY <3>1, <3>2, <5>2 DEF Places
        <5> QED
          BY <3>2, <5>2, <5>3
      <4> QED
        BY <4>1, <4>2
    <3> QED
      BY <2>2, <3>2, <3>3 DEF Places
  <2> QED
    BY <2>5, <2>6
<1> HIDE DEF T
<1>16. Nat \subseteq T
  BY <1>14, <1>15, AllNumbers
<1>17. \A n \in 0..K : Falls(n)
  BY <1>2, <1>16 DEF T
\* Then none of the first K came after NoPath.
<1> DEFINE B == {n \in Nat : n > K \/ at[K - n] # NoPath}
<1>18. ASSUME NEW n \in Nat, n \in B PROVE n + 1 \in B
  <2>s. n + 1 \in Nat /\ (n + 1 > K \/ n + 1 <= K)
    BY <1>2
  <2>1. SUFFICES ASSUME n + 1 <= K PROVE at[K - (n + 1)] # NoPath
    BY <2>s
  <2>2. K - n \in 1..K /\ K - (n + 1) = (K - n) - 1 /\ ~(n > K)
    BY <1>2, <2>1
  <2>3. at[K - n] # NoPath
    BY <1>18, <2>2
  <2> QED
    BY <1>12, <2>2, <2>3
<1>19. 0 \in B
  BY <1>2, <1>13
<1> HIDE DEF B
<1>20. Nat \subseteq B
  BY <1>18, <1>19, AllNumbers
<1>21. \A n \in 0..K : at[n] # NoPath
  <2>1. ASSUME NEW n \in 0..K PROVE at[n] # NoPath
    <3>1. K - n \in Nat /\ ~(K - n > K) /\ K - (K - n) = n
      BY <1>2
    <3> QED
      BY <1>20, <3>1 DEF B
  <2> QED
    BY <2>1
<1>22. ASSUME NEW m \in 0..MaxRows
       PROVE  /\ at[m] \in Paths /\ BySource(at[m]) # {}
              /\ \A n \in 0..MaxRows : m < n => rank[at[n]] < rank[at[m]]
  <2>1. ASSUME NEW n \in 0..K, m < n
        PROVE  at[m] \in Paths /\ BySource(at[m]) # {} /\ rank[at[n]] < rank[at[m]]
    <3>1. m \in 0..(n - 1)
      BY <1>2, <2>1 DEF K
    <3>2. Falls(n) /\ at[n] # NoPath
      BY <1>17, <1>21
    <3> QED
      BY <3>1, <3>2
  <2>2. K \in 0..K /\ m < K /\ \A n \in 0..MaxRows : n \in 0..K
    BY <1>2 DEF K
  <2> QED
    BY <2>1, <2>2
<1> DEFINE key == [n \in 0..MaxRows |-> First(BySource(at[n])).id]
<1>23. ASSUME NEW n \in 0..MaxRows
       PROVE  \E k \in DOMAIN table : table[k].source = at[n] /\ key[n] = table[k].id
  BY <1>22, HopFacts
<1>24. key \in [0..MaxRows -> 1..MaxRows]
  BY <1>23, RowFacts
<1>25. ASSUME NEW x \in 0..MaxRows, NEW y \in 0..MaxRows, key[x] = key[y] PROVE x = y
  <2>1. PICK j \in DOMAIN table : table[j].source = at[x] /\ key[x] = table[j].id
    BY <1>23
  <2>2. PICK k \in DOMAIN table : table[k].source = at[y] /\ key[y] = table[k].id
    BY <1>23
  <2>3. at[x] = at[y]
    BY <1>25, <2>1, <2>2 DEF UniqueIds
  <2>4. rank[at[x]] \in Nat
    BY <1>22 DEF Places
  <2>5. x \in Int /\ y \in Int /\ ~(x < y) /\ ~(y < x)
    BY <1>22, <2>3, <2>4
  <2> QED
    BY <2>5
<1> HIDE DEF key
<1>26. /\ IsFiniteSet(0..MaxRows) /\ IsFiniteSet(1..MaxRows)
       /\ Cardinality(1..MaxRows) < Cardinality(0..MaxRows)
  <2>1. 0 \in Int /\ 1 \in Int /\ MaxRows \in Int
    BY <1>2
  <2>2. Cardinality(0..MaxRows) = (IF 0 > MaxRows THEN 0 ELSE MaxRows - 0 + 1) /\ IsFiniteSet(0..MaxRows)
    BY <2>1, FS_Interval
  <2>3. Cardinality(1..MaxRows) = (IF 1 > MaxRows THEN 0 ELSE MaxRows - 1 + 1) /\ IsFiniteSet(1..MaxRows)
    BY <2>1, FS_Interval
  <2> QED
    BY <1>2, <2>2, <2>3
<1>27. \E x, y \in 0..MaxRows : x # y /\ key[x] = key[y]
  BY <1>24, <1>26, FS_PigeonHole
<1> QED
  BY <1>25, <1>27

\* A circle that the audit can reach shows in the walk it takes.
LEMMA AuditOf ==
  ASSUME TableRows
  PROVE  AuditFindsLoops
<1>1. SUFFICES ASSUME NEW i \in 1..Len(table), First(BySource(table[i].source)) = table[i],
                      NEW n \in 1..(MaxChain + 1),
                      Trail(table[i].source, MaxChain + 1)[n] = table[i].source
               PROVE  DetectLoop(table[i].source, table[i].target)
  BY DEF AuditFindsLoops, ValidateAll
<1> DEFINE s == table[i].source
           g == table[i].target
           long == Trail(s, MaxChain + 1)
           short == Trail(g, MaxChain)
           rest == [m \in 0..MaxChain |-> long[m + 1]]
           f == [m \in 1..MaxChain |-> Onward]
<1>2. MaxChain \in Nat /\ NoPath \notin Paths /\ s \in Paths /\ g \in Paths /\ s \in Places /\ g \in Places
  BY RedirectAssumption, RowFacts DEF Places
<1>3. Hop(s) = g
  <2>1. i \in BySource(s)
    BY RowFacts DEF BySource
  <2> QED
    BY <1>1, <2>1 DEF Hop
<1> HIDE DEF s, g
<1>4. Walk(long, Places, [m \in 1..(MaxChain + 1) |-> Onward], s, MaxChain + 1)
  BY <1>2, TrailSteps
<1>5. Walk(short, Places, f, g, MaxChain)
  BY <1>2, TrailSteps
<1> HIDE DEF long, short
<1>6. /\ long \in [0..(MaxChain + 1) -> Places] /\ long[0] = s
      /\ \A m \in 1..(MaxChain + 1) : long[m] = Onward[long[m - 1]]
  BY <1>4 DEF Walk
<1>7. Walk(rest, Places, f, g, MaxChain)
  <2>1. \A m \in 0..MaxChain : m + 1 \in 0..(MaxChain + 1)
    BY <1>2
  <2>2. rest \in [0..MaxChain -> Places]
    BY <1>6, <2>1
  <2>3. rest[0] = g
    <3>1. 1 \in 1..(MaxChain + 1) /\ 1 - 1 = 0 /\ 0 \in 0..MaxChain
      BY <1>2
    <3>2. rest[0] = long[1] /\ long[1] = Onward[s]
      BY <1>6, <3>1
    <3> QED
      BY <1>2, <1>3, <3>2, OnwardFacts
  <2>4. ASSUME NEW m \in 1..MaxChain PROVE rest[m] = f[m][rest[m - 1]]
    <3>1. m + 1 \in 1..(MaxChain + 1) /\ (m + 1) - 1 = m /\ (m - 1) + 1 = m /\ m - 1 \in 0..MaxChain
          /\ m \in 0..MaxChain
      BY <1>2
    <3>2. rest[m] = long[m + 1] /\ long[m + 1] = Onward[long[m]] /\ rest[m - 1] = long[m]
      BY <1>6, <3>1
    <3> QED
      BY <3>2
  <2> HIDE DEF rest, f
  <2> QED
    BY <2>2, <2>3, <2>4 DEF Walk
<1>8. \A m \in 0..MaxChain : short[m] = rest[m]
  <2> HIDE DEF f, rest
  <2>1. MaxChain \in 0..MaxChain
    BY <1>2
  <2> QED
    <3>1. \A m \in 0..MaxChain : rest[m] = short[m]
      <4>1. SameSteps(f, f, MaxChain)
        BY DEF SameSteps
      <4> QED
        BY <1>2, <1>5, <1>7, <2>1, <4>1, WalkOnly
    <3> QED
      BY <3>1
<1>9. n - 1 \in 0..MaxChain /\ (n - 1) + 1 = n
  BY <1>2
<1>10. short[n - 1] = s /\ s # NoPath
  <2>1. long[n] = s
    BY <1>1 DEF long, s
  <2>2. rest[n - 1] = long[n]
    BY <1>9
  <2> HIDE DEF rest
  <2> QED
    BY <1>2, <1>8, <1>9, <2>1, <2>2
<1>11. DetectLoop(s, g)
  BY <1>9, <1>10 DEF DetectLoop, short
<1> QED
  BY <1>11 DEF s, g


-----------------------------------------------------------------------------
(* The invariant. *)

\* What the validation of an edit says as long as nobody has written since: its source is
\* nobody else's, and its target does not lead back, or the row says so already.
Alone(e) == \A k \in DOMAIN table : table[k].source = e.row.source => table[k].id = e.row.id
Standing(e) == \E k \in DOMAIN table : /\ table[k].source = e.row.source
                                       /\ table[k].target = e.row.target
EditSound(e) ==
  /\ e.row \in Redirect
  /\ e.fresh /\ ~overtaken => Alone(e)
  /\ e.fresh /\ e.checked /\ ~overtaken /\ ~moved =>
       Apart(Onward, e.row.source, e.row.target) \/ Standing(e)

Edit == [row : Redirect \union {<<>>}, fresh : BOOLEAN, checked : BOOLEAN]
EditsSound == \A a \in 1..Editors, e \in Edit : edits[a] = e /\ e # NoEdit => EditSound(e)
WritesBound == saves + Cardinality(Busy) <= MaxSaves
Single == ~overtaken => Sources
NoCircle == ~overtaken /\ ~moved => Descends(Onward)

RedirectInv ==
  RedirectTypeOK /\ UniqueIds /\ WritesBound /\ Single /\ NoCircle /\ EditsSound

LEMMA RedirectInvSafe == RedirectInv => RedirectsSafe
<1> SUFFICES ASSUME RedirectInv PROVE RedirectsSafe
  OBVIOUS
<1>1. TableRows /\ UniqueIds
  BY DEF RedirectInv, RedirectTypeOK, TableRows
<1>2. VisitorLands
  BY <1>1, LandsOf DEF RedirectInv, NoCircle, VisitorLands
<1>3. OneRedirectPerSource
  BY <1>1, RowFacts DEF RedirectInv, Single, Sources, OneRedirectPerSource
<1> QED
  BY <1>1, <1>2, <1>3, AuditOf DEF RedirectsSafe

\* Where the redirects lead, for the table before a step and after it.
Leads ==
  /\ Onward \in [Places -> Places]
  /\ \A p \in Paths : Onward[p] = NoPath
                      \/ \E k \in DOMAIN table : table[k].source = p /\ Onward[p] = table[k].target
  /\ Sources => \A k \in DOMAIN table : Onward[table[k].source] = table[k].target

LEMMA LeadsHolds == TableRows => Leads
<1> SUFFICES ASSUME TableRows PROVE Leads
  OBVIOUS
<1>1. ASSUME NEW p \in Paths
      PROVE  Onward[p] = NoPath
             \/ \E k \in DOMAIN table : table[k].source = p /\ Onward[p] = table[k].target
  BY OnwardFacts, HopFacts
<1>2. ASSUME Sources, NEW k \in DOMAIN table PROVE Onward[table[k].source] = table[k].target
  BY <1>2, OnwardFacts, HopOfRow, RowFacts
<1> QED
  BY <1>1, <1>2, OnwardFacts DEF Leads

LEMMA LeadsNext == TableRows' => Leads'
BY LeadsHolds, PTL

LEMMA RowsHold == RedirectTypeOK => TableRows
BY DEF RedirectTypeOK, TableRows

LEMMA RowFactsHold ==
  ASSUME TableRows
  PROVE  \A k \in 1..Len(table) : table[k] \in Redirect
BY RowFacts

-----------------------------------------------------------------------------
(* Initially nothing is redirected. *)

LEMMA RedirectInitInv == RedirectInit => RedirectInv
<1> SUFFICES ASSUME RedirectInit PROVE RedirectInv
  OBVIOUS
<1> USE DEF RedirectInit
<1>1. table = <<>> /\ DOMAIN table = {}
  OBVIOUS
<1>2. table \in Seq(Redirect)
  BY <1>1, EmptySeq
<1>3. NoEdit \in Edit
  BY DEF NoEdit, Edit
<1>4. RedirectTypeOK
  <2>1. edits \in [1..Editors -> Edit]
    BY <1>3
  <2> QED
    <3>1. made \in 0..MaxRows /\ saves \in 0..MaxSaves
      BY RedirectAssumption
    <3>2. overtaken \in BOOLEAN /\ moved \in BOOLEAN
      OBVIOUS
    <3> QED
      BY <1>2, <2>1, <3>1, <3>2 DEF RedirectTypeOK, Edit
<1>5. UniqueIds /\ Single
  BY <1>1 DEF UniqueIds, Single, Sources
<1>6. \A a \in 1..Editors : edits[a] = NoEdit
  BY RedirectAssumption
<1>7. WritesBound
  <2>1. Busy = {}
    BY <1>6 DEF Busy
  <2> QED
    BY <2>1, FS_EmptySet, RedirectAssumption DEF WritesBound
<1>8. NoCircle
  <2> DEFINE rank == [p \in Places |-> IF p = NoPath THEN 0 ELSE 1]
  <2>1. \A p \in Paths : Onward[p] = NoPath
    BY <1>1, <1>4, RowsHold, LeadsHolds DEF Leads
  <2>2. rank \in [Places -> Nat] /\ rank[NoPath] = 0 /\ \A p \in Paths : rank[Onward[p]] < rank[p]
    BY <2>1, RedirectAssumption DEF Places
  <2> HIDE DEF rank
  <2> QED
    BY <2>2 DEF NoCircle, Descends
<1>9. EditsSound
  BY <1>6 DEF EditsSound
<1> QED
  BY <1>4, <1>5, <1>7, <1>8, <1>9 DEF RedirectInv

-----------------------------------------------------------------------------
(* The steps. *)

LEMMA BusyFinite ==
  ASSUME NEW S \in SUBSET (1..Editors)
  PROVE  IsFiniteSet(S) /\ Cardinality(S) \in Nat
<1>1. IsFiniteSet(1..Editors)
  BY RedirectAssumption, FS_Interval
<1> QED
  BY <1>1, FS_Subset, FS_CardinalityType

\* What depends on the table alone stays with it.
LEMMA TableKept ==
  ASSUME RedirectInv, UNCHANGED <<table, overtaken, moved>>
  PROVE  /\ UniqueIds' /\ Single' /\ NoCircle' /\ Onward' = Onward
         /\ \A e : EditSound(e) => EditSound(e)'
<1>1. Onward' = Onward
  BY DEF Onward, Hop, BySource, First
<1>2. UniqueIds' /\ Single'
  BY DEF RedirectInv, UniqueIds, Single, Sources
<1>3. NoCircle'
  BY <1>1 DEF RedirectInv, NoCircle, Descends
<1>4. ASSUME NEW e, EditSound(e) PROVE EditSound(e)'
  <2>1. Alone(e) => Alone(e)'
    BY DEF Alone
  <2>2. Standing(e) => Standing(e)'
    BY DEF Standing
  <2>3. Apart(Onward, e.row.source, e.row.target) => Apart(Onward', e.row.source, e.row.target)
    BY <1>1
  <2> QED
    BY <1>4, <2>1, <2>2, <2>3 DEF EditSound
<1> QED
  BY <1>1, <1>2, <1>3, <1>4

\* A validation that is begun: the table stays, and one more edit is sound.
LEMMA BeginsInv ==
  ASSUME RedirectInv, NEW a \in 1..Editors, Free(a), NEW e, EditSound(e),
         e \in Edit,
         edits' = [edits EXCEPT ![a] = e], made' \in 0..MaxRows,
         UNCHANGED <<table, saves, overtaken, moved>>
  PROVE  RedirectInv'
<1>1. UniqueIds' /\ Single' /\ NoCircle' /\ \A d : EditSound(d) => EditSound(d)'
  BY TableKept
<1>2. RedirectTypeOK'
  BY DEF RedirectInv, RedirectTypeOK, Edit
<1>3. \A b \in 1..Editors : edits'[b] = IF b = a THEN e ELSE edits[b]
  BY DEF RedirectInv, RedirectTypeOK
<1>4. EditsSound'
  <2>1. ASSUME NEW b \in 1..Editors, NEW d \in Edit, edits'[b] = d, d # NoEdit PROVE EditSound(d)'
    <3>1. EditSound(d)
      BY <1>3, <2>1 DEF RedirectInv, EditsSound
    <3> QED
      BY <1>1, <3>1
  <2>2. Edit' = Edit
    BY DEF Edit, Redirect
  <2> QED
    BY <2>1, <2>2 DEF EditsSound
<1>5. WritesBound'
  <2>1. Busy \in SUBSET (1..Editors) /\ Busy' \in SUBSET (1..Editors) /\ Busy' \subseteq Busy \cup {a}
    BY <1>3 DEF Busy
  <2>2. /\ IsFiniteSet(Busy) /\ Cardinality(Busy) \in Nat /\ IsFiniteSet(Busy \cup {a})
        /\ a \notin Busy /\ Cardinality(Busy \cup {a}) = Cardinality(Busy) + 1
    BY <2>1, BusyFinite, FS_AddElement DEF Free
  <2>3. Cardinality(Busy') \in Nat /\ Cardinality(Busy') <= Cardinality(Busy \cup {a})
    BY <2>1, <2>2, FS_Subset, BusyFinite
  <2>4. saves + Cardinality(Busy) < MaxSaves /\ saves \in Nat /\ MaxSaves \in Nat
    BY RedirectAssumption DEF Free, RedirectInv, RedirectTypeOK
  <2> QED
    BY <2>2, <2>3, <2>4 DEF WritesBound
<1> QED
  BY <1>1, <1>2, <1>4, <1>5 DEF RedirectInv

LEMMA CreateRedirectInv ==
  ASSUME RedirectInv, NEW a \in 1..Editors, NEW s \in Paths, NEW g \in Paths,
         CreateRedirect(a, s, g)
  PROVE  RedirectInv'
<1> USE DEF CreateRedirect
<1>1. PICK row : row = [id |-> made + 1, source |-> s, target |-> g, enabled |-> TRUE]
  OBVIOUS
<1>2. PICK e : e = [row |-> row, fresh |-> TRUE, checked |-> TRUE]
  OBVIOUS
<1>3. made \in Nat /\ MaxRows \in Nat /\ made + 1 \in 1..MaxRows /\ made' \in 0..MaxRows
  BY RedirectAssumption DEF RedirectInv, RedirectTypeOK
<1>4. row \in Redirect /\ row.source = s /\ row.target = g
  BY <1>1, <1>3 DEF Redirect
<1>5. e.row = row /\ e.fresh = TRUE /\ e.checked = TRUE
      /\ e \in Edit
  BY <1>2, <1>4 DEF Edit
<1>6. edits' = [edits EXCEPT ![a] = e]
  BY <1>1, <1>2
<1>7. EditSound(e)
  <2>1. Alone(e)
    BY <1>4, <1>5 DEF Alone, BySource
  <2>2. Apart(Onward, s, g)
    BY CheckedApart, RowsHold DEF RedirectInv
  <2> QED
    BY <1>4, <1>5, <2>1, <2>2 DEF EditSound
<1> QED
  BY <1>3, <1>5, <1>6, <1>7, BeginsInv

LEMMA UpdateRedirectInv ==
  ASSUME RedirectInv, NEW a \in 1..Editors, NEW i \in 1..MaxRows, NEW fields \in SUBSET Fields,
         NEW source \in Paths, NEW target \in Paths, UpdateRedirect(a, i, fields, source, target)
  PROVE  RedirectInv'
<1> USE DEF UpdateRedirect
<1>1. PICK old : old = First(ById(i))
  OBVIOUS
<1>2. PICK s : s = IF "source" \in fields THEN source ELSE old.source
  OBVIOUS
<1>3. PICK g : g = IF "target" \in fields THEN target ELSE old.target
  OBVIOUS
<1>4. PICK on : on = IF "enabled" \in fields THEN ~old.enabled ELSE old.enabled
  OBVIOUS
<1>5. PICK row : row = [id |-> i, source |-> s, target |-> g, enabled |-> on]
  OBVIOUS
<1>6. PICK checked : checked = ("source" \in fields => "target" \in fields)
  OBVIOUS
<1>7. PICK e : e = [row |-> row, fresh |-> TRUE, checked |-> checked]
  OBVIOUS
<1>8. /\ Free(a) /\ ById(i) # {}
      /\ "source" \in fields => ~TakenByOther(s, i)
      /\ "target" \in fields => ~DetectLoop(s, g) /\ ~ChainTooLong(g)
      /\ edits' = [edits EXCEPT ![a] = e]
      /\ UNCHANGED <<table, made, saves, overtaken, moved>>
  BY <1>1, <1>2, <1>3, <1>4, <1>5, <1>6, <1>7
<1>9. TableRows
  BY RowsHold DEF RedirectInv
<1>10. PICK k \in DOMAIN table : old = table[k] /\ table[k].id = i
  <2>1. ById(i) \in SUBSET DOMAIN table
    BY DEF ById
  <2>2. Min(ById(i)) \in ById(i) /\ old = table[Min(ById(i))]
    BY <1>1, <1>8, <1>9, <2>1, FirstRow
  <2> QED
    BY <2>2 DEF ById
<1>11. old.source \in Paths /\ old.target \in Paths /\ old.enabled \in BOOLEAN
  BY <1>9, <1>10, RowFacts
<1>12. s \in Paths /\ g \in Paths /\ on \in BOOLEAN /\ checked \in BOOLEAN
  BY <1>2, <1>3, <1>4, <1>6, <1>11
<1>13. row \in Redirect /\ row.id = i /\ row.source = s /\ row.target = g
  BY <1>5, <1>12 DEF Redirect
<1>14. e.row = row /\ e.fresh = TRUE /\ e.checked = checked
       /\ e \in Edit
  BY <1>7, <1>12, <1>13 DEF Edit
<1>15. EditSound(e)
  <2>1. ASSUME ~overtaken PROVE Alone(e)
    <3>1. Sources
      BY <2>1 DEF RedirectInv, Single
    <3>2. ASSUME NEW j \in DOMAIN table, table[j].source = s PROVE table[j].id = i
      <4>1. CASE "source" \notin fields
        BY <1>2, <1>10, <3>1, <3>2, <4>1 DEF Sources
      <4>2. CASE "source" \in fields
        <5>1. j \in BySource(s)
          BY <3>2 DEF BySource
        <5>2. First(BySource(s)).id = i
          BY <1>8, <4>2, <5>1 DEF TakenByOther
        <5>3. PICK m \in DOMAIN table : First(BySource(s)) = table[m] /\ table[m].source = s
          BY <1>9, <5>1, HopFacts
        <5> QED
          BY <3>1, <3>2, <5>2, <5>3 DEF Sources
      <4> QED
        BY <4>1, <4>2
    <3> QED
      BY <1>13, <1>14, <3>2 DEF Alone
  <2>2. ASSUME e.checked PROVE Apart(Onward, s, g) \/ Standing(e)
    <3>1. CASE "target" \in fields
      BY <1>8, <1>9, <1>12, <3>1, CheckedApart
    <3>2. CASE "target" \notin fields
      <4>1. "source" \notin fields
        BY <1>6, <1>14, <2>2, <3>2
      <4>2. s = table[k].source /\ g = table[k].target
        BY <1>2, <1>3, <1>10, <3>2, <4>1
      <4> QED
        BY <1>13, <1>14, <4>2 DEF Standing
    <3> QED
      BY <3>1, <3>2
  <2> QED
    BY <1>13, <1>14, <2>1, <2>2 DEF EditSound
<1>16. made' \in 0..MaxRows
  BY <1>8 DEF RedirectInv, RedirectTypeOK
<1> HIDE DEF UpdateRedirect
<1> QED
  BY <1>8, <1>14, <1>15, <1>16, BeginsInv


\* After a write no other validation is of the table there is.
LEMMA StaleInv ==
  ASSUME RedirectInv, NEW a \in 1..Editors, edits' = Stale(a)
  PROVE  EditsSound' /\ edits' \in [1..Editors -> Edit] /\ Busy' \subseteq Busy \ {a}
<1>1. edits \in [1..Editors -> Edit]
  BY DEF RedirectInv, RedirectTypeOK, Edit
<1>2. NoEdit \in Edit
  BY DEF NoEdit, Edit
<1>3. ASSUME NEW b \in 1..Editors
      PROVE  /\ edits'[b] \in Edit
             /\ b \in Busy' => b \in Busy \ {a}
             /\ edits'[b] # NoEdit => edits'[b].row \in Redirect /\ edits'[b].fresh = FALSE
  <2>1. CASE b = a \/ edits[b] = NoEdit
    BY <1>2, <2>1 DEF Stale, Busy
  <2>2. CASE ~(b = a \/ edits[b] = NoEdit)
    <3>1. PICK e : e = edits[b]
      OBVIOUS
    <3>2. e \in Edit /\ edits'[b] = [e EXCEPT !.fresh = FALSE]
      BY <1>1, <2>2, <3>1 DEF Stale
    <3>3. EditSound(e)
      BY <2>2, <3>1, <3>2 DEF RedirectInv, EditsSound
    <3>4. e.row \in Redirect
      BY <3>3 DEF EditSound
    <3>5. [e EXCEPT !.fresh = FALSE] \in Edit /\ [e EXCEPT !.fresh = FALSE].row = e.row
          /\ [e EXCEPT !.fresh = FALSE].fresh = FALSE
      BY <3>2 DEF Edit
    <3> QED
      BY <2>2, <3>2, <3>4, <3>5 DEF Busy
  <2> QED
    BY <2>1, <2>2
<1>4. EditsSound'
  <2>1. ASSUME NEW b \in 1..Editors, NEW d \in Edit, edits'[b] = d, d # NoEdit PROVE EditSound(d)'
    <3>1. d.row \in Redirect /\ d.fresh = FALSE
      BY <1>3, <2>1
    <3>2. Redirect' = Redirect
      BY DEF Redirect
    <3> QED
      BY <3>1, <3>2 DEF EditSound
  <2>2. Edit' = Edit
    BY DEF Edit, Redirect
  <2> QED
    BY <2>1, <2>2 DEF EditsSound
<1>5. DOMAIN edits' = 1..Editors /\ edits' = [b \in 1..Editors |-> edits'[b]]
  BY DEF Stale
<1>6. Busy' \subseteq 1..Editors
  BY DEF Busy
<1> QED
  BY <1>3, <1>4, <1>5, <1>6

\* The table after a save: the row, once, and the rows with another id.
LEMMA SavedTable ==
  ASSUME TableRows, UniqueIds, NEW row \in Redirect,
         table' = IF ById(row.id) = {} THEN Append(table, row)
                  ELSE [k \in 1..Len(table) |-> IF table[k].id = row.id THEN row ELSE table[k]]
  PROVE  /\ TableRows'
         /\ \A j \in DOMAIN table' : \/ table'[j] = row
                                     \/ j \in DOMAIN table /\ table'[j] = table[j] /\ table[j].id # row.id
         /\ \A j, k \in DOMAIN table' : table'[j].id = row.id /\ table'[k].id = row.id => j = k
         /\ \E j \in DOMAIN table' : table'[j] = row
<1>1. /\ Len(table) \in Nat /\ DOMAIN table = 1..Len(table)
      /\ \A k \in DOMAIN table : table[k] \in Redirect
  BY RowFacts
<1>2. Redirect' = Redirect
  BY DEF Redirect
<1>3. CASE ById(row.id) = {}
  <2>1. /\ Append(table, row) \in Seq(Redirect) /\ Len(Append(table, row)) = Len(table) + 1
        /\ \A k \in 1..Len(table) : Append(table, row)[k] = table[k]
        /\ Append(table, row)[Len(table) + 1] = row
    BY AppendProperties DEF TableRows
  <2>2. table' \in Seq(Redirect) /\ DOMAIN table' = 1..(Len(table) + 1)
    BY <1>1, <1>3, <2>1, LenProperties
  <2>3. \A k \in DOMAIN table : table'[k] = table[k] /\ table[k].id # row.id
    BY <1>1, <1>3, <2>1 DEF ById
  <2>4. table'[Len(table) + 1] = row /\ Len(table) + 1 \in DOMAIN table'
    BY <1>1, <1>3, <2>1, <2>2
  <2>5. \A k \in DOMAIN table' : k = Len(table) + 1 \/ k \in DOMAIN table
    BY <1>1, <2>2
  <2> QED
    BY <1>2, <2>2, <2>3, <2>4, <2>5 DEF TableRows
<1>4. CASE ById(row.id) # {}
  <2> DEFINE new == [k \in 1..Len(table) |-> IF table[k].id = row.id THEN row ELSE table[k]]
  <2>1. table' = new
    BY <1>4
  <2>2. \A k \in 1..Len(table) : new[k] \in Redirect
    BY <1>1
  <2>3. new \in Seq(Redirect) /\ DOMAIN new = 1..Len(table)
    BY <1>1, <2>2, IsASeq
  <2>4. \A k \in DOMAIN table : /\ table[k].id = row.id => new[k] = row
                                /\ table[k].id # row.id => new[k] = table[k]
    BY <1>1
  <2> HIDE DEF new
  <2>5. PICK k \in DOMAIN table : table[k].id = row.id
    BY <1>4 DEF ById
  <2> QED
    BY <1>1, <1>2, <2>1, <2>3, <2>4, <2>5 DEF TableRows, UniqueIds
<1> QED
  BY <1>3, <1>4

LEMMA SaveRedirectInv ==
  ASSUME RedirectInv, NEW a \in 1..Editors, SaveRedirect(a)
  PROVE  RedirectInv'
<1>1. PICK e : e = edits[a]
  OBVIOUS
<1>2. PICK row : row = e.row
  OBVIOUS
<1>3. TableRows /\ UniqueIds /\ e \in Edit /\ e # NoEdit
  BY <1>1, RowsHold DEF SaveRedirect, RedirectInv, RedirectTypeOK, Edit
<1>4. EditSound(e)
  BY <1>1, <1>3 DEF RedirectInv, EditsSound
<1>5. row \in Redirect /\ row.source \in Paths /\ row.target \in Paths
  BY <1>2, <1>4 DEF EditSound, Redirect
<1>6. /\ table' = IF ById(row.id) = {} THEN Append(table, row)
                  ELSE [k \in 1..Len(table) |-> IF table[k].id = row.id THEN row ELSE table[k]]
      /\ edits' = Stale(a) /\ saves' = saves + 1 /\ made' = made
      /\ overtaken' = (overtaken \/ ~e.fresh) /\ moved' = (moved \/ ~e.checked)
  BY <1>1, <1>2 DEF SaveRedirect
<1>7. /\ TableRows'
      /\ \A j \in DOMAIN table' : \/ table'[j] = row
                                  \/ j \in DOMAIN table /\ table'[j] = table[j] /\ table[j].id # row.id
      /\ \A j, k \in DOMAIN table' : table'[j].id = row.id /\ table'[k].id = row.id => j = k
      /\ \E j \in DOMAIN table' : table'[j] = row
  BY <1>3, <1>5, <1>6, SavedTable
<1>8. UniqueIds'
  BY <1>3, <1>7 DEF UniqueIds
<1>9. EditsSound' /\ edits' \in [1..Editors -> Edit] /\ Busy' \subseteq Busy \ {a}
  BY <1>6, StaleInv
<1>10. ASSUME ~overtaken'
       PROVE  ~overtaken /\ e.fresh /\ Alone(e) /\ Sources /\ Sources'
  <2>1. ~overtaken /\ e.fresh
    BY <1>3, <1>6, <1>10 DEF Edit
  <2>2. Alone(e) /\ Sources
    BY <1>4, <2>1 DEF EditSound, RedirectInv, Single
  <2>3. Sources'
    BY <1>2, <1>7, <2>2 DEF Sources, Alone
  <2> QED
    BY <2>1, <2>2, <2>3
<1>11. Single'
  BY <1>10 DEF Single
<1>12. NoCircle'
  <2>1. SUFFICES ASSUME ~overtaken', ~moved' PROVE Descends(Onward)'
    BY DEF NoCircle
  <2>2. PICK f : f = Onward
    OBVIOUS
  <2>3. PICK h : h = Onward'
    OBVIOUS
  <2>4. ~overtaken /\ e.fresh /\ Sources /\ Sources' /\ ~moved /\ e.checked
    BY <1>3, <1>6, <1>10, <2>1 DEF Edit
  <2>5. Descends(f)
    BY <2>2, <2>4 DEF RedirectInv, NoCircle
  <2>6. Leads /\ Leads'
    BY <1>3, <1>7, LeadsHolds, LeadsNext
  <2>7. Places' = Places
    BY DEF Places, NoPath
  <2>8. /\ f \in [Places -> Places] /\ h \in [Places -> Places]
        /\ \A k \in DOMAIN table : f[table[k].source] = table[k].target
        /\ \A k \in DOMAIN table' : h[table'[k].source] = table'[k].target
        /\ \A p \in Paths : h[p] = NoPath
                            \/ \E k \in DOMAIN table' : table'[k].source = p /\ h[p] = table'[k].target
    BY <2>2, <2>3, <2>4, <2>6, <2>7 DEF Leads
  <2>9. h[row.source] = row.target
    BY <1>7, <2>8
  <2>10. ASSUME NEW p \in Paths, p # row.source PROVE h[p] = f[p] \/ h[p] = NoPath
    <3>1. SUFFICES ASSUME NEW k \in DOMAIN table', table'[k].source = p, h[p] = table'[k].target
                   PROVE  h[p] = f[p]
      BY <2>8
    <3>2. k \in DOMAIN table /\ table'[k] = table[k]
      BY <1>7, <2>10, <3>1
    <3> QED
      BY <2>8, <3>1, <3>2
  <2>11. Apart(f, row.source, row.target) \/ Standing(e)
    BY <1>2, <1>4, <2>2, <2>4 DEF EditSound
  <2>12. CASE Apart(f, row.source, row.target)
    <3>1. Descends(h)
      BY <1>5, <2>5, <2>8, <2>9, <2>10, <2>12, NewStep
    <3> QED
      BY <2>3, <2>7, <3>1 DEF Descends
  <2>13. CASE Standing(e)
    <3>1. f[row.source] = row.target
      BY <1>2, <2>8, <2>13 DEF Standing
    <3>2. \A p \in Paths : h[p] = f[p] \/ h[p] = NoPath
      BY <2>9, <2>10, <3>1
    <3>3. Descends(h)
      BY <2>5, <2>8, <3>2, FewerSteps
    <3> QED
      BY <2>3, <2>7, <3>3 DEF Descends
  <2> QED
    BY <2>11, <2>12, <2>13
<1>13. /\ Cardinality(Busy') \in Nat /\ Cardinality(Busy) \in Nat /\ Cardinality(Busy') <= Cardinality(Busy) - 1
  <2>1. Busy \in SUBSET (1..Editors) /\ Busy' \in SUBSET (1..Editors) /\ a \in Busy
    BY <1>1, <1>3 DEF Busy
  <2>2. IsFiniteSet(Busy) /\ Cardinality(Busy) \in Nat /\ Cardinality(Busy') \in Nat
    BY <2>1, BusyFinite
  <2>3. IsFiniteSet(Busy \ {a}) /\ Cardinality(Busy \ {a}) = Cardinality(Busy) - 1
    BY <2>1, <2>2, FS_RemoveElement
  <2>4. Cardinality(Busy') <= Cardinality(Busy \ {a})
    BY <1>9, <2>3, FS_Subset
  <2> QED
    BY <2>2, <2>3, <2>4
<1>14. WritesBound' /\ saves' \in 0..MaxSaves
  <2>1. saves + Cardinality(Busy) <= MaxSaves /\ saves \in Nat /\ MaxSaves \in Nat
    BY RedirectAssumption DEF RedirectInv, WritesBound, RedirectTypeOK
  <2> QED
    BY <1>6, <1>13, <2>1 DEF WritesBound
<1>15. overtaken' \in BOOLEAN /\ moved' \in BOOLEAN /\ made' \in 0..MaxRows
  BY <1>6 DEF RedirectInv, RedirectTypeOK
<1>16. RedirectTypeOK'
  BY <1>7, <1>9, <1>14, <1>15 DEF RedirectTypeOK, TableRows, Edit
<1> QED
  BY <1>8, <1>9, <1>11, <1>12, <1>14, <1>16 DEF RedirectInv

LEMMA DeleteRedirectInv ==
  ASSUME RedirectInv, NEW a \in 1..Editors, NEW i \in 1..MaxRows, DeleteRedirect(a, i)
  PROVE  RedirectInv'
<1>1. PICK k \in ById(i) : table' = SubSeq(table, 1, k - 1) \o SubSeq(table, k + 1, Len(table))
  BY DEF DeleteRedirect
<1>2. /\ Free(a) /\ edits' = Stale(a) /\ saves' = saves + 1
      /\ made' = made /\ overtaken' = overtaken /\ moved' = moved
  BY DEF DeleteRedirect
<1>3. TableRows /\ UniqueIds
  BY RowsHold DEF RedirectInv
<1>4. Len(table) \in Nat /\ DOMAIN table = 1..Len(table) /\ k \in 1..Len(table) /\ Redirect' = Redirect
  BY <1>3, RowFacts DEF ById, Redirect
<1>5. TableRows' /\ \E m \in [DOMAIN table' -> DOMAIN table] :
        /\ \A j \in DOMAIN table' : table'[j] = table[m[j]]
        /\ \A j, l \in DOMAIN table' : m[j] = m[l] => j = l
  <2> DEFINE left == SubSeq(table, 1, k - 1)
             right == SubSeq(table, k + 1, Len(table))
  <2>1. /\ left \in Seq(Redirect) /\ Len(left) = k - 1
        /\ \A j \in 1..(k - 1) : left[j] = table[j]
    BY <1>3, <1>4, SubSeqProperties DEF TableRows
  <2>2. /\ right \in Seq(Redirect) /\ Len(right) = Len(table) - k
        /\ \A j \in 1..(Len(table) - k) : right[j] = table[k + j]
    <3>1. /\ k + 1 \in Int /\ Len(table) \in Int /\ Len(table) - (k + 1) + 1 = Len(table) - k
          /\ (IF k + 1 <= Len(table) THEN Len(table) - (k + 1) + 1 ELSE 0) = Len(table) - k
          /\ \A j \in (k + 1)..Len(table) : table[j] \in Redirect
      BY <1>3, <1>4, RowFacts
    <3>2. /\ right \in Seq(Redirect)
          /\ Len(right) = IF k + 1 <= Len(table) THEN Len(table) - (k + 1) + 1 ELSE 0
          /\ \A j \in 1..(Len(table) - (k + 1) + 1) : right[j] = table[(k + 1) + j - 1]
      BY <3>1, SubSeqProperties
    <3> HIDE DEF right
    <3>3. ASSUME NEW j \in 1..(Len(table) - k) PROVE right[j] = table[k + j]
      <4>1. j \in 1..(Len(table) - (k + 1) + 1)
        BY <3>1, <3>3
      <4>2. (k + 1) + j - 1 = k + j
        BY <1>4
      <4>3. right[j] = table[(k + 1) + j - 1]
        BY <3>2, <4>1
      <4> QED
        BY <4>2, <4>3
    <3> QED
      BY <3>1, <3>2, <3>3
  <2> HIDE DEF left, right
  <2>3. /\ left \o right \in Seq(Redirect) /\ Len(left \o right) = Len(table) - 1
        /\ \A j \in 1..(Len(table) - 1) : (left \o right)[j] = table[IF j < k THEN j ELSE j + 1]
    <3>1. /\ left \o right \in Seq(Redirect) /\ Len(left \o right) = Len(left) + Len(right)
          /\ \A j \in 1..(Len(left) + Len(right)) :
               (left \o right)[j] = IF j <= Len(left) THEN left[j] ELSE right[j - Len(left)]
      BY <2>1, <2>2, ConcatProperties
    <3>2. Len(left) + Len(right) = Len(table) - 1
      BY <1>4, <2>1, <2>2
    <3>3. ASSUME NEW j \in 1..(Len(table) - 1)
          PROVE  (left \o right)[j] = table[IF j < k THEN j ELSE j + 1]
      <4>1. (left \o right)[j] = IF j <= Len(left) THEN left[j] ELSE right[j - Len(left)]
        BY <3>1, <3>2, <3>3
      <4>2. CASE j < k
        <5>1. j \in 1..(k - 1) /\ j <= Len(left)
          BY <1>4, <2>1, <4>2
        <5> QED
          BY <2>1, <4>1, <4>2, <5>1
      <4>3. CASE ~(j < k)
        <5>1. /\ j - (k - 1) \in 1..(Len(table) - k) /\ ~(j <= Len(left))
              /\ k + (j - (k - 1)) = j + 1
          BY <1>4, <2>1, <4>3
        <5> QED
          BY <2>1, <2>2, <4>1, <4>3, <5>1
      <4> QED
        BY <4>2, <4>3
    <3> QED
      BY <3>1, <3>2, <3>3
  <2>4. table' = left \o right
    BY <1>1 DEF left, right
  <2>5. table' \in Seq(Redirect) /\ DOMAIN table' = 1..(Len(table) - 1)
        /\ \A j \in 1..(Len(table) - 1) : table'[j] = table[IF j < k THEN j ELSE j + 1]
    BY <1>4, <2>3, <2>4, LenProperties
  <2> DEFINE m == [j \in DOMAIN table' |-> IF j < k THEN j ELSE j + 1]
  <2>6. m \in [DOMAIN table' -> DOMAIN table] /\ \A j, l \in DOMAIN table' : m[j] = m[l] => j = l
    BY <1>4, <2>5
  <2>7. \A j \in DOMAIN table' : table'[j] = table[m[j]]
    BY <2>5
  <2> HIDE DEF m
  <2> QED
    BY <1>4, <2>5, <2>6, <2>7 DEF TableRows
<1>6. PICK m \in [DOMAIN table' -> DOMAIN table] :
        /\ \A j \in DOMAIN table' : table'[j] = table[m[j]]
        /\ \A j, l \in DOMAIN table' : m[j] = m[l] => j = l
  BY <1>5
<1>7. \A j \in DOMAIN table' : m[j] \in DOMAIN table
  BY <1>6
<1>8. UniqueIds'
  BY <1>3, <1>6, <1>7 DEF UniqueIds
<1>9. Sources => Sources'
  BY <1>6, <1>7 DEF Sources
<1>10. Single'
  BY <1>2, <1>9 DEF RedirectInv, Single
<1>11. NoCircle'
  <2>1. SUFFICES ASSUME ~overtaken', ~moved' PROVE Descends(Onward)'
    BY DEF NoCircle
  <2>2. PICK f : f = Onward
    OBVIOUS
  <2>3. PICK h : h = Onward'
    OBVIOUS
  <2>4. Sources /\ Sources' /\ Descends(f)
    BY <1>2, <1>9, <2>1, <2>2 DEF RedirectInv, Single, NoCircle
  <2>6. Leads /\ Leads'
    BY <1>3, <1>5, LeadsHolds, LeadsNext
  <2>7. Places' = Places
    BY DEF Places, NoPath
  <2>8. /\ f \in [Places -> Places] /\ h \in [Places -> Places]
        /\ \A l \in DOMAIN table : f[table[l].source] = table[l].target
        /\ \A p \in Paths : h[p] = NoPath
                            \/ \E l \in DOMAIN table' : table'[l].source = p /\ h[p] = table'[l].target
    BY <2>2, <2>3, <2>4, <2>6, <2>7 DEF Leads
  <2>9. \A p \in Paths : h[p] = f[p] \/ h[p] = NoPath
    BY <1>6, <1>7, <2>8
  <2>10. Descends(h)
    BY <2>4, <2>8, <2>9, FewerSteps
  <2> QED
    BY <2>3, <2>7, <2>10 DEF Descends
<1>12. EditsSound' /\ edits' \in [1..Editors -> Edit] /\ Busy' \subseteq Busy \ {a}
  BY <1>2, StaleInv
<1>13. WritesBound' /\ saves' \in 0..MaxSaves
  <2>1. saves + Cardinality(Busy) < MaxSaves /\ saves \in Nat /\ MaxSaves \in Nat
    BY <1>2, RedirectAssumption DEF RedirectInv, Free, RedirectTypeOK
  <2>2. Busy \in SUBSET (1..Editors) /\ Busy' \in SUBSET (1..Editors) /\ Busy' \subseteq Busy
    BY <1>12 DEF Busy
  <2>3. Cardinality(Busy') \in Nat /\ Cardinality(Busy) \in Nat /\ Cardinality(Busy') <= Cardinality(Busy)
    BY <2>2, BusyFinite, FS_Subset
  <2> QED
    BY <1>2, <2>1, <2>3 DEF WritesBound
<1>14. RedirectTypeOK'
  BY <1>2, <1>5, <1>12, <1>13 DEF RedirectInv, RedirectTypeOK, TableRows, Edit
<1> QED
  BY <1>8, <1>10, <1>11, <1>12, <1>13, <1>14 DEF RedirectInv

LEMMA RedirectNextInv == RedirectInv /\ [RedirectNext]_redirectVars => RedirectInv'
<1> SUFFICES ASSUME RedirectInv, [RedirectNext]_redirectVars PROVE RedirectInv'
  OBVIOUS
<1>1. CASE UNCHANGED redirectVars
  <2>1. UNCHANGED <<table, edits, made, saves, overtaken, moved>>
    BY <1>1 DEF redirectVars
  <2>2. UniqueIds' /\ Single' /\ NoCircle' /\ \A e : EditSound(e) => EditSound(e)'
    BY <2>1, TableKept
  <2>3. RedirectTypeOK' /\ WritesBound'
    BY <2>1 DEF RedirectInv, RedirectTypeOK, WritesBound, Busy
  <2>4. EditsSound'
    <3>1. Edit' = Edit
      BY DEF Edit, Redirect
    <3> QED
      BY <2>1, <2>2, <3>1 DEF RedirectInv, EditsSound
  <2> QED
    BY <2>2, <2>3, <2>4 DEF RedirectInv
<1>2. CASE RedirectNext
  <2>1. PICK a \in 1..Editors :
          \/ \E s, g \in Paths : CreateRedirect(a, s, g)
          \/ \E i \in 1..MaxRows, fields \in SUBSET Fields, s, g \in Paths :
                UpdateRedirect(a, i, fields, s, g)
          \/ SaveRedirect(a)
          \/ \E i \in 1..MaxRows : DeleteRedirect(a, i)
    BY <1>2 DEF RedirectNext
  <2> QED
    BY <2>1, CreateRedirectInv, UpdateRedirectInv, SaveRedirectInv, DeleteRedirectInv
<1> QED
  BY <1>1, <1>2

(* However many requests create, change and remove redirects side by side, as long as no  *)
(* save is overtaken by another: a source path has one redirect; and if no source is moved *)
(* without its target being checked again, a visitor who follows every answer of           *)
(* RedirectService.resolve arrives at a page.  A circle the audit can reach is reported    *)
(* however it came about.                                                                  *)
THEOREM RedirectsTheorem == RedirectSpec => [](RedirectTypeOK /\ RedirectsSafe)
<1>1. RedirectInv => RedirectTypeOK /\ RedirectsSafe
  BY RedirectInvSafe DEF RedirectInv
<1> QED
  BY <1>1, RedirectInitInv, RedirectNextInv, PTL DEF RedirectSpec

-----------------------------------------------------------------------------
(***************************************************************************)
(* Visits: any finite sets of pages and of days, any times and scroll      *)
(* depths, any number of sessions, any life of a key.                      *)
(***************************************************************************)
\* The rows a session may be stored in, the counts they hold, and those of a page and day.
RowKeys == Pages \X Days \X TimeBuckets \X ScrollBuckets
Count == [k \in DOMAIN engagements |-> engagements[k].count]
OfDay(x) == {k \in DOMAIN engagements : k[1] = x[1] /\ k[2] = x[2]}

\* A row knows from its buckets whether its sessions were engaged.
RowInv ==
  /\ IsFiniteSet(DOMAIN engagements) /\ DOMAIN engagements \subseteq RowKeys
  /\ engagements \in [DOMAIN engagements -> [count : Nat \ {0}, engaged : BOOLEAN]]
  /\ \A k \in DOMAIN engagements : engagements[k].engaged <=> k[3] >= 30 /\ k[4] >= 25

\* The rows of a page and day hold what was measured there.
MeasuredInv ==
  /\ measured \in [Pages \X Days -> [all : Nat, engaged : Nat]]
  /\ \A x \in Pages \X Days : /\ measured[x].all = Total(Count, OfDay(x))
                              /\ measured[x].engaged = Total(Count, EngagedOf(OfDay(x)))

\* A key in the cache was reported, and one that is gone had expired.
ReportedInv ==
  /\ second \in 0 .. MaxSecond
  /\ reported \in [EventKeys \X (0 .. MaxSecond) -> Int] /\ entries \in [EventKeys \X (0 .. MaxSecond) -> Int]
  /\ \A k \in EventKeys \X (0 .. MaxSecond) :
       IF reported[k] = -1 THEN entries[k] = -1
       ELSE /\ reported[k] \in 0 .. second
            /\ entries[k] = reported[k] + TTL \/ (entries[k] = -1 /\ second > reported[k] + TTL)

VisitsInv == RowInv /\ MeasuredInv /\ ReportedInv

LEMMA VisitConstants ==
  /\ IsFiniteSet(Pages) /\ IsFiniteSet(Days) /\ Days \subseteq Int
  /\ TopLimit \in Nat \ {0} /\ TTL \in Nat \ {0} /\ MaxSecond \in Nat
BY VisitAssumption

\* One more in a row that may be new.
LEMMA TotalMore ==
  ASSUME NEW S, IsFiniteSet(S), NEW f, \A y \in S : f[y] \in Nat, NEW x, NEW g,
         g[x] = (IF x \in S THEN f[x] ELSE 0) + 1, \A y \in S : y # x => g[y] = f[y]
  PROVE  Total(g, S \cup {x}) = Total(f, S) + 1
<1>1. Numeric(f, S) /\ Numeric(g, S \cup {x})
  BY DEF Numeric
<1>2. CASE x \in S
  <2>1. S \cup {x} = S
    BY <1>2
  <2>2. Total(g, S) = Total(f, S) + (g[x] - f[x])
    <3>1. Numeric(f, S) /\ Numeric(g, S)
      BY <1>1, <2>1
    <3> QED
      BY <1>2, <3>1, TotalChange
  <2>3. Total(f, S) \in Int /\ f[x] \in Nat
    BY <1>1, <1>2, TotalInt
  <2>4. g[x] = f[x] + 1
    BY <1>2
  <2> QED
    BY <2>1, <2>2, <2>3, <2>4
<1>3. CASE x \notin S
  <2>1. Total(g, S \cup {x}) = g[x] + Total(g, S)
    BY <1>1, <1>3, TotalAdd
  <2>2. \A y \in S : f[y] = g[y]
    BY <1>3
  <2>3. Total(f, S) = Total(g, S) /\ Total(f, S) \in Int
    BY <1>1, <2>2, TotalSame, TotalInt
  <2>4. g[x] = 1
    BY <1>3
  <2> QED
    BY <2>1, <2>3, <2>4
<1> QED
  BY <1>2, <1>3

LEMMA BucketFacts ==
  ASSUME NEW ladder, ladder \in {TimeBuckets, ScrollBuckets}, NEW x \in Nat
  PROVE  /\ BucketOf(x, ladder) \in ladder
         /\ \A b \in ladder : BucketOf(x, ladder) >= b <=> x >= b
<1> DEFINE B == {b \in ladder : b <= x}
<1>1. ladder \subseteq Nat /\ 0 \in B /\ IsFiniteSet(B) /\ B \subseteq Int
  <2>1. ladder \subseteq Nat /\ 0 \in B
    BY DEF TimeBuckets, ScrollBuckets
  <2>2. B \subseteq 0 .. x
    <3>1. \A b \in B : b \in Nat /\ b <= x
      BY <2>1
    <3> HIDE DEF B
    <3> QED
      BY <3>1
  <2>3. IsFiniteSet(0 .. x)
    BY FS_Interval
  <2> QED
    BY <2>1, <2>2, <2>3, FS_Subset
<1>2. \E m \in B : \A b \in B : m >= b
  <2>1. CASE ladder = ScrollBuckets
    <3>1. CASE x >= 75
      BY <2>1, <3>1 DEF ScrollBuckets
    <3>2. CASE x < 75 /\ x >= 50
      BY <2>1, <3>2 DEF ScrollBuckets
    <3>3. CASE x < 50 /\ x >= 25
      BY <2>1, <3>3 DEF ScrollBuckets
    <3>4. CASE x < 25
      BY <2>1, <3>4 DEF ScrollBuckets
    <3> QED
      BY <3>1, <3>2, <3>3, <3>4
  <2>2. CASE ladder = TimeBuckets
    <3>1. CASE x >= 300
      BY <2>2, <3>1 DEF TimeBuckets
    <3>2. CASE x < 300 /\ x >= 120
      BY <2>2, <3>2 DEF TimeBuckets
    <3>3. CASE x < 120 /\ x >= 60
      BY <2>2, <3>3 DEF TimeBuckets
    <3>4. CASE x < 60 /\ x >= 30
      BY <2>2, <3>4 DEF TimeBuckets
    <3>5. CASE x < 30 /\ x >= 10
      BY <2>2, <3>5 DEF TimeBuckets
    <3>6. CASE x < 10
      BY <2>2, <3>6 DEF TimeBuckets
    <3> QED
      BY <3>1, <3>2, <3>3, <3>4, <3>5, <3>6
  <2> QED
    BY <2>1, <2>2
<1> DEFINE m == BucketOf(x, ladder)
<1>3. m = CHOOSE n \in B : \A b \in B : n >= b
  BY DEF BucketOf, Max
<1> HIDE DEF m
<1>4. m \in B /\ \A b \in B : m >= b
  BY <1>2, <1>3
<1>5. m \in ladder /\ m \in Nat /\ m <= x
  BY <1>1, <1>4
<1>6. ASSUME NEW b \in ladder PROVE m >= b <=> x >= b
  <2>1. b \in Nat /\ (b <= x => m >= b)
    BY <1>1, <1>4
  <2> QED
    BY <1>5, <2>1
<1> QED
  BY <1>5, <1>6 DEF m

LEMMA StoredFacts ==
  ASSUME RowInv, NEW row \in RowKeys, NEW engaged \in BOOLEAN,
         engaged <=> row[3] >= 30 /\ row[4] >= 25, engagements' = Stored(row, engaged)
  PROVE  /\ RowInv' /\ DOMAIN engagements' = DOMAIN engagements \cup {row}
         /\ engagements'[row].engaged = engaged
         /\ engagements'[row].count = (IF row \in DOMAIN engagements THEN engagements[row].count ELSE 0) + 1
         /\ \A k \in DOMAIN engagements : engagements'[k].engaged = engagements[k].engaged
         /\ \A k \in DOMAIN engagements : k # row => engagements'[k] = engagements[k]
<1>t. engagements \in [DOMAIN engagements -> [count : Nat \ {0}, engaged : BOOLEAN]]
  BY DEF RowInv
<1>1. /\ DOMAIN engagements' = DOMAIN engagements \cup {row}
      /\ row \notin DOMAIN engagements => engagements'[row] = [count |-> 1, engaged |-> engaged]
      /\ row \in DOMAIN engagements => engagements'[row] = [engagements[row] EXCEPT !.count = @ + 1]
      /\ \A k \in DOMAIN engagements : k # row => engagements'[k] = engagements[k]
      /\ engagements' = [k \in DOMAIN engagements' |-> engagements'[k]]
  BY DEF Stored
<1>2. CASE row \in DOMAIN engagements
  <2>1. /\ engagements'[row].count = engagements[row].count + 1
        /\ engagements'[row].engaged = engagements[row].engaged
        /\ engagements'[row] \in [count : Nat \ {0}, engaged : BOOLEAN]
    <3>1. engagements[row] \in [count : Nat \ {0}, engaged : BOOLEAN]
      BY <1>t, <1>2
    <3> QED
      BY <1>1, <1>2, <3>1
  <2>2. engagements[row].engaged = engaged
    BY <1>2, <1>t DEF RowInv
  <2>3. RowInv'
    <3>1. DOMAIN engagements' = DOMAIN engagements
      BY <1>1, <1>2
    <3> QED
      BY <1>t, <1>1, <2>1, <2>2, <3>1 DEF RowInv
  <2> QED
    BY <1>1, <1>2, <2>1, <2>2, <2>3
<1>3. CASE row \notin DOMAIN engagements
  <2>1. engagements'[row] = [count |-> 1, engaged |-> engaged]
    BY <1>1, <1>3
  <2>2. engagements'[row].count = 1 /\ engagements'[row].engaged = engaged
        /\ engagements'[row] \in [count : Nat \ {0}, engaged : BOOLEAN]
    BY <2>1
  <2>3. IsFiniteSet(DOMAIN engagements')
    BY <1>1, FS_AddElement DEF RowInv
  <2>4. RowInv'
    <3>1. \A k \in DOMAIN engagements' : k = row \/ (k \in DOMAIN engagements /\ engagements'[k] = engagements[k])
      BY <1>1, <1>3
    <3>2. engagements' \in [DOMAIN engagements' -> [count : Nat \ {0}, engaged : BOOLEAN]]
      BY <1>t, <1>1, <2>2, <3>1
    <3>3. \A k \in DOMAIN engagements' : engagements'[k].engaged <=> k[3] >= 30 /\ k[4] >= 25
      BY <2>2, <3>1 DEF RowInv
    <3>4. DOMAIN engagements' \subseteq RowKeys
      BY <1>1 DEF RowInv
    <3>5. RowKeys' = RowKeys
      BY DEF RowKeys, TimeBuckets, ScrollBuckets
    <3> QED
      BY <2>3, <3>2, <3>3, <3>4, <3>5 DEF RowInv
  <2> QED
    BY <1>1, <1>3, <2>2, <2>4
<1> QED
  BY <1>2, <1>3
LEMMA EngageKeeps == RowInv /\ MeasuredInv /\ Engage => RowInv' /\ MeasuredInv'
<1> SUFFICES ASSUME RowInv, MeasuredInv, Engage PROVE RowInv' /\ MeasuredInv'
  OBVIOUS
<1>1. PICK page \in Pages, date \in Days, s \in Seconds, p \in Percents :
        /\ Plausible(s, p)
        /\ engagements' = Stored(<<page, date, BucketOf(s, TimeBuckets), BucketOf(p, ScrollBuckets)>>, Engaged(s, p))
        /\ measured' = [measured EXCEPT ![<<page, date>>] =
             [all |-> @.all + 1, engaged |-> IF Engaged(s, p) THEN @.engaged + 1 ELSE @.engaged]]
  BY DEF Engage
<1> DEFINE row == <<page, date, BucketOf(s, TimeBuckets), BucketOf(p, ScrollBuckets)>>
           engaged == Engaged(s, p)
           at == <<page, date>>
<1>2. s \in Nat /\ p \in Nat
  BY <1>1 DEF Plausible
<1>3. /\ BucketOf(s, TimeBuckets) \in TimeBuckets /\ BucketOf(p, ScrollBuckets) \in ScrollBuckets
      /\ BucketOf(s, TimeBuckets) >= 30 <=> s >= 30
      /\ BucketOf(p, ScrollBuckets) >= 25 <=> p >= 25
  <2>1. 30 \in TimeBuckets /\ 25 \in ScrollBuckets
    BY DEF TimeBuckets, ScrollBuckets
  <2> QED
    BY <1>2, <2>1, BucketFacts
<1>4. /\ row \in RowKeys /\ row[1] = at[1] /\ row[2] = at[2] /\ at \in Pages \X Days
      /\ engaged \in BOOLEAN /\ (engaged <=> row[3] >= 30 /\ row[4] >= 25)
      /\ \A x \in Pages \X Days : x[1] = row[1] /\ x[2] = row[2] => x = at
  BY <1>3 DEF RowKeys, Engaged
<1>5. engagements' = Stored(row, engaged)
  BY <1>1
<1>m. measured' = [measured EXCEPT ![at] =
        [all |-> @.all + 1, engaged |-> IF engaged THEN @.engaged + 1 ELSE @.engaged]]
  BY <1>1
<1> HIDE DEF row, engaged, at
<1>6. /\ RowInv' /\ DOMAIN engagements' = DOMAIN engagements \cup {row}
      /\ engagements'[row].engaged = engaged
      /\ engagements'[row].count = (IF row \in DOMAIN engagements THEN engagements[row].count ELSE 0) + 1
      /\ \A k \in DOMAIN engagements : engagements'[k].engaged = engagements[k].engaged
      /\ \A k \in DOMAIN engagements : k # row => engagements'[k] = engagements[k]
  BY <1>4, <1>5, StoredFacts
<1>7. /\ \A k \in DOMAIN engagements : Count[k] \in Nat /\ (k # row => Count'[k] = Count[k])
      /\ Count'[row] = (IF row \in DOMAIN engagements THEN Count[row] ELSE 0) + 1
  BY <1>6 DEF Count, RowInv
<1>8. ASSUME NEW S \in SUBSET DOMAIN engagements, row \in DOMAIN engagements => row \in S
      PROVE  Total(Count', S \cup {row}) = Total(Count, S) + 1
  <2>1. IsFiniteSet(S) /\ \A k \in S : Count[k] \in Nat /\ (k # row => Count'[k] = Count[k])
    BY <1>7, FS_Subset DEF RowInv
  <2>2. Count'[row] = (IF row \in S THEN Count[row] ELSE 0) + 1
    BY <1>7, <1>8
  <2> HIDE DEF Count
  <2> DEFINE f == Count
             g == Count'
  <2>3. /\ \A k \in S : f[k] \in Nat /\ (k # row => g[k] = f[k])
        /\ g[row] = (IF row \in S THEN f[row] ELSE 0) + 1
    BY <2>1, <2>2
  <2> HIDE DEF f, g
  <2>4. Total(g, S \cup {row}) = Total(f, S) + 1
    BY <2>1, <2>3, TotalMore
  <2> QED
    BY <2>4 DEF f, g
<1>9. ASSUME NEW S \in SUBSET DOMAIN engagements, row \notin S
      PROVE  Total(Count', S) = Total(Count, S)
  <2> DEFINE f == Count
             g == Count'
  <2>1. IsFiniteSet(S) /\ \A k \in S : f[k] \in Nat /\ f[k] = g[k]
    BY <1>7, <1>9, FS_Subset DEF RowInv
  <2> HIDE DEF f, g
  <2>2. Numeric(f, S)
    BY <2>1 DEF Numeric
  <2>3. Total(f, S) = Total(g, S)
    BY <2>1, <2>2, TotalSame
  <2> QED
    BY <2>3 DEF f, g
<1>t. measured[at] \in [all : Nat, engaged : Nat] /\ DOMAIN measured = Pages \X Days
  BY <1>4 DEF MeasuredInv
<1>10. /\ measured' \in [Pages \X Days -> [all : Nat, engaged : Nat]]
       /\ measured'[at].all = measured[at].all + 1
       /\ measured'[at].engaged = IF engaged THEN measured[at].engaged + 1 ELSE measured[at].engaged
       /\ \A x \in Pages \X Days : x # at => measured'[x] = measured[x]
  <2> DEFINE new == [all |-> measured[at].all + 1,
                     engaged |-> IF engaged THEN measured[at].engaged + 1 ELSE measured[at].engaged]
  <2>1. new \in [all : Nat, engaged : Nat] /\ new.all = measured[at].all + 1
        /\ new.engaged = IF engaged THEN measured[at].engaged + 1 ELSE measured[at].engaged
    BY <1>t
  <2>2. measured' = [measured EXCEPT ![at] = new]
    BY <1>m
  <2> HIDE DEF new
  <2> QED
    BY <1>4, <2>1, <2>2 DEF MeasuredInv
<1>11. OfDay(at)' = OfDay(at) \cup {row} /\ OfDay(at) \in SUBSET DOMAIN engagements
       /\ (row \in DOMAIN engagements => row \in OfDay(at))
  BY <1>4, <1>6 DEF OfDay
<1>12. \A x \in Pages \X Days : x # at =>
         /\ OfDay(x)' = OfDay(x) /\ OfDay(x) \in SUBSET DOMAIN engagements /\ row \notin OfDay(x)
  BY <1>4, <1>6 DEF OfDay
<1>13. ASSUME NEW x \in Pages \X Days
       PROVE  /\ measured'[x].all = Total(Count, OfDay(x))'
              /\ measured'[x].engaged = Total(Count, EngagedOf(OfDay(x)))'
  <2>0. measured[x].all = Total(Count, OfDay(x)) /\ measured[x].engaged = Total(Count, EngagedOf(OfDay(x)))
    BY DEF MeasuredInv
  <2>1. CASE x # at
    <3>1. EngagedOf(OfDay(x))' = EngagedOf(OfDay(x)) /\ row \notin EngagedOf(OfDay(x))
          /\ EngagedOf(OfDay(x)) \in SUBSET DOMAIN engagements
      BY <1>6, <1>12, <2>1 DEF EngagedOf
    <3>2. Total(Count', OfDay(x)') = Total(Count, OfDay(x))
      BY <1>9, <1>12, <2>1
    <3>3. Total(Count', EngagedOf(OfDay(x))') = Total(Count, EngagedOf(OfDay(x)))
      BY <1>9, <3>1
    <3> QED
      BY <1>10, <2>0, <2>1, <3>2, <3>3
  <2>2. CASE x = at
    <3>1. Total(Count', OfDay(at)') = Total(Count, OfDay(at)) + 1
      BY <1>8, <1>11
    <3>2. CASE engaged
      <4>1. /\ EngagedOf(OfDay(at))' = EngagedOf(OfDay(at)) \cup {row}
            /\ EngagedOf(OfDay(at)) \in SUBSET DOMAIN engagements
            /\ (row \in DOMAIN engagements => row \in EngagedOf(OfDay(at)))
        BY <1>6, <1>11, <3>2 DEF EngagedOf
      <4>2. Total(Count', EngagedOf(OfDay(at))') = Total(Count, EngagedOf(OfDay(at))) + 1
        BY <1>8, <4>1
      <4> QED
        BY <1>10, <2>0, <2>2, <3>1, <3>2, <4>2
    <3>3. CASE ~engaged
      <4>1. /\ EngagedOf(OfDay(at))' = EngagedOf(OfDay(at)) /\ row \notin EngagedOf(OfDay(at))
            /\ EngagedOf(OfDay(at)) \in SUBSET DOMAIN engagements
        BY <1>6, <1>11, <3>3 DEF EngagedOf
      <4>2. Total(Count', EngagedOf(OfDay(at))') = Total(Count, EngagedOf(OfDay(at)))
        BY <1>9, <4>1
      <4> QED
        BY <1>10, <2>0, <2>2, <3>1, <3>3, <4>2
    <3> QED
      BY <3>2, <3>3
  <2> QED
    BY <2>1, <2>2
<1>14. MeasuredInv'
  BY <1>10, <1>13 DEF MeasuredInv
<1> QED
  BY <1>6, <1>14

LEMMA VisitsBegin == VisitInit => VisitsInv
<1> SUFFICES ASSUME VisitInit PROVE VisitsInv
  OBVIOUS
<1>1. DOMAIN engagements = {} /\ IsFiniteSet({})
  BY FS_EmptySet DEF VisitInit
<1>2. RowInv
  <2>1. engagements = [k \in DOMAIN engagements |-> engagements[k]]
    BY DEF VisitInit
  <2> QED
    BY <1>1, <2>1 DEF RowInv
<1>3. MeasuredInv
  <2>1. ASSUME NEW x \in Pages \X Days
        PROVE  /\ measured[x] = [all |-> 0, engaged |-> 0]
               /\ Total(Count, OfDay(x)) = 0 /\ Total(Count, EngagedOf(OfDay(x))) = 0
    <3>1. OfDay(x) = {} /\ EngagedOf(OfDay(x)) = {}
      BY <1>1 DEF OfDay, EngagedOf
    <3> QED
      BY <3>1, TotalEmpty DEF VisitInit
  <2>2. measured \in [Pages \X Days -> [all : Nat, engaged : Nat]]
    BY DEF VisitInit
  <2> QED
    BY <2>1, <2>2 DEF MeasuredInv
<1>4. ReportedInv
  BY VisitConstants DEF VisitInit, ReportedInv
<1> QED
  BY <1>2, <1>3, <1>4 DEF VisitsInv

LEMMA DedupeKeeps ==
  ReportedInv /\ DedupeNext =>
    /\ ReportedInv'
    /\ \A k \in DOMAIN reported :
         reported'[k] # reported[k] /\ reported[k] # -1 => reported'[k] > reported[k] + TTL
<1> SUFFICES ASSUME ReportedInv, DedupeNext
             PROVE  /\ ReportedInv'
                    /\ \A k \in DOMAIN reported :
                         reported'[k] # reported[k] /\ reported[k] # -1 => reported'[k] > reported[k] + TTL
  OBVIOUS
<1> DEFINE Cached == EventKeys \X (0 .. MaxSecond)
<1>t. second \in Nat /\ TTL \in Nat \ {0} /\ MaxSecond \in Nat /\ DOMAIN reported = Cached
  BY VisitConstants DEF ReportedInv
<1>1. CASE CheckAndRecord
  <2>1. PICK event \in EventKeys, timestamp \in 0 .. MaxSecond :
          /\ ~RecentKey(KeyOf(event, timestamp))
          /\ entries' = [entries EXCEPT ![KeyOf(event, timestamp)] = second + TTL]
          /\ reported' = [reported EXCEPT ![KeyOf(event, timestamp)] = second]
          /\ second' = second
    BY <1>1 DEF CheckAndRecord
  <2> DEFINE key == KeyOf(event, timestamp)
  <2>2. key \in Cached
    <3>1. timestamp % TTL \in 0 .. TTL - 1 /\ timestamp % TTL <= timestamp
      <4>1. /\ timestamp \div TTL \in Nat /\ timestamp % TTL \in 0 .. (TTL - 1)
            /\ timestamp = TTL * (timestamp \div TTL) + (timestamp % TTL)
        BY <1>t, DivRest
      <4>2. TTL * (timestamp \div TTL) \in Nat
        BY <1>t, <4>1
      <4> QED
        BY <1>t, <4>1, <4>2
    <3>2. timestamp - (timestamp % TTL) \in 0 .. MaxSecond
      BY <1>t, <3>1
    <3> QED
      BY <3>2 DEF KeyOf
  <2> HIDE DEF key
  <2>3. /\ entries[key] # -1 => second > entries[key]
        /\ entries' = [entries EXCEPT ![key] = second + TTL] /\ reported' = [reported EXCEPT ![key] = second]
    <3>1. ~RecentKey(key) /\ entries[key] \in Int
      BY <2>1, <2>2 DEF key, ReportedInv
    <3>2. entries' = [entries EXCEPT ![key] = second + TTL] /\ reported' = [reported EXCEPT ![key] = second]
      BY <2>1 DEF key
    <3> QED
      BY <1>t, <3>1, <3>2 DEF RecentKey
  <2>4. /\ entries' \in [Cached -> Int] /\ reported' \in [Cached -> Int]
        /\ entries'[key] = second + TTL /\ reported'[key] = second
        /\ \A k \in Cached : k # key => entries'[k] = entries[k] /\ reported'[k] = reported[k]
    BY <1>t, <2>2, <2>3 DEF ReportedInv
  <2>5. ReportedInv'
    BY <1>t, <2>1, <2>4 DEF ReportedInv
  <2>6. reported[key] # -1 => second > reported[key] + TTL
    BY <1>t, <2>2, <2>3 DEF ReportedInv
  <2> QED
    BY <1>t, <2>4, <2>5, <2>6
<1>2. CASE Cleanup
  <2>1. /\ \A k \in Cached : entries'[k] = IF second <= entries[k] THEN entries[k] ELSE -1
        /\ entries' \in [Cached -> Int] /\ reported' = reported /\ second' = second
    BY <1>2 DEF Cleanup, ReportedInv
  <2>2. ReportedInv'
    BY <1>t, <2>1 DEF ReportedInv
  <2> QED
    BY <2>1, <2>2
<1>3. CASE NextSecond
  <2>1. second' = second + 1 /\ second < MaxSecond /\ entries' = entries /\ reported' = reported
    BY <1>3 DEF NextSecond
  <2>2. ReportedInv'
    BY <1>t, <2>1 DEF ReportedInv
  <2> QED
    BY <2>1, <2>2
<1> QED
  BY <1>1, <1>2, <1>3 DEF DedupeNext

(* What the queries answer. *)

LEMMA SumIsTotal == \A f, S : SumOf(f, S) = Total(f, S)
BY DEF SumOf, Total

LEMMA CountedRows ==
  ASSUME RowInv, NEW S \in SUBSET DOMAIN engagements
  PROVE  /\ IsFiniteSet(S) /\ (\A k \in S : Count[k] \in Nat) /\ Numeric(Count, S)
         /\ SumOfRows(S) = Total(Count, S) /\ Total(Count, S) \in Nat
         /\ EngagedOf(S) \in SUBSET S /\ EngagedOf(EngagedOf(S)) = EngagedOf(S)
         /\ Total(Count, EngagedOf(S)) \in Nat /\ Total(Count, EngagedOf(S)) <= Total(Count, S)
<1>1. IsFiniteSet(S) /\ (\A k \in S : Count[k] \in Nat)
  BY FS_Subset DEF RowInv, Count
<1>2. SumOfRows(S) = Total(Count, S)
  BY SumIsTotal DEF SumOfRows, Count
<1>3. EngagedOf(S) \in SUBSET S /\ EngagedOf(EngagedOf(S)) = EngagedOf(S)
  BY DEF EngagedOf
<1> HIDE DEF Count
<1>4. /\ Total(Count, EngagedOf(S)) <= Total(Count, S)
      /\ Total(Count, EngagedOf(S)) \in Nat /\ Total(Count, S) \in Nat
  BY <1>1, <1>3, TotalLess
<1>5. Numeric(Count, S)
  BY <1>1 DEF Numeric
<1> QED
  BY <1>1, <1>2, <1>3, <1>4, <1>5

\* The rows of a range hold what was measured in it.
LEMMA RangeMeasured ==
  ASSUME RowInv, MeasuredInv, NEW pages \in SUBSET Pages, NEW from \in Int, NEW to \in Int
  PROVE  /\ Rows(pages, from, to) \in SUBSET DOMAIN engagements
         /\ Measured(pages, from, to) =
              [all |-> Total(Count, Rows(pages, from, to)),
               engaged |-> Total(Count, EngagedOf(Rows(pages, from, to)))]
<1> DEFINE R == Rows(pages, from, to)
           E == EngagedOf(R)
           K == pages \X {d \in Days : from <= d /\ d <= to}
           all == [x \in DOMAIN measured |-> measured[x].all]
           engaged == [x \in DOMAIN measured |-> measured[x].engaged]
           h == [k \in DOMAIN engagements |-> <<k[1], k[2]>>]
           of == [x \in K |-> OfDay(x)]
           engagedOf == [x \in K |-> EngagedOf(OfDay(x))]
<1>1. R \in SUBSET DOMAIN engagements
  BY DEF Rows
<1>2. IsFiniteSet(K)
  <2>1. IsFiniteSet(pages) /\ IsFiniteSet({d \in Days : from <= d /\ d <= to})
    BY VisitConstants, FS_Subset
  <2> QED
    BY <2>1, FS_Product
<1>3. \A k \in R : h[k] \in K /\ h[k][1] = k[1] /\ h[k][2] = k[2]
  BY DEF Rows, RowInv, RowKeys
<1>4. \A x \in K : /\ of[x] \in SUBSET R /\ engagedOf[x] \in SUBSET E
                   /\ x \in Pages \X Days /\ x = <<x[1], x[2]>>
  <2>1. \A x \in K : OfDay(x) \in SUBSET R /\ x \in Pages \X Days /\ x = <<x[1], x[2]>>
    BY DEF OfDay, Rows
  <2> QED
    BY <2>1 DEF EngagedOf
<1>5. \A x \in K : \A k \in R : k \in of[x] <=> h[k] = x
  <2> SUFFICES ASSUME NEW x \in K, NEW k \in R PROVE k \in of[x] <=> h[k] = x
    OBVIOUS
  <2>1. k \in DOMAIN engagements /\ h[k] = <<k[1], k[2]>>
    BY <1>1
  <2>2. h[k] = x <=> k[1] = x[1] /\ k[2] = x[2]
    BY <1>4, <2>1
  <2> QED
    BY <2>1, <2>2 DEF OfDay
<1>6. \A x \in K : \A k \in E : k \in engagedOf[x] <=> h[k] = x
  BY <1>5 DEF EngagedOf
<1>7. \A x \in K : /\ all[x] = Total(Count, of[x]) /\ engaged[x] = Total(Count, engagedOf[x])
  BY <1>4 DEF MeasuredInv
<1>8. /\ IsFiniteSet(R) /\ Numeric(Count, R) /\ IsFiniteSet(E) /\ Numeric(Count, E) /\ E \in SUBSET R
  <2>1. E \in SUBSET R /\ E \in SUBSET DOMAIN engagements
    BY <1>1 DEF EngagedOf
  <2> HIDE DEF R, E
  <2> QED
    BY <1>1, <2>1, CountedRows
<1> DEFINE c == Count
<1> HIDE DEF R, E, K, all, engaged, h, of, engagedOf, c
<1>9. Total(all, K) = Total(c, R)
  <2>1. /\ \A x \in R : h[x] \in K
        /\ \A k \in K : of[k] \in SUBSET R /\ \A x \in R : x \in of[k] <=> h[x] = k
        /\ \A k \in K : all[k] = Total(c, of[k])
        /\ Numeric(c, R)
    BY <1>3, <1>4, <1>5, <1>7, <1>8 DEF c
  <2> QED
    BY <1>2, <1>8, <2>1, TotalGroups
<1>10. Total(engaged, K) = Total(c, E)
  <2>1. /\ \A x \in E : h[x] \in K
        /\ \A k \in K : engagedOf[k] \in SUBSET E /\ \A x \in E : x \in engagedOf[k] <=> h[x] = k
        /\ \A k \in K : engaged[k] = Total(c, engagedOf[k])
        /\ Numeric(c, E)
    BY <1>3, <1>4, <1>6, <1>7, <1>8 DEF c
  <2> QED
    BY <1>2, <1>8, <2>1, TotalGroups
<1>11. Measured(pages, from, to) = [all |-> Total(all, K), engaged |-> Total(engaged, K)]
  BY SumIsTotal DEF Measured, all, engaged, K
<1> QED
  BY <1>1, <1>9, <1>10, <1>11 DEF c, R, E

\* A part of a whole, per cent.
LEMMA RateBound == ASSUME NEW all \in Nat, NEW e \in Nat, e <= all PROVE Rate(all, e) \in 0 .. 100
<1>1. CASE all > 0
  <2>1. /\ (100 * e) \div all \in Nat
        /\ (100 * e) = all * ((100 * e) \div all) + ((100 * e) % all) /\ (100 * e) % all \in Nat
    BY <1>1, DivRest
  <2> DEFINE q == (100 * e) \div all
  <2>2. all * q <= 100 * all
    BY <2>1
  <2>3. q > 100 => all * q >= all * 101
    <3> HIDE DEF q
    <3> SUFFICES ASSUME q > 100, q \in Nat PROVE all * q >= all * 101
      BY <2>1 DEF q
    <3> QED
      BY MultiplesGrow
  <2>4. all * 101 > 100 * all
    BY <1>1
  <2>5. q \in Nat /\ all * q \in Nat
    BY <2>1
  <2>6. q <= 100
    <3> DEFINE a == all * q
               b == all * 101
               d == 100 * all
    <3>1. a \in Nat /\ b \in Nat /\ d \in Nat /\ a <= d /\ (q > 100 => a >= b) /\ b > d
      BY <2>2, <2>3, <2>4, <2>5
    <3> HIDE DEF a, b, d, q
    <3> QED
      BY <3>1, <2>5
  <2> QED
    BY <1>1, <2>5, <2>6 DEF Rate
<1>2. CASE all = 0
  BY <1>2 DEF Rate
<1> QED
  BY <1>1, <1>2

\* The shares of a whole, each rounded down, are together no more than the whole.
LEMMA SharesBound ==
  ASSUME NEW K, IsFiniteSet(K), NEW g, \A k \in K : g[k] \in Nat, NEW s,
         \A k \in K : s[k] = Rate(Total(g, K), g[k])
  PROVE  Numeric(s, K) /\ Total(s, K) <= 100
<1> DEFINE T == Total(g, K)
<1>g. T \in Nat /\ Numeric(g, K) /\ \A k \in K : g[k] <= T
  BY TotalNat
<1>1. \A k \in K : s[k] \in 0 .. 100 /\ s[k] \in Nat
  <2> HIDE DEF T
  <2> SUFFICES ASSUME NEW k \in K PROVE s[k] \in 0 .. 100
    OBVIOUS
  <2>1. s[k] = Rate(T, g[k]) /\ g[k] \in Nat /\ g[k] <= T
    BY <1>g DEF T
  <2> QED
    BY <1>g, <2>1, RateBound
<1>2. Numeric(s, K)
  BY <1>1 DEF Numeric
<1>3. CASE T = 0
  <2>1. \A k \in K : s[k] = 0
    BY <1>3 DEF Rate
  <2>2. Total(s, K) = 0
    BY <2>1, TotalZero
  <2> QED
    BY <1>2, <2>2
<1>4. CASE T > 0
  <2> DEFINE P == {L \in SUBSET K : T * Total(s, L) <= 100 * Total(g, L)}
  <2>s. \A L \in SUBSET K : \A x \in K \ L :
          Total(s, L \cup {x}) = s[x] + Total(s, L) /\ s[x] \in Int /\ Total(s, L) \in Int
    BY <1>2, TotalSteps, Zenon
  <2>g. \A L \in SUBSET K : \A x \in K \ L :
          Total(g, L \cup {x}) = g[x] + Total(g, L) /\ g[x] \in Int /\ Total(g, L) \in Int
    BY <1>g, TotalSteps, Zenon
  <2>1. {} \in P
    <3>1. Total(s, {}) = 0 /\ Total(g, {}) = 0
      BY TotalEmpty
    <3>2. T * 0 = 0
      BY <1>g
    <3> QED
      BY <3>1, <3>2
  <2>2. ASSUME NEW L \in SUBSET K, NEW x \in K \ L, L \in P PROVE L \cup {x} \in P
    <3>1. Total(s, L \cup {x}) = s[x] + Total(s, L) /\ Total(s, L) \in Int
      BY <2>s, Zenon
    <3>2. Total(g, L \cup {x}) = g[x] + Total(g, L) /\ Total(g, L) \in Int
      BY <2>g, Zenon
    <3>3. T * s[x] <= 100 * g[x]
      <4>1. s[x] = (100 * g[x]) \div T
        BY <1>4 DEF Rate
      <4>2. 100 * g[x] \in Nat
        OBVIOUS
      <4> HIDE DEF T
      <4>3. /\ (100 * g[x]) % T \in 0 .. (T - 1)
            /\ (100 * g[x]) = T * ((100 * g[x]) \div T) + ((100 * g[x]) % T)
            /\ (100 * g[x]) \div T \in Nat
        BY <1>4, <1>g, <4>2, DivRest
      <4>4. T * ((100 * g[x]) \div T) \in Nat
        BY <1>g, <4>3
      <4> QED
        BY <4>1, <4>2, <4>3, <4>4, <1>g
    <3> DEFINE a == Total(s, L)
               b == Total(g, L)
               u == s[x]
               v == g[x]
    <3>4. a \in Int /\ b \in Int /\ u \in Int /\ v \in Int /\ T \in Int
      BY <1>1, <1>g, <3>1, <3>2
    <3>5. T * a <= 100 * b /\ T * u <= 100 * v
      BY <2>2, <3>3
    <3>6. T * (u + a) <= 100 * (v + b)
      <4> HIDE DEF T, a, b, u, v
      <4>1. T * (u + a) = T * u + T * a
        BY <3>4
      <4>2. T * u \in Int /\ T * a \in Int
        BY <3>4
      <4> QED
        BY <3>4, <3>5, <4>1, <4>2
    <3> QED
      BY <3>1, <3>2, <3>6
  <2> HIDE DEF P
  <2>3. K \in P
    BY <2>1, <2>2, AllFiniteSets
  <2>4. T * Total(s, K) <= 100 * T
    BY <2>3 DEF P
  <2>5. Total(s, K) \in Nat
    BY <1>1, TotalNatural
  <2> DEFINE q == Total(s, K)
  <2> HIDE DEF T, q
  <2>6. q > 100 => T * q >= T * 101
    <3> SUFFICES ASSUME q > 100 PROVE T * q >= T * 101
      OBVIOUS
    <3> QED
      BY <1>g, <2>5, MultiplesGrow DEF q
  <2>7. T * 101 > 100 * T
    BY <1>4, <1>g
  <2>8. q <= 100
    <3> DEFINE a == T * q
               b == T * 101
               d == 100 * T
    <3>1. a \in Nat /\ b \in Nat /\ d \in Nat /\ a <= d /\ (q > 100 => a >= b) /\ b > d /\ q \in Nat
      BY <1>g, <2>4, <2>5, <2>6, <2>7 DEF q
    <3> HIDE DEF a, b, d
    <3> QED
      BY <3>1
  <2> QED
    BY <1>2, <2>8 DEF q
<1> QED
  BY <1>3, <1>4, <1>g

LEMMA TotalsAnswered ==
  ASSUME RowInv, MeasuredInv, NEW pages \in SUBSET Pages, NEW from \in Int, NEW to \in Int
  PROVE  TotalsExact(pages, from, to)
<1> DEFINE R == Rows(pages, from, to)
           m == Measured(pages, from, to)
<1>1. R \in SUBSET DOMAIN engagements /\ m = [all |-> Total(Count, R), engaged |-> Total(Count, EngagedOf(R))]
  BY RangeMeasured
<1> HIDE DEF R, m
<1>2. /\ SumOfRows(R) = Total(Count, R) /\ EngagedOf(R) \in SUBSET R
      /\ EngagedOf(EngagedOf(R)) = EngagedOf(R)
  BY <1>1, CountedRows
<1>3. SumOfRows(EngagedOf(R)) = Total(Count, EngagedOf(R))
  <2>1. EngagedOf(R) \in SUBSET DOMAIN engagements
    BY <1>1, <1>2
  <2> QED
    BY <2>1, CountedRows
<1>4. m.all = SumOfRows(R) /\ m.engaged = SumOfRows(EngagedOf(R))
  BY <1>1, <1>2, <1>3
<1> DEFINE totals == SessionTotals(pages, from, to, FALSE)
<1>5. totals = [all |-> m.all, engaged |-> m.engaged]
  BY <1>4 DEF SessionTotals, R
<1>6. SessionTotals(pages, from, to, TRUE) = [all |-> m.engaged, engaged |-> m.engaged]
  BY <1>2, <1>4 DEF SessionTotals, R
<1>7. TotalsAnswer(pages, from, to) =
        [total_sessions |-> m.all, engaged_sessions |-> m.engaged, engagement_rate |-> Rate(m.all, m.engaged)]
  <2> HIDE DEF totals
  <2>1. totals.all = m.all /\ totals.engaged = m.engaged
    BY <1>5
  <2> QED
    BY <2>1 DEF TotalsAnswer, totals
<1> QED
  BY <1>6, <1>7 DEF TotalsExact, m

\* A distribution shares the rows out by their buckets.
LEMMA SharesAnswered ==
  ASSUME RowInv, MeasuredInv, NEW pages \in SUBSET Pages, NEW from \in Int, NEW to \in Int
  PROVE  SharesExact(pages, from, to)
<1> SUFFICES ASSUME NEW kind \in {"time", "scroll"}
             PROVE  LET shares == Shares(kind, pages, from, to) IN
                    /\ SumOf([r \in shares |-> r.count], shares) = Measured(pages, from, to).all
                    /\ SumOf([r \in shares |-> r.percentage], shares) <= 100
  BY DEF SharesExact
<1> DEFINE R == Rows(pages, from, to)
           bucket(k) == IF kind = "time" THEN k[3] ELSE k[4]
           h == [k \in R |-> bucket(k)]
           B == {h[k] : k \in R}
           of == [b \in B |-> {k \in R : bucket(k) = b}]
           g == [b \in B |-> Total(Count, of[b])]
           D == Distribution(kind, pages, from, to)
           told == [b \in B |-> [bucket |-> b, count |-> g[b]]]
           count == [r \in D |-> r.count]
           all == Measured(pages, from, to).all
           shares == Shares(kind, pages, from, to)
           pc == [b \in B |-> Rate(all, g[b])]
           split == [b \in B |-> [bucket |-> b, count |-> g[b], percentage |-> pc[b]]]
<1>1. R \in SUBSET DOMAIN engagements /\ all = Total(Count, R)
  <2>1. /\ R \in SUBSET DOMAIN engagements
        /\ Measured(pages, from, to) = [all |-> Total(Count, R), engaged |-> Total(Count, EngagedOf(R))]
    BY RangeMeasured
  <2> HIDE DEF R
  <2> QED
    BY <2>1
<1>2. IsFiniteSet(R) /\ Numeric(Count, R) /\ \A k \in R : Count[k] \in Nat
  <2> HIDE DEF R
  <2> QED
    BY <1>1, CountedRows
<1>3. IsFiniteSet(B)
  <2> HIDE DEF R, h
  <2> QED
    BY <1>2, FiniteImage
<1>4. /\ \A k \in R : h[k] \in B
      /\ \A b \in B : of[b] \in SUBSET R /\ \A k \in R : k \in of[b] <=> h[k] = b
      /\ \A b \in B : g[b] = Total(Count, of[b])
  <2> HIDE DEF R
  <2> QED
    OBVIOUS
<1>5. \A b \in B : g[b] \in Nat /\ of[b] = {k \in R : bucket(k) = b}
  <2> SUFFICES ASSUME NEW b \in B PROVE g[b] \in Nat /\ of[b] = {k \in R : bucket(k) = b}
    OBVIOUS
  <2>1. of[b] \in SUBSET R /\ g[b] = Total(Count, of[b])
    BY <1>4
  <2>2. of[b] = {k \in R : bucket(k) = b}
    <3> HIDE DEF R
    <3> QED
      OBVIOUS
  <2> HIDE DEF of, g, R, B, h
  <2>3. of[b] \in SUBSET DOMAIN engagements
    BY <1>1, <2>1
  <2>4. Total(Count, of[b]) \in Nat
    BY <2>3, CountedRows
  <2> QED
    BY <2>1, <2>2, <2>4
<1>6. D = {told[b] : b \in B}
  <2>1. \A b \in B : SumOfRows({k \in R : bucket(k) = b}) = g[b]
    <3> SUFFICES ASSUME NEW b \in B PROVE SumOfRows({k \in R : bucket(k) = b}) = g[b]
      OBVIOUS
    <3>1. of[b] \in SUBSET R /\ g[b] = Total(Count, of[b]) /\ of[b] = {k \in R : bucket(k) = b}
      BY <1>4, <1>5
    <3>2. SumOfRows(of[b]) = Total(Count, of[b])
      <4> HIDE DEF of, g, R, B, h
      <4>1. of[b] \in SUBSET DOMAIN engagements
        BY <1>1, <3>1
      <4> QED
        BY <4>1, CountedRows
    <3> QED
      BY <3>1, <3>2
  <2>2. D = {[bucket |-> b, count |-> SumOfRows({k \in R : bucket(k) = b})] : b \in {bucket(k) : k \in R}}
    BY DEF Distribution
  <2>3. {bucket(k) : k \in R} = B
    <3> HIDE DEF R
    <3> QED
      OBVIOUS
  <2>4. D = {[bucket |-> b, count |-> g[b]] : b \in B}
    <3> HIDE DEF D, R, B, g
    <3> QED
      BY <2>1, <2>2, <2>3
  <2> HIDE DEF D, B, g
  <2> QED
    BY <2>4
<1> DEFINE c == Count
<1> HIDE DEF R, h, B, of, g, all, c
<1>7. Numeric(g, B) /\ Total(g, B) = all
  <2>1. Total(g, B) = Total(c, R) /\ Numeric(g, B)
    <3>1. /\ \A x \in R : h[x] \in B
          /\ \A k \in B : of[k] \in SUBSET R /\ \A x \in R : x \in of[k] <=> h[x] = k
          /\ \A k \in B : g[k] = Total(c, of[k])
          /\ Numeric(c, R)
      BY <1>2, <1>4 DEF c
    <3> QED
      BY <1>2, <1>3, <3>1, TotalGroups
  <2> QED
    BY <1>1, <2>1 DEF c
<1>8. SumOf(count, D) = all
  <2>1. \A b \in B : told[b].bucket = b /\ told[b].count = g[b]
    OBVIOUS
  <2> HIDE DEF told, D
  <2>2. Renames(told, B, D)
    BY <1>6, <2>1 DEF Renames
  <2>3. Renamed(g, count, told, B) /\ Numeric(count, D)
    BY <1>6, <1>7, <2>1 DEF Renamed, Numeric
  <2> HIDE DEF count
  <2>4. Total(g, B) = Total(count, D)
    BY <1>3, <2>2, <2>3, TotalImage
  <2> QED
    BY <1>7, <2>4, SumIsTotal
<1>9. shares = {split[b] : b \in B}
  <2>1. shares = {[bucket |-> r.bucket, count |-> r.count, percentage |-> Rate(all, r.count)] : r \in D}
    BY <1>8 DEF Shares
  <2>2. \A b \in B : /\ told[b].bucket = b /\ told[b].count = g[b]
                     /\ split[b] = [bucket |-> b, count |-> g[b], percentage |-> Rate(all, g[b])]
    OBVIOUS
  <2> HIDE DEF told, split, shares, D
  <2>3. \A b \in B : split[b] = [bucket |-> told[b].bucket, count |-> told[b].count,
                                   percentage |-> Rate(all, told[b].count)]
    BY <2>2
  <2>4. shares \subseteq {split[b] : b \in B}
    <3> SUFFICES ASSUME NEW r \in D
                 PROVE  [bucket |-> r.bucket, count |-> r.count, percentage |-> Rate(all, r.count)]
                          \in {split[b] : b \in B}
      BY <2>1
    <3>1. PICK b \in B : r = told[b]
      BY <1>6
    <3> QED
      BY <2>3, <3>1
  <2>5. {split[b] : b \in B} \subseteq shares
    <3> SUFFICES ASSUME NEW b \in B PROVE split[b] \in shares
      OBVIOUS
    <3>1. told[b] \in D
      BY <1>6
    <3> QED
      BY <2>1, <2>3, <3>1
  <2> QED
    BY <2>4, <2>5
<1>10. SumOf([r \in shares |-> r.count], shares) = all
  <2> DEFINE count2 == [r \in shares |-> r.count]
  <2>1. \A b \in B : split[b].bucket = b /\ split[b].count = g[b]
    OBVIOUS
  <2> HIDE DEF split, shares
  <2>2. Renames(split, B, shares)
    BY <1>9, <2>1 DEF Renames
  <2>3. Renamed(g, count2, split, B) /\ Numeric(count2, shares)
    BY <1>9, <1>7, <2>1 DEF Renamed, Numeric
  <2> HIDE DEF count2
  <2>4. Total(g, B) = Total(count2, shares)
    BY <1>3, <2>2, <2>3, TotalImage
  <2>5. SumOf(count2, shares) = all
    BY <1>7, <2>4, SumIsTotal
  <2> QED
    BY <2>5 DEF count2
<1>11. SumOf([r \in shares |-> r.percentage], shares) <= 100
  <2> DEFINE portion == [r \in shares |-> r.percentage]
  <2>1. \A b \in B : /\ split[b].bucket = b /\ split[b].percentage = pc[b]
                     /\ pc[b] = Rate(Total(g, B), g[b])
    BY <1>7
  <2> HIDE DEF split, shares, pc
  <2>2. Numeric(pc, B) /\ Total(pc, B) <= 100
    <3>1. \A b \in B : g[b] \in Nat
      BY <1>5
    <3> QED
      BY <1>3, <2>1, <3>1, SharesBound
  <2>3. Renames(split, B, shares)
    BY <1>9, <2>1 DEF Renames
  <2>4. Renamed(pc, portion, split, B) /\ Numeric(portion, shares)
    BY <1>9, <2>2, <2>1 DEF Renamed, Numeric
  <2> HIDE DEF portion
  <2>5. Total(pc, B) = Total(portion, shares)
    BY <1>3, <2>3, <2>4, TotalImage
  <2>6. SumOf(portion, shares) <= 100
    BY <2>2, <2>5, SumIsTotal
  <2> QED
    BY <2>6 DEF portion
<1> QED
  BY <1>10, <1>11 DEF all

LEMMA GroupFacts ==
  ASSUME RowInv, MeasuredInv, NEW from \in Int, NEW to \in Int, NEW p \in Pages
  PROVE  LET m == Measured({p}, from, to) IN
         /\ TopRow(p, from, to) =
              [content_id |-> p, total_sessions |-> m.all, engaged_sessions |-> m.engaged]
         /\ m.all \in Nat /\ m.engaged \in Nat /\ m.engaged <= m.all
         /\ TopRow(p, from, to) \in Groups(from, to) \/ m.engaged = 0
<1> DEFINE R == Rows({p}, from, to)
           m == Measured({p}, from, to)
<1>1. R \in SUBSET DOMAIN engagements /\ m = [all |-> Total(Count, R), engaged |-> Total(Count, EngagedOf(R))]
  BY RangeMeasured
<1>2. {k \in Rows(Pages, from, to) : k[1] = p} = R
  BY DEF Rows
<1>3. R # {} => TopRow(p, from, to) \in Groups(from, to)
  <2> SUFFICES ASSUME R # {} PROVE TopRow(p, from, to) \in Groups(from, to)
    OBVIOUS
  <2>1. PICK k \in Rows(Pages, from, to) : k[1] = p
    BY <1>2
  <2> QED
    BY <2>1 DEF Groups
<1> HIDE DEF R, m
<1>4. /\ SumOfRows(R) = Total(Count, R) /\ EngagedOf(R) \in SUBSET R /\ Total(Count, R) \in Nat
      /\ Total(Count, EngagedOf(R)) \in Nat /\ Total(Count, EngagedOf(R)) <= Total(Count, R)
  BY <1>1, CountedRows
<1>5. SumOfRows(EngagedOf(R)) = Total(Count, EngagedOf(R))
  <2>1. EngagedOf(R) \in SUBSET DOMAIN engagements
    BY <1>1, <1>4
  <2> QED
    BY <2>1, CountedRows
<1>6. m.all = SumOfRows(R) /\ m.engaged = SumOfRows(EngagedOf(R))
  BY <1>1, <1>4, <1>5
<1>7. TopRow(p, from, to) = [content_id |-> p, total_sessions |-> m.all, engaged_sessions |-> m.engaged]
  BY <1>2, <1>6 DEF TopRow
<1>8. R = {} => m.engaged = 0
  <2> SUFFICES ASSUME R = {} PROVE m.engaged = 0
    OBVIOUS
  <2>1. EngagedOf(R) = {}
    BY <1>4
  <2> QED
    BY <1>1, <2>1, TotalEmpty
<1> QED
  BY <1>1, <1>3, <1>4, <1>5, <1>6, <1>7, <1>8 DEF m

LEMMA TopAnswered ==
  ASSUME RowInv, MeasuredInv, NEW from \in Int, NEW to \in Int
  PROVE  TopExact(from, to)
<1> SUFFICES ASSUME NEW top \in TopRated(from, to, TopLimit), NEW r \in Range(top)
             PROVE  LET m == Measured({r.content_id}, from, to) IN
                    /\ r.total_sessions = m.all /\ r.engaged_sessions = m.engaged
                    /\ r.engagement_rate \in 0 .. 100
                    /\ \A p \in Pages \ {q.content_id : q \in Range(top)} :
                         Measured({p}, from, to).engaged <= r.engaged_sessions
  BY DEF TopExact
<1>n. PICK n \in DOMAIN top : r = top[n]
  BY DEF Range
<1> DEFINE groups == Groups(from, to)
<1>1. PICK list \in TopEngaged(from, to, TopLimit) : top = [i \in DOMAIN list |-> Rated(list[i])]
  BY DEF TopRated
<1>2. /\ \E l \in Nat : list \in [1 .. l -> groups]
      /\ \A g \in groups \ Range(list) : \A i \in DOMAIN list : list[i].engaged_sessions >= g.engaged_sessions
  BY VisitConstants DEF TopEngaged
<1>3. n \in DOMAIN list /\ top[n] = Rated(list[n]) /\ \A i \in DOMAIN list : list[i] \in groups
  BY <1>1, <1>2
<1>4. \A g \in groups : \E p \in Pages : g = TopRow(p, from, to)
  <2> SUFFICES ASSUME NEW k \in Rows(Pages, from, to) PROVE k[1] \in Pages
    BY DEF Groups
  <2> QED
    BY DEF Rows, RowInv, RowKeys
<1> HIDE DEF groups
<1>5. PICK page \in Pages : list[n] = TopRow(page, from, to)
  BY <1>3, <1>4
<1> DEFINE m == Measured({page}, from, to)
<1>6. /\ list[n] = [content_id |-> page, total_sessions |-> m.all, engaged_sessions |-> m.engaged]
      /\ m.all \in Nat /\ m.engaged \in Nat /\ m.engaged <= m.all
  BY <1>5, GroupFacts
<1>7. /\ r.content_id = page /\ r.total_sessions = m.all /\ r.engaged_sessions = m.engaged
      /\ r.engagement_rate = Rate(m.all, m.engaged) /\ list[n].engaged_sessions = m.engaged
  BY <1>3, <1>6, <1>n DEF Rated
<1>8. r.engagement_rate \in 0 .. 100
  <2> HIDE DEF m
  <2> QED
    BY <1>6, <1>7, RateBound
<1>9. ASSUME NEW p \in Pages, p \notin {q.content_id : q \in Range(top)}
      PROVE  Measured({p}, from, to).engaged <= r.engaged_sessions
  <2> DEFINE v == Measured({p}, from, to)
             g == TopRow(p, from, to)
  <2>1. /\ g = [content_id |-> p, total_sessions |-> v.all, engaged_sessions |-> v.engaged]
        /\ v.engaged \in Nat /\ (g \in groups \/ v.engaged = 0)
    BY GroupFacts DEF groups
  <2>2. g.content_id = p /\ g.engaged_sessions = v.engaged
    BY <2>1
  <2>3. g \notin Range(list)
    <3> SUFFICES ASSUME NEW i \in DOMAIN list, list[i] = g PROVE FALSE
      BY DEF Range
    <3>1. i \in DOMAIN top /\ top[i] = Rated(list[i])
      BY <1>1
    <3>2. top[i].content_id = p
      BY <2>2, <3>1 DEF Rated
    <3> QED
      BY <1>9, <3>1, <3>2 DEF Range
  <2> HIDE DEF v, g
  <2>4. g \in groups => m.engaged >= v.engaged
    BY <1>2, <1>3, <1>7, <2>2, <2>3
  <2>5. v.engaged <= m.engaged
    <3> DEFINE a == v.engaged
               b == m.engaged
    <3>1. a \in Nat /\ b \in Nat /\ (b >= a \/ a = 0)
      BY <1>6, <2>1, <2>4
    <3> HIDE DEF a, b
    <3>2. a <= b
      BY <3>1
    <3> QED
      BY <3>2 DEF a, b
  <2> QED
    BY <1>7, <2>5 DEF v
<1> QED
  BY <1>7, <1>8, <1>9

\* The two routes answer without an error when there is no row, and no other time.
LEMMA RoutesAnswered ==
  ASSUME RowInv, MeasuredInv, NEW pages \in SUBSET Pages, NEW from \in Int, NEW to \in Int
  PROVE  RoutesExact(pages, from, to)
<1>1. ASSUME NEW some \in SUBSET Pages, Rows(some, from, to) = {} PROVE Measured(some, from, to).all = 0
  BY <1>1, RangeMeasured, TotalEmpty
<1>2. ASSUME DistributionAnswer(pages, from, to).status = 200
      PROVE  LET told == DistributionAnswer(pages, from, to) IN
             SumOf([r \in told.items |-> r.count], told.items) = Measured(pages, from, to).all
  <2> DEFINE D == Distribution("combined", pages, from, to)
             fields == {"time_bucket", "scroll_bucket", "count"}
             told == DistributionAnswer(pages, from, to)
  <2>1. /\ told = Answer(D, fields) /\ told.status = 200
    BY <1>2 DEF DistributionAnswer
  <2>2. (\A r \in D : fields \subseteq DOMAIN r) /\ told.items = D
    <3> HIDE DEF D, fields, told
    <3> QED
      BY <2>1 DEF Answer
  <2>3. \A r \in D : "time_bucket" \notin DOMAIN r
    <3>1. \A b, c : "time_bucket" \notin DOMAIN [bucket |-> b, count |-> c]
      OBVIOUS
    <3>2. \A r \in D : \E b, c : r = [bucket |-> b, count |-> c]
      BY DEF Distribution
    <3> HIDE DEF D
    <3> QED
      BY <3>1, <3>2
  <2>4. D = {}
    BY <2>2, <2>3
  <2>5. Rows(pages, from, to) = {}
    <3> SUFFICES ASSUME NEW k \in Rows(pages, from, to) PROVE FALSE
      OBVIOUS
    <3>1. [bucket |-> k[4], count |-> SumOfRows({j \in Rows(pages, from, to) : j[4] = k[4]})] \in D
      BY DEF Distribution
    <3> QED
      BY <2>4, <3>1
  <2>6. told.items = {} /\ Measured(pages, from, to).all = 0
    BY <1>1, <2>2, <2>4, <2>5
  <2> HIDE DEF told
  <2>7. SumOf([r \in told.items |-> r.count], told.items) = 0
    BY <2>6, SumIsTotal, TotalEmpty
  <2> QED
    BY <2>6, <2>7 DEF told
<1>3. ASSUME NEW told \in TopAnswers(from, to), told.status = 200
      PROVE  told.items = {} <=> Measured(Pages, from, to).all = 0
  <2> DEFINE groups == Groups(from, to)
             fields == {"content_id", "engaged_count"}
  <2>1. PICK top \in TopEngaged(from, to, TopLimit) : told = Answer(Range(top), fields)
    BY DEF TopAnswers
  <2>2. (\A r \in Range(top) : fields \subseteq DOMAIN r) /\ told.items = Range(top)
    <3> HIDE DEF fields
    <3> QED
      BY <1>3, <2>1 DEF Answer
  <2>3. PICK l \in Nat : top \in [1 .. l -> groups]
    BY VisitConstants DEF TopEngaged
  <2>4. Len(top) = TopLimit \/ Range(top) = groups
    BY DEF TopEngaged
  <2>5. \A r \in groups : "engaged_count" \notin DOMAIN r
    <3>1. \A p, a, e : "engaged_count" \notin DOMAIN [content_id |-> p, total_sessions |-> a, engaged_sessions |-> e]
      OBVIOUS
    <3>2. \A r \in groups : \E p, a, e : r = [content_id |-> p, total_sessions |-> a, engaged_sessions |-> e]
      BY DEF Groups, TopRow
    <3> HIDE DEF groups
    <3> QED
      BY <3>1, <3>2
  <2> HIDE DEF groups
  <2>6. Range(top) \subseteq groups
    BY <2>3 DEF Range
  <2>7. Range(top) = {}
    BY <2>2, <2>5, <2>6
  <2>8. groups = {}
    <3>1. Len(top) = l /\ DOMAIN top = 1 .. l
      BY <2>3
    <3>2. l = 0
      <4>1. \A i \in 1 .. l : FALSE
        BY <2>7, <3>1 DEF Range
      <4>2. l > 0 => 1 \in 1 .. l
        OBVIOUS
      <4> QED
        BY <4>1, <4>2
    <3>3. Len(top) # TopLimit
      BY <3>1, <3>2, VisitConstants
    <3> QED
      BY <2>4, <2>7, <3>3
  <2>9. Rows(Pages, from, to) = {}
    BY <2>8 DEF Groups, groups
  <2>10. Measured(Pages, from, to).all = 0
    BY <1>1, <2>9
  <2> QED
    BY <2>2, <2>7, <2>10
<1> QED
  BY <1>2, <1>3 DEF RoutesExact

LEMMA VisitsTold == VisitsInv => EngagementExact
<1> SUFFICES ASSUME VisitsInv, NEW from \in Days, NEW to \in {d \in Days : from <= d},
                    NEW pages \in {Pages} \cup {{p} : p \in Pages}
             PROVE  /\ TotalsExact(pages, from, to) /\ SharesExact(pages, from, to)
                    /\ TopExact(from, to) /\ RoutesExact(pages, from, to)
  BY DEF EngagementExact
<1>1. RowInv /\ MeasuredInv /\ from \in Int /\ to \in Int /\ pages \in SUBSET Pages
  BY VisitConstants DEF VisitsInv
<1> QED
  BY <1>1, TotalsAnswered, SharesAnswered, TopAnswered, RoutesAnswered

LEMMA VisitsKeep ==
  VisitsInv /\ [Engage \/ DedupeNext]_visitVars =>
    /\ VisitsInv'
    /\ [\A k \in DOMAIN reported :
          reported'[k] # reported[k] /\ reported[k] # -1 => reported'[k] > reported[k] + TTL]_visitVars
<1> DEFINE Late == \A k \in DOMAIN reported :
                     reported'[k] # reported[k] /\ reported[k] # -1 => reported'[k] > reported[k] + TTL
<1> SUFFICES ASSUME VisitsInv, [Engage \/ DedupeNext]_visitVars PROVE VisitsInv' /\ [Late]_visitVars
  OBVIOUS
<1>1. CASE UNCHANGED visitVars
  <2>1. UNCHANGED <<engagements, measured, second, entries, reported>>
    BY <1>1 DEF visitVars
  <2>2. Count' = Count /\ \A x : OfDay(x)' = OfDay(x) /\ EngagedOf(OfDay(x))' = EngagedOf(OfDay(x))
    BY <2>1 DEF Count, OfDay, EngagedOf
  <2>3. RowInv'
    BY <2>1 DEF VisitsInv, RowInv, RowKeys, TimeBuckets, ScrollBuckets
  <2>4. MeasuredInv'
    BY <2>1, <2>2 DEF VisitsInv, MeasuredInv
  <2>5. ReportedInv'
    BY <2>1 DEF VisitsInv, ReportedInv
  <2> QED
    BY <1>1, <2>3, <2>4, <2>5 DEF VisitsInv
<1>2. CASE Engage
  <2>1. UNCHANGED <<second, entries, reported>>
    BY <1>2 DEF Engage
  <2>2. RowInv' /\ MeasuredInv'
    BY <1>2, EngageKeeps DEF VisitsInv
  <2>3. ReportedInv' /\ Late
    BY <2>1 DEF VisitsInv, ReportedInv
  <2> QED
    BY <2>2, <2>3 DEF VisitsInv
<1>3. CASE DedupeNext
  <2>1. UNCHANGED <<engagements, measured>>
    BY <1>3 DEF DedupeNext, CheckAndRecord, Cleanup, NextSecond
  <2>2. Count' = Count /\ \A x : OfDay(x)' = OfDay(x) /\ EngagedOf(OfDay(x))' = EngagedOf(OfDay(x))
    BY <2>1 DEF Count, OfDay, EngagedOf
  <2>3. RowInv'
    BY <2>1 DEF VisitsInv, RowInv, RowKeys, TimeBuckets, ScrollBuckets
  <2>4. MeasuredInv'
    BY <2>1, <2>2 DEF VisitsInv, MeasuredInv
  <2>5. ReportedInv' /\ Late
    BY <1>3, DedupeKeeps DEF VisitsInv
  <2> QED
    BY <2>3, <2>4, <2>5 DEF VisitsInv
<1> QED
  BY <1>1, <1>2, <1>3

(***************************************************************************)
(* Whatever visits are measured, in whatever order, and whichever range of  *)
(* days is asked for: the totals, the distributions and the top pages, the  *)
(* repository's and the routes', answer what was measured, though a row     *)
(* keeps its buckets only; and no event is reported as new twice within the *)
(* life of its key (engagement component, SQLiteEngagementRepo,             *)
(* admin_analytics.py, analytics_dedupe.py).                                *)
(***************************************************************************)
THEOREM VisitsTheorem == VisitInit /\ [][Engage \/ DedupeNext]_visitVars => VisitsHonest
BY VisitsBegin, VisitsKeep, VisitsTold, PTL DEF VisitsHonest, ReportedOnce

-----------------------------------------------------------------------------
(***************************************************************************)
(* The services side by side, as MCServices composes them: each of them     *)
(* moves by itself or stays.                                               *)
(***************************************************************************)
LEMMA ServicesBegin ==
  ServicesInit =>
    /\ part \in Parts
    /\ NewsletterInit /\ RateInit /\ CountInit /\ VisitInit /\ RedirectInit /\ BackupInit
    /\ AccessInit /\ TextInit /\ ClockInit /\ DrillInit
BY DEF ServicesInit

LEMMA ServicesMove ==
  [ServicesNext]_servicesVars =>
    /\ UNCHANGED part
    /\ [NewsletterNext]_newsletterVars /\ [LoginNext \/ SubscribeNext]_rateVars
    /\ [CountNext]_countVars /\ [Engage \/ DedupeNext]_visitVars /\ [RedirectNext]_redirectVars
    /\ [BackupNext]_<<assetVars, backup>> /\ [AccessNext]_accessVars
    /\ [TextNext]_textVars /\ [ClockNext]_clockVars /\ [DrillNext]_drillVars
<1> SUFFICES ASSUME [ServicesNext]_servicesVars
             PROVE  /\ UNCHANGED part
                    /\ [NewsletterNext]_newsletterVars /\ [LoginNext \/ SubscribeNext]_rateVars
                    /\ [CountNext]_countVars /\ [Engage \/ DedupeNext]_visitVars /\ [RedirectNext]_redirectVars
                    /\ [BackupNext]_<<assetVars, backup>> /\ [AccessNext]_accessVars
                    /\ [TextNext]_textVars /\ [ClockNext]_clockVars /\ [DrillNext]_drillVars
  OBVIOUS
<1>1. CASE UNCHANGED servicesVars
  BY <1>1 DEF servicesVars, storeVars
<1>2. CASE ServicesNext
  BY <1>2 DEF ServicesNext, LimitNext, MeasureNext, StoreNext, BackupNext, storeVars
<1> QED
  BY <1>1, <1>2

(* Every service keeps its types and its invariant in the specification     *)
(* that the run services checks, whichever of them moves: a backup that is *)
(* drilled, a limit, the figures, the redirects, the stored files, the      *)
(* accounts, the sanitised texts and the clock.                             *)
THEOREM ServicesTheorem ==
  ASSUME BucketTypes # {}
  PROVE  ServicesSpec => [](/\ ServicesPartsSound /\ LimitKept /\ TotalsHonest /\ RedirectsSafe
                           /\ StorageSound /\ AccountsSafe /\ SanitizeSettles /\ NeverReadEarly)
                        /\ ConsentKept /\ VisitsHonest
<1>1. ServicesSpec => [](part \in Parts)
  <2>1. part \in Parts /\ [ServicesNext]_servicesVars => (part \in Parts)'
    BY ServicesMove
  <2> QED
    BY <2>1, ServicesBegin, PTL DEF ServicesSpec
<1>2. ServicesSpec => []NewsletterTypeOK
  <2>1. NewsletterInv => NewsletterTypeOK
    BY DEF NewsletterInv
  <2> QED
    BY <2>1, ServicesBegin, ServicesMove, NewsletterInvHolds, PTL DEF ServicesSpec, NewsletterSpec
<1>3. ServicesSpec => []LimitKept
  BY ServicesBegin, ServicesMove, LimitTheorem, PTL DEF ServicesSpec, RateSpec
<1>4. ServicesSpec => [](TotalsHonest /\ CountTypeOK)
  BY ServicesBegin, ServicesMove, CountsTheorem, PTL DEF ServicesSpec, CountSpec
<1>5. ServicesSpec => [](RedirectTypeOK /\ RedirectsSafe)
  BY ServicesBegin, ServicesMove, RedirectsTheorem, PTL DEF ServicesSpec, RedirectSpec
<1>6. ServicesSpec => [](AssetTypeOK /\ BackupTypeOK /\ StorageSound)
  BY ServicesBegin, ServicesMove, StorageTheorem, PTL DEF ServicesSpec, BackupSpec
<1>7. ServicesSpec => [](AccessTypeOK /\ AccountsSafe)
  BY ServicesBegin, ServicesMove, AccountsTheorem, PTL DEF ServicesSpec, AccessSpec
<1>8. ServicesSpec => [](TextTypeOK /\ SanitizeSettles)
  BY ServicesBegin, ServicesMove, TextTheorem, PTL DEF ServicesSpec, TextSpec
<1>9. ServicesSpec => [](ClockTypeOK /\ NeverReadEarly)
  BY ServicesBegin, ServicesMove, LondonTheorem, PTL DEF ServicesSpec, ClockSpec
<1>10. ServicesSpec => [](DrillTypeOK /\ DrillHonest)
  BY ServicesBegin, ServicesMove, DrillTheorem, PTL DEF ServicesSpec, DrillSpec
<1>11. /\ part \in Parts /\ NewsletterTypeOK /\ CountTypeOK /\ RedirectTypeOK /\ AssetTypeOK
       /\ BackupTypeOK /\ AccessTypeOK /\ TextTypeOK /\ ClockTypeOK /\ DrillTypeOK /\ DrillHonest
       => ServicesPartsSound
  BY DEF ServicesPartsSound
<1>12. ServicesSpec => ConsentKept
  BY ServicesBegin, ServicesMove, ConsentTheorem, PTL DEF ServicesSpec, NewsletterSpec
<1>13. ServicesSpec => VisitsHonest
  BY ServicesBegin, ServicesMove, VisitsTheorem, PTL DEF ServicesSpec
<1> QED
  BY <1>1, <1>2, <1>3, <1>4, <1>5, <1>6, <1>7, <1>8, <1>9, <1>10, <1>11, <1>12, <1>13, PTL

=============================================================================
