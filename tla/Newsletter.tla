----------------------------- MODULE Newsletter -----------------------------
(***************************************************************************)
(* The newsletter (src/src/components/newsletter/component.py, the routes  *)
(* public_newsletter.py and admin_newsletter.py, and the table behind      *)
(* SQLiteNewsletterSubscriberRepo in src/src/adapters/sqlite_db.py):       *)
(* double opt-in by a mailed link, unsubscription by another one, deletion *)
(* by an administrator.                                                    *)
(*                                                                         *)
(* A handler reads a row, writes a whole row and then sends a mail; the    *)
(* threads interleave between these calls, and one may stop at any of them.*)
(***************************************************************************)
EXTENDS Integers

CONSTANTS
  M,            \* subscriber ids are 1..M, each with its two tokens
  Emails,       \* addresses that pass validate_email
  Visitors,     \* threads that serve a request
  TokenLife,    \* confirmation_token_expiry_hours, in ticks
  MaxHour,      \* bound on the clock
  MaxStops      \* bound on the handlers that stop half-way

ASSUME NewsletterAssumption ==
  /\ M \in Nat \ {0} /\ Emails # {} /\ TokenLife \in Nat
  /\ MaxHour \in Nat /\ MaxStops \in Nat

Ids == 1..M

VARIABLES
  hour,         \* the clock
  subscribers,  \* newsletter_subscribers by id; status "none" when there is no row
  drawn,        \* number of ids drawn
  visit,        \* what every thread is about to do
  mailed,       \* ids whose confirmation link was sent
  welcomed,     \* ids whose unsubscribe link was sent
  stops         \* number of handlers that stopped half-way

newsletterVars == <<hour, subscribers, drawn, visit, mailed, welcomed, stops>>

-----------------------------------------------------------------------------

SubscriberStatus == {"none", "pending", "confirmed", "unsubscribed"}

\* open: confirmation_token IS NOT NULL.
SubscriberRow == [status: SubscriberStatus, email: Emails, since: 0..MaxHour, open: BOOLEAN]

NoSubscriber == [status |-> "none", email |-> CHOOSE e \in Emails : TRUE, since |-> 0,
                 open |-> FALSE]

\* stale is a history variable: the row changed after the thread read it.
Visit == [step: {"idle", "insert", "mail", "update", "welcome"}, id: Ids,
          copy: SubscriberRow, stale: BOOLEAN]
NoVisit == [step |-> "idle", id |-> 1, copy |-> NoSubscriber, stale |-> FALSE]

\* get_by_email.
RowsOf(email) == {i \in Ids : subscribers[i].status # "none" /\ subscribers[i].email = email}

\* SM3.
SubscriberMoves == {<<"pending", "confirmed">>, <<"confirmed", "unsubscribed">>}
CanMove(from, to) == <<from, to>> \in SubscriberMoves

\* create_subscriber.
NewSubscriber(email) ==
  [status |-> "pending", email |-> email, since |-> hour, open |-> TRUE]

\* Mutant: the one-time token is kept.
ConfirmedOpen(row) == [row EXCEPT !.status = "confirmed"]

\* confirm_subscriber and unsubscribe_subscriber: neither keeps the one-time token.
Confirmed(row) == [row EXCEPT !.status = "confirmed", !.open = FALSE]
Unsubscribed(row) == [row EXCEPT !.status = "unsubscribed", !.open = FALSE]

TokenExpired(row) == hour > row.since + TokenLife

NewsletterInit ==
  /\ hour = 0
  /\ subscribers = [i \in Ids |-> NoSubscriber]
  /\ drawn = 0
  /\ visit = [v \in Visitors |-> NoVisit]
  /\ mailed = {} /\ welcomed = {}
  /\ stops = 0

-----------------------------------------------------------------------------

\* The thread goes to its next call, or ends.
Goes(v, step, i, copy) ==
  visit' = [visit EXCEPT ![v] = [step |-> step, id |-> i, copy |-> copy, stale |-> FALSE]]
Ends(v) == visit' = [visit EXCEPT ![v] = NoVisit]

\* The same after row i was written: copies others hold of it are stale.
WroteThen(v, i, next) ==
  visit' = [u \in Visitors |->
    IF u = v THEN next
    ELSE IF visit[u].step = "update" /\ visit[u].id = i THEN [visit[u] EXCEPT !.stale = TRUE]
    ELSE visit[u]]

\* UNIQUE(email): an upsert of row i with another row's address raises.
AddressFree(i, email) == RowsOf(email) \subseteq {i}

\* save, followed by step; no mail is sent when it raises.
SaveSubscriber(v, step) ==
  LET i == visit[v].id  row == visit[v].copy IN
  IF AddressFree(i, row.email)
  THEN /\ subscribers' = [subscribers EXCEPT ![i] = row]
       /\ WroteThen(v, i, IF step = "idle" THEN NoVisit
                          ELSE [NoVisit EXCEPT !.step = step, !.id = i])
  ELSE Ends(v) /\ UNCHANGED subscribers

\* run_subscribe up to its first write or mail.  The row of a former subscriber
\* is still there: a new one is built, and the save will raise.
Subscribe(v, email) ==
  /\ visit[v].step = "idle"
  /\ \/ \E i \in RowsOf(email) :
          /\ subscribers[i].status = "pending" /\ subscribers[i].open
          /\ Goes(v, "mail", i, NoSubscriber)
          /\ UNCHANGED drawn
     \/ /\ \A i \in RowsOf(email) : subscribers[i].status = "unsubscribed"
        /\ drawn < M
        /\ drawn' = drawn + 1
        /\ Goes(v, "insert", drawn', NewSubscriber(email))
  /\ UNCHANGED <<hour, subscribers, mailed, welcomed, stops>>

Insert(v) ==
  /\ visit[v].step = "insert"
  /\ SaveSubscriber(v, "mail")
  /\ UNCHANGED <<hour, drawn, mailed, welcomed, stops>>

\* send_confirmation_email, for a new subscriber and for a pending one.
MailLink(v) ==
  /\ visit[v].step = "mail"
  /\ mailed' = mailed \cup {visit[v].id}
  /\ Ends(v)
  /\ UNCHANGED <<hour, subscribers, drawn, welcomed, stops>>

\* run_confirm up to its write, by the link that was sent.  A confirmed row has
\* no token any more, so its link is not found.
Confirm(v) ==
  \E i \in mailed :
    /\ visit[v].step = "idle"
    /\ subscribers[i].open
    /\ ~TokenExpired(subscribers[i])
    /\ CanMove(subscribers[i].status, "confirmed")
    /\ Goes(v, "update", i, Confirmed(subscribers[i]))
    /\ UNCHANGED <<hour, subscribers, drawn, mailed, welcomed, stops>>

\* run_unsubscribe up to its write, by the link in the welcome mail.
Unsubscribe(v) ==
  \E i \in welcomed :
    /\ visit[v].step = "idle"
    /\ CanMove(subscribers[i].status, "unsubscribed")
    /\ Goes(v, "update", i, Unsubscribed(subscribers[i]))
    /\ UNCHANGED <<hour, subscribers, drawn, mailed, welcomed, stops>>

\* The write of both: it also brings back a row deleted since.
UpdateRow(v) ==
  /\ visit[v].step = "update"
  /\ SaveSubscriber(v, IF visit[v].copy.status = "confirmed" THEN "welcome" ELSE "idle")
  /\ UNCHANGED <<hour, drawn, mailed, welcomed, stops>>

\* send_welcome_email.
MailWelcome(v) ==
  /\ visit[v].step = "welcome"
  /\ welcomed' = welcomed \cup {visit[v].id}
  /\ Ends(v)
  /\ UNCHANGED <<hour, subscribers, drawn, mailed, stops>>

\* delete_subscriber: its read only tells whether there is a row.
DeleteSubscriber(v) ==
  \E i \in Ids :
    /\ visit[v].step = "idle" /\ subscribers[i].status # "none"
    /\ subscribers' = [subscribers EXCEPT ![i] = NoSubscriber]
    /\ WroteThen(v, i, NoVisit)
    /\ UNCHANGED <<hour, drawn, mailed, welcomed, stops>>

\* The process stops, or an exception ends the handler.
Stop(v) ==
  /\ visit[v].step # "idle" /\ stops < MaxStops
  /\ stops' = stops + 1
  /\ Ends(v)
  /\ UNCHANGED <<hour, subscribers, drawn, mailed, welcomed>>

NextHour ==
  /\ hour < MaxHour
  /\ hour' = hour + 1
  /\ UNCHANGED <<subscribers, drawn, visit, mailed, welcomed, stops>>

Continue(v) == Insert(v) \/ MailLink(v) \/ UpdateRow(v) \/ MailWelcome(v)

VisitorNext(v) ==
  \/ \E email \in Emails : Subscribe(v, email)
  \/ Confirm(v) \/ Unsubscribe(v) \/ DeleteSubscriber(v) \/ Continue(v) \/ Stop(v)

NewsletterNext == (\E v \in Visitors : VisitorNext(v)) \/ NextHour

NewsletterSpec == NewsletterInit /\ [][NewsletterNext]_newsletterVars

\* The owner of a pending address without a link subscribes once more.
AskAgain(i) ==
  /\ subscribers[i].status = "pending" /\ i \notin mailed
  /\ \E v \in Visitors : Subscribe(v, subscribers[i].email)

\* Handlers run on, and whoever waits for a link keeps asking for it.
NewsletterFairness ==
  /\ \A v \in Visitors : WF_newsletterVars(Continue(v))
  /\ \A i \in Ids : SF_newsletterVars(AskAgain(i))

-----------------------------------------------------------------------------
(* Properties. *)

\* Every variable has its type.
NewsletterTypeOK ==
  /\ hour \in 0..MaxHour
  /\ subscribers \in [Ids -> SubscriberRow]
  /\ drawn \in 0..M
  /\ visit \in [Visitors -> Visit]
  /\ mailed \subseteq Ids /\ welcomed \subseteq Ids
  /\ stops \in 0..MaxStops

\* Two requests for one address that both found no row leave one row
\* (E9: email is unique).
OneRowPerAddress ==
  \A i, j \in Ids :
    subscribers[i].status # "none" /\ subscribers[j].status # "none" /\ i # j
      => subscribers[i].email # subscribers[j].email

\* I8 and SM3: a subscriber appears as pending, is confirmed once, unsubscribes for good
\* and is deleted at any time, unless a handler writes a copy that became stale.
DoubleOptIn ==
  [][\A i \in Ids :
       LET from == subscribers[i].status  to == subscribers'[i].status IN
       \/ from = to
       \/ CanMove(from, to)
       \/ from = "none" /\ to = "pending" /\ i \notin mailed
       \/ to = "none"
       \/ \E v \in Visitors : visit[v].step = "update" /\ visit[v].id = i /\ visit[v].stale
    ]_newsletterVars

\* TA-0079: a confirmation link works for the pending row it was made with and, once that
\* row is confirmed or deleted, never again, whatever stale copies are written.
SingleUse ==
  [][\A i \in Ids : subscribers'[i].open =>
       /\ subscribers'[i].status = "pending"
       /\ subscribers[i].open \/ (i \notin mailed /\ \E v \in Visitors :
                                    visit[v].step = "insert" /\ visit[v].id = i)
    ]_newsletterVars

\* A handler that stopped before the mail leaves a pending row and no link; asking again
\* brings the link.
LinkArrives ==
  \A i \in Ids : (subscribers[i].status = "pending")
                   ~> (i \in mailed \/ subscribers[i].status # "pending")

\* The newsletter keeps consent: an address has one row, its status moves as the double
\* opt-in says and a link works once.
ConsentKept == []OneRowPerAddress /\ DoubleOptIn /\ SingleUse

\* E9 as a whole: consent is kept, and who asks for the newsletter again gets the link.
NewsletterHonest == ConsentKept /\ LinkArrives

=============================================================================
