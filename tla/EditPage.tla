------------------------------- MODULE EditPage -------------------------------
(***************************************************************************)
(* The page that edits a content item                                      *)
(* (src/frontend/app/admin/content/[id]/page.tsx with                      *)
(* components/content/publishing-controls.tsx), before the routes it       *)
(* calls: the item, and the table of publish jobs in memory.               *)
(*                                                                         *)
(* A press of a button starts a handler, a series of requests each sent    *)
(* when the one before has answered.  Handlers of different buttons may    *)
(* run at once; what a request does at the server is one step here (its    *)
(* races there are those of ContentLifecycle and MemoryScheduler).         *)
(***************************************************************************)
EXTENDS Integers, Sequences

CONSTANTS
  MaxClock,     \* bound on the clock
  MaxTyped,     \* bound on the changes to the form
  MaxPresses,   \* bound on the handlers started
  MaxFailures   \* bound on the requests or answers that are lost

ASSUME EditAssumption ==
  /\ MaxClock \in Nat /\ MaxTyped \in Nat /\ MaxPresses \in Nat /\ MaxFailures \in Nat

VARIABLES
  time,
  row,        \* the item: its status, publish_at (0 for NULL) and text
  queue,      \* the job table, in the order of its dict
  page,       \* the page: what it shows, what the form holds
  runs,       \* the handlers
  typed, presses, failures,
  mingled,    \* history: two handlers were under way at once
  behind      \* history: a worker moved the item since the last fetch was answered

editVars == <<time, row, queue, page, runs, typed, presses, failures, mingled, behind>>

-----------------------------------------------------------------------------
(* Handlers and what they send. *)

Handlers == {"load", "save", "enter", "publish", "schedule", "unschedule", "unpublish", "delete"}

\* Mutant: publish_now goes out before the text.
StepsPublishFirst(h) ==
  IF h = "publish" THEN <<"now", "save", "fetch">>
  ELSE IF h = "schedule" THEN <<"save", "job", "transition", "fetch">>
  ELSE IF h \in {"save", "enter"} THEN <<"save">>
  ELSE IF h = "delete" THEN <<"delete">>
  ELSE IF h = "load" THEN <<"fetch">> ELSE <<"transition", "fetch">>

\* fetchContent, saveContent, onDelete, handlePublishNow, handleSchedule,
\* handleUnschedule, handleUnpublish.
Steps(h) ==
  CASE h = "load" -> <<"fetch">>
    [] h \in {"save", "enter"} -> <<"save">>
    [] h = "delete" -> <<"delete">>
    [] h = "publish" -> <<"save", "now", "fetch">>
    [] h = "schedule" -> <<"save", "job", "transition", "fetch">>
    [] h \in {"unschedule", "unpublish"} -> <<"transition", "fetch">>

Target(h) == IF h = "schedule" THEN "scheduled" ELSE "draft"

NoRun == [left |-> <<>>, answer |-> "waiting", text |-> 0, at |-> 0,
           got |-> [status |-> "draft", at |-> 0, text |-> 0]]

Running(h) == runs[h].left # <<>>
Sends(h, step) == Running(h) /\ Head(runs[h].left) = step /\ runs[h].answer = "waiting"
Idle(h) == ~Running(h)

EditInit ==
  /\ time = 0
  /\ row = [status |-> "draft", at |-> 0, text |-> 0]
  /\ queue = <<>>
  /\ page = [shown |-> "loading", status |-> "draft", at |-> 0, text |-> 0,
             saving |-> FALSE]
  /\ runs = [h \in Handlers |-> IF h = "load" THEN [NoRun EXCEPT !.left = Steps(h)] ELSE NoRun]
  /\ typed = 0 /\ presses = 0 /\ failures = 0
  /\ mingled = FALSE /\ behind = FALSE

-----------------------------------------------------------------------------
(* The person at the page. *)

TypeText ==
  /\ page.shown = "ready" /\ typed < MaxTyped
  /\ typed' = typed + 1
  /\ page' = [page EXCEPT !.text = typed + 1]
  /\ UNCHANGED <<time, row, queue, runs, presses, failures, mingled, behind>>

LeavePage ==
  /\ page.shown = "ready"
  /\ page' = [page EXCEPT !.shown = "left"]
  /\ UNCHANGED <<time, row, queue, runs, typed, presses, failures, mingled, behind>>

\* The buttons that are there and not disabled.  The panel of "schedule" cannot be opened
\* during a save, but one that is open can be confirmed.  The enter key submits the form at
\* any time; a second press of it before the first is answered is left out.
Pressable(h) ==
  CASE h = "save" -> page.status # "published" /\ ~page.saving
    [] h \in {"enter", "delete"} -> TRUE
    [] h = "publish" -> page.status = "scheduled" \/ (page.status = "draft" /\ ~page.saving)
    [] h = "schedule" -> page.status = "draft"
    [] h = "unschedule" -> page.status = "scheduled"
    [] h = "unpublish" -> page.status = "published"
    [] OTHER -> FALSE

\* form.getValues() is read when the handler starts; the date is the panel's.
Press(h) ==
  /\ page.shown = "ready" /\ presses < MaxPresses /\ Pressable(h) /\ Idle(h)
  /\ presses' = presses + 1
  /\ \E at \in IF h = "schedule" THEN time .. MaxClock ELSE {0} :
       runs' = [runs EXCEPT ![h] = [NoRun EXCEPT !.left = Steps(h), !.text = page.text, !.at = at]]
  /\ page' = [page EXCEPT !.saving = @ \/ Head(Steps(h)) = "save"]
  /\ mingled' = (mingled \/ \E other \in Handlers : Running(other))
  /\ UNCHANGED <<time, row, queue, typed, failures, behind>>

-----------------------------------------------------------------------------
(* The job table and its workers. *)

IsDue(j) == \/ j.state = "queued" /\ j.at <= time
            \/ j.state = "retry" /\ j.next <= time

NewJob(of, at) == [of |-> of, at |-> at, state |-> "queued", next |-> 0]

\* list_due_jobs with the limit 1: the first entry of the dict.
FirstDue(q) == {i \in DOMAIN q : IsDue(q[i]) /\ \A k \in 1 .. i - 1 : ~IsDue(q[k])}

\* claim_next and execute_job over table q.  A job that failed once is refused to every
\* claim (claimed_jobs), and it stands before those that come after it.  The publisher
\* does not find an item that is gone, nor a PDF resource, which is in another table.
ClaimAndExecute(q) ==
  LET first == FirstDue(q) IN
  IF \A i \in first : q[i].state = "retry"
  THEN queue' = q /\ row' = row
  ELSE LET i == CHOOSE i \in first : TRUE IN
       \E ok \in IF q[i].of = "this" THEN {row.status # "gone"} ELSE BOOLEAN :
         /\ queue' = IF ok THEN [q EXCEPT ![i].state = "over"]
                     ELSE [q EXCEPT ![i].state = "retry", ![i].next = time + 1]
         /\ row' = IF ok /\ q[i].of = "this" THEN [row EXCEPT !.status = "published"] ELSE row

\* run-due-jobs, from outside.
RunDueJobs ==
  /\ FirstDue(queue) # {}
  /\ ClaimAndExecute(queue)
  /\ <<queue, row>>' # <<queue, row>>
  /\ behind' = (behind \/ row'.status # row.status)
  /\ UNCHANGED <<time, page, runs, typed, presses, failures, mingled>>

\* "Publish" on another page, for another item or a PDF resource.
OtherJob ==
  /\ \A i \in DOMAIN queue : queue[i].of = "this"
  /\ queue' = Append(queue, NewJob("other", time))
  /\ UNCHANGED <<time, row, page, runs, typed, presses, failures, mingled, behind>>

-----------------------------------------------------------------------------
(* The routes. *)

ReplyTo(h, ok) == runs' = [runs EXCEPT ![h].answer = IF ok THEN "ok" ELSE "error"]
AtServer == UNCHANGED <<time, page, typed, presses, failures, mingled>>

\* PUT /content/{id}: the status is the row's.
ServeUpdate(h) ==
  /\ Sends(h, "save") /\ AtServer
  /\ ReplyTo(h, row.status # "gone")
  /\ row' = IF row.status = "gone" THEN row ELSE [row EXCEPT !.text = runs[h].text]
  /\ UNCHANGED <<queue, behind>>

\* DELETE /content/{id}.
ServeDelete(h) ==
  /\ Sends(h, "delete") /\ AtServer
  /\ ReplyTo(h, row.status \in {"draft", "scheduled"})
  /\ row' = IF row.status = "published" THEN row ELSE [row EXCEPT !.status = "gone"]
  /\ UNCHANGED <<queue, behind>>

\* POST /publish-now: a job for now, then the first due job, whichever that is.  The
\* answer is 200 whether anything was published or not.
ServePublishNow(h) ==
  /\ Sends(h, "now") /\ AtServer
  /\ ReplyTo(h, TRUE)
  /\ ClaimAndExecute(Append(queue, NewJob("this", time)))
  /\ UNCHANGED behind

\* POST /schedule: up to two minutes late is accepted; a job of that time is reused.
ServeSchedule(h) ==
  /\ Sends(h, "job") /\ AtServer
  /\ LET at == runs[h].at
         known == \E i \in DOMAIN queue : queue[i].of = "this" /\ queue[i].at = at
     IN  /\ ReplyTo(h, at >= time)
         /\ queue' = IF at >= time /\ ~known THEN Append(queue, NewJob("this", at)) ELSE queue
  /\ UNCHANGED <<row, behind>>

\* DEFAULT_TRANSITIONS.
MayMove(from, to) ==
  <<from, to>> \in {<<"draft", "scheduled">>, <<"scheduled", "draft">>, <<"published", "draft">>}

\* POST /content/{id}/transition: a time for "scheduled" must lie ten seconds ahead.
ServeTransition(h) ==
  /\ Sends(h, "transition") /\ AtServer
  /\ LET to == Target(h)
         ok == MayMove(row.status, to) /\ (to = "scheduled" => runs[h].at > time)
     IN  /\ ReplyTo(h, ok)
         /\ row' = IF ~ok THEN row
                   ELSE [row EXCEPT !.status = to,
                           !.at = IF to = "scheduled" THEN runs[h].at
                                  ELSE IF row.status = "scheduled" THEN 0 ELSE @]
  /\ UNCHANGED <<queue, behind>>

\* GET /content/{id}.
ServeGet(h) ==
  /\ Sends(h, "fetch") /\ AtServer
  /\ runs' = IF row.status = "gone" THEN [runs EXCEPT ![h].answer = "error"]
             ELSE [runs EXCEPT ![h].answer = "ok", ![h].got = row]
  /\ behind' = FALSE
  /\ UNCHANGED <<row, queue>>

\* A request, or the answer to one, is lost.
LoseRequest(h) ==
  /\ Running(h) /\ runs[h].answer # "error" /\ failures < MaxFailures
  /\ failures' = failures + 1
  /\ ReplyTo(h, FALSE)
  /\ UNCHANGED <<time, row, queue, page, typed, presses, mingled, behind>>

-----------------------------------------------------------------------------
(* The handlers go on. *)

Received(h) == /\ Running(h) /\ runs[h].answer # "waiting"
               /\ UNCHANGED <<time, row, queue, typed, presses, failures, mingled, behind>>

\* An answer: the next request, or the end.
Proceed(h) ==
  /\ Received(h) /\ runs[h].answer = "ok"
  /\ LET step == Head(runs[h].left)
         rest == Tail(runs[h].left)
     IN  /\ runs' = [runs EXCEPT ![h] = IF rest = <<>> THEN NoRun
                       ELSE [@ EXCEPT !.left = rest, !.answer = "waiting"]]
         /\ page' = IF step = "fetch"
                    THEN [page EXCEPT !.shown = IF @ = "loading" THEN "ready" ELSE @,
                            !.status = runs[h].got.status, !.at = runs[h].got.at, !.text = runs[h].got.text]
                    ELSE [page EXCEPT !.saving = @ /\ step # "save",
                            !.shown = IF step = "delete" THEN "left" ELSE @]

\* An error ends the handler; a failed fetch also leaves the page.
GiveUp(h) ==
  /\ Received(h) /\ runs[h].answer = "error"
  /\ runs' = [runs EXCEPT ![h] = NoRun]
  /\ page' = [page EXCEPT !.saving = @ /\ Head(runs[h].left) # "save",
                !.shown = IF Head(runs[h].left) = "fetch" THEN "left" ELSE @]

PassTick ==
  /\ time < MaxClock
  /\ time' = time + 1
  /\ UNCHANGED <<row, queue, page, runs, typed, presses, failures, mingled, behind>>

EditNext ==
  \/ TypeText \/ LeavePage \/ RunDueJobs \/ OtherJob \/ PassTick
  \/ \E h \in Handlers :
       \/ Press(h) \/ Proceed(h) \/ GiveUp(h) \/ LoseRequest(h)
       \/ ServeUpdate(h) \/ ServeDelete(h) \/ ServePublishNow(h)
       \/ ServeSchedule(h) \/ ServeTransition(h) \/ ServeGet(h)

EditSpec == EditInit /\ [][EditNext]_editVars

-----------------------------------------------------------------------------
(* Properties. *)

EditTypeOK ==
  /\ time \in 0 .. MaxClock
  /\ row.status \in {"draft", "scheduled", "published", "gone"} /\ row.at \in 0 .. MaxClock
  /\ page.shown \in {"loading", "ready", "left"}
  /\ \A i \in DOMAIN queue : queue[i].state \in {"queued", "over", "retry"}
  /\ {mingled, behind} \subseteq BOOLEAN

\* An item the page scheduled has a job waiting for its time: it is not left scheduled
\* for ever because a later request of the handler failed.
ScheduledHasJob ==
  row.status = "scheduled" =>
    \E i \in DOMAIN queue : queue[i].of = "this" /\ queue[i].at = row.at /\ queue[i].state = "queued"

\* When nothing is under way the page shows the status and date of the item, unless a
\* worker moved it since, an answer was lost, or two handlers overlapped.
StatusShown ==
  (/\ page.shown = "ready" /\ ~mingled /\ ~behind /\ failures = 0
   /\ \A h \in Handlers : Idle(h))
  => page.status = row.status /\ page.at = row.at

\* The text "Publish Now" publishes is the one on the screen when it was pressed.
PublishedAsShown ==
  [][row'.status = "published" /\ row.status # "published" /\ ~mingled
       /\ (\E h \in Handlers : Sends(h, "now") /\ runs'[h].answer = "ok")
     => row'.text = runs["publish"].text]_editVars

\* The requests of a handler reach the server in an order that leaves no item without
\* its job, publishes no other text than the one shown, and ends with the page up to date.
EditorSound == [](EditTypeOK /\ ScheduledHasJob /\ StatusShown) /\ PublishedAsShown
=============================================================================
