------------------------------- MODULE Reader -------------------------------
(***************************************************************************)
(* What runs in a reader's browser: the measurement of a visit             *)
(* (src/frontend/hooks/useEngagementTracking.ts), the bar of progress,      *)
(* reading aloud, the share menu and the newsletter form of an article      *)
(* (src/frontend/components/reader), and the two pages the newsletter's     *)
(* links lead to (src/frontend/app/newsletter).                            *)
(*                                                                         *)
(* They share no state: `widget` is the one a behaviour is about.  What the *)
(* browser does (its events, its speech engine, its clipboard) is taken     *)
(* from how these components use it.                                       *)
(***************************************************************************)
EXTENDS Integers, Sequences

CONSTANTS
  MaxHalves,    \* bound on the clock of a visit, in half seconds
  Bottom,       \* bound: positions on a page, from 0
  MaxClicks     \* bound on what is pressed, spoken, sent or opened

ASSUME ReaderAssumption == MaxHalves \in Nat /\ Bottom \in Nat /\ MaxClicks \in Nat

VARIABLES widget, visit, speech, share, form, letter

readerVars == <<widget, visit, speech, share, form, letter>>

Widgets == {"visit", "speech", "share", "form", "letter"}
Pieces == {"this post", "that post"}

-----------------------------------------------------------------------------
(* The measurement of a visit. *)

\* Math.round of half seconds, and of nothing else: depths are whole here.
Seconds(halves) == (halves + 1) \div 2

Higher(a, b) == IF a > b THEN a ELSE b

NoBeacon == [of |-> "none"]

\* The effect at mount, for the piece it is given.  A frame asked for before is still to come.
Mounted(v, piece, at) ==
  [piece |-> piece, here |-> TRUE, hidden |-> v.hidden, now |-> v.now, last |-> v.now, total |-> 0,
   seen |-> ~v.hidden, sent |-> FALSE, depth |-> at, at |-> at, bar |-> at,
   ticking |-> FALSE, late |-> v.late \/ v.ticking, shown |-> 0, deepest |-> at, told |-> 0,
   parted |-> FALSE, missed |-> v.missed, beacon |-> v.beacon]

\* updateVisibleTime.
Counted(v) ==
  IF v.seen THEN [v EXCEPT !.total = @ + v.now - v.last, !.last = v.now] ELSE v

\* sendEngagementData: once for each time the page is on the screen, and not below a second.
\* The beacon carries, for the properties, what the visit really was.
SendEngagementData(v) ==
  IF v.sent THEN v
  ELSE LET c == Counted(v) IN
       IF Seconds(c.total) < 1 THEN c
       ELSE [c EXCEPT !.sent = TRUE, !.told = Seconds(c.total),
               !.beacon = [of |-> c.piece, time |-> Seconds(c.total), depth |-> c.depth,
                           shown |-> Seconds(c.shown), deepest |-> c.deepest]]

\* A visit that lasted a second and was not reported in full.
Untold(v) == ~v.parted /\ Seconds(v.shown) >= 1 /\ v.told # Seconds(v.shown)

VisitInit ==
  \E hidden \in BOOLEAN, at \in 0 .. Bottom :
    visit = Mounted([hidden |-> hidden, now |-> 0, ticking |-> FALSE, late |-> FALSE,
                     missed |-> FALSE, beacon |-> NoBeacon], "this post", at)

PassHalf ==
  /\ visit.here /\ visit.now < MaxHalves
  /\ visit' = [visit EXCEPT !.now = @ + 1, !.shown = IF visit.hidden THEN @ ELSE @ + 1]

\* The scroll listeners: one frame is asked for, whatever happens until it comes.
ScrollTo(at) ==
  /\ visit.here /\ ~visit.hidden /\ at # visit.at
  /\ visit' = [visit EXCEPT !.at = at, !.ticking = TRUE, !.deepest = Higher(@, at)]

\* The frame: updateScrollDepth and updateProgress, where the page is then.  One that was
\* asked for before a navigation may come after it.  A hidden page gets no frames.
Frame(old) ==
  /\ visit.here /\ ~visit.hidden
  /\ IF old THEN visit.late ELSE visit.ticking
  /\ visit' = [visit EXCEPT !.depth = Higher(@, visit.at), !.bar = visit.at,
                 !.ticking = @ /\ old, !.late = @ /\ ~old]

Hide ==
  /\ visit.here /\ ~visit.hidden
  /\ visit' = SendEngagementData([Counted(visit) EXCEPT !.seen = FALSE, !.hidden = TRUE])

\* Mutant: the time the page was hidden is counted as well.
ShowUnmarked ==
  /\ visit.here /\ visit.hidden
  /\ visit' = [visit EXCEPT !.seen = TRUE, !.sent = FALSE, !.hidden = FALSE, !.parted = FALSE]

Show ==
  /\ visit.here /\ visit.hidden
  /\ visit' = [visit EXCEPT !.last = visit.now, !.seen = TRUE, !.sent = FALSE,
                 !.hidden = FALSE, !.parted = FALSE]

\* beforeunload, after which the page may stay (a download, a question answered "stay").
BeforeUnload(stays) ==
  /\ visit.here
  /\ visit' = [SendEngagementData(visit) EXCEPT !.here = stays, !.parted = @ \/ stays]

\* The cleanup of the effect, and the effect again when another piece is shown: in the
\* same component or a new one.
Navigate(piece, at) ==
  /\ visit.here /\ piece # visit.piece
  /\ LET left == SendEngagementData(visit) IN
     visit' = [Mounted(left, piece, at) EXCEPT !.missed = @ \/ Untold(left)]

Unmount ==
  /\ visit.here
  /\ visit' = [SendEngagementData(visit) EXCEPT !.here = FALSE]

VisitNext ==
  \/ PassHalf \/ Hide \/ Show \/ Unmount
  \/ \E at \in 0 .. Bottom : ScrollTo(at) \/ \E piece \in Pieces : Navigate(piece, at)
  \/ \E b \in BOOLEAN : Frame(b) \/ BeforeUnload(b)

-----------------------------------------------------------------------------
(* Reading aloud.  window.speechSynthesis speaks one utterance, can be      *)
(* paused whether it speaks or not, and tells the end of an utterance, or   *)
(* that it was cancelled, some time later.                                 *)

\* speechSynthesis.cancel(): it stays paused if it was.
Cancelled(s) ==
  IF s.current = 0 THEN s
  ELSE [s EXCEPT !.current = 0, !.events = Append(@, s.current), !.muffled = FALSE]

SpeechInit ==
  \E loaded \in BOOLEAN :
    speech = [here |-> TRUE, ui |-> "stopped", loaded |-> loaded, voice |-> IF loaded THEN "one" ELSE "",
              current |-> 0, paused |-> FALSE, events |-> <<>>, spoken |-> 0,
              crossed |-> FALSE, muffled |-> FALSE]

\* loadVoices, when the browser has them; an English voice is chosen if there is one, and a
\* choice runs the effect's cleanup.
VoicesChanged ==
  /\ speech.here /\ ~speech.loaded
  /\ \/ speech' = [speech EXCEPT !.loaded = TRUE]
     \/ speech' = [Cancelled(speech) EXCEPT !.loaded = TRUE, !.voice = "one"]

ChooseVoice(v) ==
  /\ speech.here /\ speech.loaded /\ speech.ui # "playing" /\ v # speech.voice
  /\ speech' = [Cancelled(speech) EXCEPT !.voice = v]

\* play: what is paused is resumed, anything else is cancelled and the text spoken anew.
Play ==
  /\ speech.here /\ speech.ui # "playing"
  /\ IF speech.ui = "paused"
     THEN speech' = [speech EXCEPT !.ui = "playing", !.paused = FALSE, !.muffled = FALSE]
     ELSE /\ speech.spoken < MaxClicks
          /\ speech' = [Cancelled(speech) EXCEPT !.ui = "playing", !.spoken = @ + 1,
                          !.current = speech.spoken + 1, !.crossed = FALSE,
                          !.muffled = speech.paused]

Pause ==
  /\ speech.here /\ speech.ui = "playing"
  /\ speech' = [speech EXCEPT !.ui = "paused", !.paused = TRUE]

StopSpeech ==
  /\ speech.here /\ speech.ui # "stopped"
  /\ speech' = [Cancelled(speech) EXCEPT !.ui = "stopped"]

FinishSpeaking ==
  /\ speech.current # 0 /\ ~speech.paused
  /\ speech' = Cancelled(speech)

\* onend, onerror: "stopped", whichever utterance it is of.
SpeechEvent ==
  /\ speech.here /\ speech.events # <<>>
  /\ speech' = [speech EXCEPT !.events = Tail(@), !.ui = "stopped",
                  !.crossed = (speech.current # 0)]

\* The cleanup at unmount.
LeaveSpeech ==
  /\ speech.here
  /\ speech' = [Cancelled(speech) EXCEPT !.here = FALSE]

SpeechNext ==
  \/ VoicesChanged \/ Play \/ Pause \/ StopSpeech \/ FinishSpeaking \/ SpeechEvent \/ LeaveSpeech
  \/ \E v \in {"one", "two"} : ChooseVoice(v)

-----------------------------------------------------------------------------
(* The share menu. *)

Platforms == {"twitter", "linkedin", "facebook", "native"}

\* mobile: canUseNativeShare() and isMobileDevice().
ShareInit ==
  \E mobile \in BOOLEAN :
    share = [mobile |-> mobile, open |-> FALSE, loading |-> "none", answer |-> "none",
             copied |-> FALSE, timers |-> 0, clicks |-> 0, holds |-> FALSE]

ToggleMenu == share' = [share EXCEPT !.open = ~@]

\* A menu item: the menu closes, the address is asked for.
ChooseShare(p) ==
  /\ share.open /\ share.loading = "none" /\ share.clicks < MaxClicks
  /\ share' = [share EXCEPT !.open = FALSE, !.loading = p, !.answer = "awaited",
                 !.clicks = @ + 1]

FetchShareUrl ==
  /\ share.answer = "awaited"
  /\ \E a \in {"address", "failed"} : share' = [share EXCEPT !.answer = a]

\* `finally`.
Ended(s) == [s EXCEPT !.loading = "none", !.open = FALSE, !.answer = "none"]

\* handleNativeShare, handleCopyLink (the clipboard may refuse) and handlePlatformShare.
FinishShare ==
  /\ share.answer \in {"address", "failed"}
  /\ \/ share' = Ended(share)
     \/ /\ share.answer = "address" /\ share.loading = "native" /\ ~share.mobile
        /\ share' = [Ended(share) EXCEPT !.copied = TRUE, !.holds = TRUE, !.timers = @ + 1]

\* setTimeout(() => setCopied(false)): each copy has its own.
CopiedTimer ==
  /\ share.timers > 0
  /\ share' = [share EXCEPT !.timers = @ - 1, !.copied = FALSE]

ShareNext == ToggleMenu \/ FetchShareUrl \/ FinishShare \/ CopiedTimer \/ \E p \in Platforms : ChooseShare(p)

-----------------------------------------------------------------------------
(* The newsletter form. *)

\* Nothing, no address, an address the server refuses, one it takes.
Addresses == {"", "no address", "refused", "taken"}

FormInit == form = [typed |-> "", shows |-> "idle", answer |-> "none", accepted |-> FALSE,
                    sends |-> 0, failed |-> FALSE]

TypeAddress(a) ==
  /\ form.shows \in {"idle", "error"} /\ a # form.typed
  /\ form' = [form EXCEPT !.typed = a]

\* handleSubmit up to its request.
Submit ==
  /\ form.shows \in {"idle", "error"} /\ form.sends < MaxClicks
  /\ form' = IF form.typed \in {"", "no address"} THEN [form EXCEPT !.shows = "error", !.accepted = FALSE]
             ELSE [form EXCEPT !.shows = "loading", !.answer = "awaited", !.sends = @ + 1,
                     !.accepted = FALSE, !.failed = FALSE]

\* POST /newsletter/subscribe: 429 for either address; a mail that cannot be sent fails the
\* request after the row is written.
ServeSubscribe ==
  /\ form.answer = "awaited"
  /\ \/ form' = [form EXCEPT !.answer = "429"]
     \/ form.typed = "refused" /\ form' = [form EXCEPT !.answer = "400"]
     \/ /\ form.typed = "taken"
        /\ form' = [form EXCEPT !.answer = "200", !.accepted = TRUE]
     \/ /\ form.typed = "taken"
        /\ form' = [form EXCEPT !.answer = "500", !.accepted = TRUE, !.failed = TRUE]

LoseSubscribe ==
  /\ form.answer \in {"awaited", "200"}
  /\ form' = [form EXCEPT !.answer = "lost", !.failed = TRUE]

\* The rest of handleSubmit.
TakeSubscribe ==
  /\ form.answer \notin {"none", "awaited"}
  /\ form' = IF form.answer = "200" THEN [form EXCEPT !.shows = "success", !.typed = "", !.answer = "none"]
             ELSE [form EXCEPT !.shows = "error", !.answer = "none"]

\* "Subscribe another email".
Another == form.shows = "success" /\ form' = [form EXCEPT !.shows = "idle"]

FormNext == \/ Submit \/ ServeSubscribe \/ LoseSubscribe \/ TakeSubscribe \/ Another
            \/ \E a \in Addresses : TypeAddress(a)

-----------------------------------------------------------------------------
(* The pages behind the newsletter's links. *)

Goal(kind) == IF kind = "confirm" THEN "confirmed" ELSE "unsubscribed"

\* The page as the link opens it: without a token it asks nothing.
LetterInit ==
  \E kind \in {"confirm", "unsubscribe"}, token \in BOOLEAN :
    \E person \in IF kind = "confirm" THEN {"pending", "expired"} ELSE {"confirmed", "deleted"} :
      letter = [kind |-> kind, token |-> token, person |-> person, opened |-> 1, failed |-> FALSE,
                shows |-> IF token THEN "loading" ELSE "error",
                answer |-> IF token THEN "awaited" ELSE "none"]

\* run_confirm forgets the token it confirmed by, so that the link is unknown afterwards;
\* run_unsubscribe keeps it.
ServeLetter ==
  /\ letter.answer = "awaited"
  /\ letter' = IF <<letter.kind, letter.person>> \in {<<"confirm", "pending">>, <<"unsubscribe", "confirmed">>}
               THEN [letter EXCEPT !.person = Goal(letter.kind), !.answer = "done"]
               ELSE IF <<letter.kind, letter.person>> = <<"unsubscribe", "unsubscribed">>
               THEN [letter EXCEPT !.answer = "already"]
               ELSE [letter EXCEPT !.answer = "refused"]

LoseLetter ==
  /\ letter.answer \in {"awaited", "done"}
  /\ letter' = [letter EXCEPT !.answer = "refused", !.failed = TRUE]

TakeLetter ==
  /\ letter.answer \in {"done", "already", "refused"}
  /\ letter' = [letter EXCEPT !.answer = "none",
                  !.shows = CASE letter.answer = "done" -> "success"
                              [] letter.answer = "already" -> "already"
                              [] OTHER -> "error"]

\* The page reloaded, or the link opened again.
OpenAgain ==
  /\ letter.token /\ letter.answer = "none" /\ letter.opened < MaxClicks
  /\ letter' = [letter EXCEPT !.shows = "loading", !.answer = "awaited", !.opened = @ + 1]

LetterNext == ServeLetter \/ LoseLetter \/ TakeLetter \/ OpenAgain

-----------------------------------------------------------------------------

ReaderInit ==
  /\ widget \in Widgets
  /\ VisitInit /\ SpeechInit /\ ShareInit /\ FormInit /\ LetterInit
  /\ widget # "visit" => ~visit.hidden /\ visit.at = 0
  /\ widget # "speech" => ~speech.loaded
  /\ widget # "share" => ~share.mobile
  /\ widget # "letter" => letter.kind = "confirm" /\ letter.token /\ letter.person = "pending"

ReaderNext ==
  /\ UNCHANGED widget
  /\ IF widget = "visit" THEN VisitNext ELSE UNCHANGED visit
  /\ IF widget = "speech" THEN SpeechNext ELSE UNCHANGED speech
  /\ IF widget = "share" THEN ShareNext ELSE UNCHANGED share
  /\ IF widget = "form" THEN FormNext ELSE UNCHANGED form
  /\ IF widget = "letter" THEN LetterNext ELSE UNCHANGED letter

ReaderSpec == ReaderInit /\ [][ReaderNext]_readerVars

-----------------------------------------------------------------------------
(* Properties. *)

ReaderTypeOK ==
  /\ widget \in Widgets
  /\ visit.total \in 0 .. MaxHalves /\ visit.depth \in 0 .. Bottom /\ visit.piece \in Pieces
  /\ speech.ui \in {"stopped", "playing", "paused"} /\ speech.current \in 0 .. MaxClicks
  /\ share.loading \in Platforms \cup {"none"} /\ share.timers \in 0 .. MaxClicks
  /\ form.typed \in Addresses /\ form.shows \in {"idle", "loading", "success", "error"}
  /\ letter.shows \in {"loading", "success", "already", "error"}

\* A beacon tells the time its own piece was on the screen, neither the hidden spells nor
\* another piece's, and no depth that was not reached; a visit of a second or more is told
\* in full when it is hidden or left; the bar ends where the page is.  An unload that did
\* not happen takes the time until the page is hidden and shown again with it.
VisitTold ==
  /\ visit.beacon # NoBeacon =>
       visit.beacon.time = visit.beacon.shown /\ visit.beacon.depth <= visit.beacon.deepest
  /\ visit.hidden \/ ~visit.here => ~Untold(visit)
  /\ ~visit.missed
  /\ visit.here /\ ~visit.ticking /\ ~visit.late => visit.bar = visit.at

\* Nothing is spoken once the page is left, and once the events have come the buttons say
\* what the engine does, except after the event of an utterance already replaced by
\* another, or where the engine was still paused from before.
SpeechShown ==
  /\ ~speech.here => speech.current = 0
  /\ (speech.here /\ speech.events = <<>> /\ ~speech.crossed) =>
       /\ speech.ui = "stopped" <=> speech.current = 0
       /\ speech.ui = "paused" => speech.paused
       /\ speech.ui = "playing" => speech.muffled \/ ~speech.paused

\* The menu is never left waiting, and says "Copied!" only of a link it has copied, and
\* not for ever.
ShareSettles ==
  /\ share.loading = "none" <=> share.answer = "none"
  /\ share.copied => share.holds /\ share.timers > 0

\* What the form and the pages say is what happened at the server, unless an answer failed.
\* A page that says "failed" may be that of a link already used.
AnswersTrue ==
  /\ form.shows = "success" => form.accepted
  /\ form.shows = "error" /\ form.accepted => form.failed
  /\ form.shows = "loading" <=> form.answer # "none"
  /\ letter.shows \in {"success", "already"} => letter.person = Goal(letter.kind)
  /\ (letter.shows = "error" /\ letter.person = Goal(letter.kind)) => letter.failed \/ letter.opened > 1

ReaderHonest == ReaderTypeOK /\ VisitTold /\ SpeechShown /\ ShareSettles /\ AnswersTrue
=============================================================================
