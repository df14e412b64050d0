---------------------------- MODULE ContentService ----------------------------
(***************************************************************************)
(* ContentService of core/services/content.py over SQLiteContentRepoAdapter.*)
(* Every call reads a row through one connection, decides on the copy, and  *)
(* saves the whole copy through another: between the two, other callers     *)
(* save theirs.                                                             *)
(***************************************************************************)
EXTENDS Integers

CONSTANTS Articles, ArticleTypes, Names, Pictures,
          Writers,        \* callers of the service
          Lead,           \* grace_seconds of validate_publish_at
          MaxNow,         \* bound: the clock
          MaxWrites       \* bound: calls that save or delete

ASSUME ArticleAssumption == Lead \in Nat /\ MaxNow \in Nat /\ MaxWrites \in Nat

VARIABLES articles,       \* content_items with their blocks
          pictures,       \* the assets the resolver finds
          drafts,         \* per caller: the copy between its read and its save
          today, writes

serviceVars == <<articles, pictures, drafts, today, writes>>

NoMoment == -1                                        \* a publish_at of None
BadName == "Bad Name"                              \* no slug, or one that is not a slug
Moments == 0..MaxNow
ArticleStatus == {"draft", "scheduled", "published"}

\* `edited` (history): publish_at came from a caller's fields, not from a schedule;
\* `agreed` (history): when the schedule was accepted.
Article == [status : ArticleStatus, type : ArticleTypes, titled : BOOLEAN,
            slug : Names \union {BadName}, pictures : SUBSET Pictures,
            at : Moments \union {NoMoment}, edited : BOOLEAN, agreed : Moments]
NoArticle == [status |-> "absent"]
NoDraft == [at |-> "rest"]
Draft == [at : {"save", "delete"}, id : Articles, row : Article]

Allowed == [s \in ArticleStatus |->
              CASE s = "draft" -> {"scheduled", "published"}
                [] s = "scheduled" -> {"draft", "published"}
                [] s = "published" -> {"draft"}]

-----------------------------------------------------------------------------
(* The checks.                                                             *)

IsValidSlug(slug) == slug # BadName
FieldsValid(row) == row.titled /\ IsValidSlug(row.slug)
TimeAhead(at) == at # NoMoment /\ at >= today + Lead

\* The guards of publishing: the fields, and every picture of the blocks.
PublishGuards(row) == FieldsValid(row) /\ row.pictures \subseteq pictures

Held(id, slug, type) == /\ articles[id] # NoArticle
                        /\ articles[id].slug = slug /\ articles[id].type = type
SlugExists(slug, type) == \E id \in Articles : Held(id, slug, type)
SlugOfOther(id, slug, type) == \E o \in Articles \ {id} : Held(o, slug, type)

\* The column is unique whatever the type: the save raises, and nothing is committed.
ColumnTaken(id, row) ==
  \E o \in Articles \ {id} : articles[o] # NoArticle /\ articles[o].slug = row.slug

-----------------------------------------------------------------------------
(* The calls, up to their save.                                            *)

Hold(w, step, id, row) ==
  /\ drafts' = [drafts EXCEPT ![w] = [at |-> step, id |-> id, row |-> row]]
  /\ UNCHANGED <<articles, pictures, today, writes>>

MayCall(w) == drafts[w] = NoDraft /\ writes < MaxWrites

\* A caller's article: whatever its status was, it starts as a draft.
Incoming == {[status |-> "draft", type |-> k, titled |-> t, slug |-> s, pictures |-> p,
              at |-> m, edited |-> (m # NoMoment), agreed |-> 0] :
               k \in ArticleTypes, t \in BOOLEAN, s \in Names \union {BadName},
               p \in SUBSET Pictures, m \in Moments \union {NoMoment}}
CreateArticle(w, id, row) ==
  /\ MayCall(w) /\ articles[id] = NoArticle
  /\ \A o \in Writers : drafts[o] # NoDraft => drafts[o].id # id
  /\ FieldsValid(row) /\ ~SlugExists(row.slug, row.type)
  /\ Hold(w, "save", id, row)

\* Any fields but the status; a slug that changes is looked up.
UpdateArticle(w, id, row) ==
  /\ FieldsValid(row)
  /\ row.slug # articles[id].slug => ~SlugOfOther(id, row.slug, row.type)
  /\ Hold(w, "save", id, row)
UpdateFields(w, id, type, titled, slug, shown) ==
  /\ MayCall(w) /\ articles[id] # NoArticle
  /\ UpdateArticle(w, id, [articles[id] EXCEPT !.type = type, !.titled = titled,
                                        !.slug = slug, !.pictures = shown])
UpdatePublishAt(w, id, at) ==
  /\ MayCall(w) /\ articles[id] # NoArticle
  /\ UpdateArticle(w, id, [articles[id] EXCEPT !.at = at, !.edited = TRUE])

DeleteArticle(w, id) ==
  /\ MayCall(w) /\ articles[id] # NoArticle
  /\ Hold(w, "delete", id, articles[id])

\* Mutant: the time is left behind when a schedule is given up.
MovedKeeping(row, to, at) ==
  [row EXCEPT !.status = to, !.at = IF to = "scheduled" THEN at ELSE @,
              !.edited = @ /\ to = "draft" /\ row.status = "published",
              !.agreed = IF to = "scheduled" THEN today ELSE @]

\* transition: schedule, publish, unpublish and unschedule are calls of it.
MovedTo(row, to, at) ==
  [row EXCEPT !.status = to,
              !.at = CASE to = "scheduled" -> at
                       [] to = "published" -> NoMoment
                       [] OTHER -> IF row.status = "scheduled" THEN NoMoment ELSE row.at,
              !.edited = @ /\ to = "draft" /\ row.status = "published",
              !.agreed = IF to = "scheduled" THEN today ELSE @]

TransitionTo(w, id, to, at) ==
  /\ MayCall(w) /\ articles[id] # NoArticle
  /\ to \in Allowed[articles[id].status]
  /\ to = "scheduled" => TimeAhead(at)
  /\ to = "published" => PublishGuards(articles[id])
  /\ Hold(w, "save", id, MovedTo(articles[id], to, at))

-----------------------------------------------------------------------------
(* The writes: the row whole and its blocks anew, in one transaction.      *)

Written(w) == /\ drafts' = [drafts EXCEPT ![w] = NoDraft]
              /\ writes' = writes + 1
              /\ UNCHANGED <<pictures, today>>

\* An upsert: a row deleted meanwhile comes back.
SaveArticle(w) ==
  LET d == drafts[w]
  IN /\ d # NoDraft /\ d.at = "save"
     /\ articles' = IF ColumnTaken(d.id, d.row) THEN articles
                    ELSE [articles EXCEPT ![d.id] = d.row]
     /\ Written(w)

RemoveArticle(w) ==
  /\ drafts[w] # NoDraft /\ drafts[w].at = "delete"
  /\ articles' = [articles EXCEPT ![drafts[w].id] = NoArticle]
  /\ Written(w)

\* Around the service: assets come and go, time passes.
AssetsChange == /\ \E p \in SUBSET Pictures : pictures' = p
                /\ UNCHANGED <<articles, drafts, today, writes>>
NextMoment == /\ today < MaxNow /\ today' = today + 1
              /\ UNCHANGED <<articles, pictures, drafts, writes>>

ServiceInit ==
  /\ articles = [a \in Articles |-> NoArticle] /\ pictures = Pictures
  /\ drafts = [w \in Writers |-> NoDraft] /\ today = 0 /\ writes = 0

CallNext(w) ==
  \E id \in Articles :
    \/ \E row \in Incoming : CreateArticle(w, id, row)
    \/ \E k \in ArticleTypes, t \in BOOLEAN, s \in Names \union {BadName}, p \in SUBSET Pictures :
         UpdateFields(w, id, k, t, s, p)
    \/ \E at \in Moments \union {NoMoment} : UpdatePublishAt(w, id, at)
    \/ DeleteArticle(w, id)
    \/ \E to \in ArticleStatus, at \in Moments \union {NoMoment} : TransitionTo(w, id, to, at)

ServiceNext ==
  \/ \E w \in Writers : CallNext(w) \/ SaveArticle(w) \/ RemoveArticle(w)
  \/ AssetsChange \/ NextMoment

ServiceSpec == ServiceInit /\ [][ServiceNext]_serviceVars

-----------------------------------------------------------------------------
ServiceTypeOK ==
  /\ articles \in [Articles -> Article \union {NoArticle}]
  /\ pictures \subseteq Pictures
  /\ drafts \in [Writers -> Draft \union {NoDraft}]
  /\ today \in Moments /\ writes \in Nat

\* One row: fields that would pass now, and a publish time that its status
\* explains, one that lay ahead when it was agreed, unless a caller set it by hand.
RowSound(row) ==
  /\ FieldsValid(row)
  /\ ~row.edited => /\ row.status = "scheduled" <=> row.at # NoMoment
                    /\ row.status = "scheduled" => row.at >= row.agreed + Lead

(* Whatever callers save over each other, every stored article has valid    *)
(* fields, no two share a slug, and no draft or published one keeps the     *)
(* time of a schedule that was given up, nor a scheduled one lacks its own. *)
ArticlesSound ==
  /\ \A a \in Articles : articles[a] # NoArticle => RowSound(articles[a])
  /\ \A a, b \in Articles :
       a # b /\ articles[a] # NoArticle /\ articles[b] # NoArticle
         => articles[a].slug # articles[b].slug
=============================================================================
