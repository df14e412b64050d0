---------------------------- MODULE ResourcePages ----------------------------
(***************************************************************************)
(* The pages that make and edit a PDF resource                             *)
(* (src/frontend/app/admin/resources/new/page.tsx and [id]/page.tsx) before *)
(* the service of Resources.                                               *)
(*                                                                         *)
(* The edit page fills its form from what a fetch answers, and a save sends *)
(* the form: a field that was emptied is left out of the request, and what  *)
(* a request leaves out keeps its value.                                   *)
(***************************************************************************)
EXTENDS Resources

CONSTANTS
  TypedSlugs,  \* bound: the slugs the person types, the empty one besides
  MaxCalls,    \* bound on the requests under way
  MaxOthers    \* bound on the requests of others and on those of the page that are lost

ASSUME ResourcePageAssumption ==
  TypedSlugs \subseteq SlugValues /\ MaxCalls \in Nat \ {0} /\ MaxOthers \in Nat

VARIABLES
  sheet,       \* the page: at "new", "edit" or "left", its resource, its flags, its form
  calls,       \* its requests under way, in the order they were sent
  others,      \* how often others asked, or a request was lost
  agreed       \* history: since the last answer put in the form, or the last save that was
               \* confirmed, was asked for, neither the person, nor others, nor a later
               \* save has changed anything

resourcePageVars == <<resourceVars, sheet, calls, others, agreed>>

\* auto: generateSlug of the title on the screen.
Form == [titled : BOOLEAN, slug : SlugValues \cup {""}, auto : Slugs \cup {""},
         pdf : AssetValues, policy : PolicyValues]
EmptyForm == [titled |-> FALSE, slug |-> "", auto |-> "", pdf |-> Nil, policy |-> "latest"]

\* setTitle, setSlug, setPdfAssetId, setPinnedPolicy with a resource's values.
Filled(f) == [EmptyForm EXCEPT !.titled = f.titled, !.slug = f.slug, !.pdf = f.asset, !.policy = f.policy]

ResourcePageInit ==
  /\ ResourceInit
  /\ sheet = [at |-> "new", of |-> Nil, loading |-> FALSE, saving |-> FALSE,
              publishing |-> FALSE, form |-> EmptyForm]
  /\ calls = <<>> /\ others = 0 /\ agreed = FALSE

-----------------------------------------------------------------------------
(* The person at the page. *)

\* The form changed: a save under way is no longer of what it shows.  The store changed:
\* nor is what was answered before still what it holds.
FormChanged(s)  == [i \in DOMAIN s |-> IF s[i].kind = "save" THEN [s[i] EXCEPT !.clean = FALSE] ELSE s[i]]
StoreChanged(s, kinds) ==
  [i \in DOMAIN s |-> IF s[i].kind \in kinds /\ s[i].state # "sent" THEN [s[i] EXCEPT !.clean = FALSE] ELSE s[i]]

Fill(form) ==
  /\ sheet.at # "left" /\ ~sheet.loading /\ form # sheet.form
  /\ sheet' = [sheet EXCEPT !.form = form]
  /\ calls' = FormChanged(calls) /\ agreed' = FALSE
  /\ UNCHANGED <<resourceVars, others>>

\* handleTitleChange of the new page replaces a slug that is empty or was generated; the
\* slug of a title of signs alone is empty.
TypeTitle(titled, auto) ==
  /\ auto # "" => titled
  /\ LET form == sheet.form IN
     IF sheet.at = "new"
     THEN Fill([form EXCEPT !.titled = titled, !.auto = auto,
                            !.slug = IF @ \in {"", form.auto} THEN auto ELSE @])
     ELSE auto = "" /\ Fill([form EXCEPT !.titled = titled])

TypeSlug(slug)  == Fill([sheet.form EXCEPT !.slug = slug])
ChoosePdf(pdf)  == Fill([sheet.form EXCEPT !.pdf = pdf])
ChooseLatest    == Fill([sheet.form EXCEPT !.policy = "latest"])

Call(kind, form) == [kind |-> kind, state |-> "sent", form |-> form, clean |-> TRUE]

Send(call, page) ==
  /\ Len(calls) < MaxCalls
  /\ sheet' = page
  /\ calls' = Append(calls, call)
  /\ UNCHANGED <<resourceVars, others, agreed>>

\* Mutant: the button is not disabled while a save is under way.
SaveAgain ==
  /\ sheet.at # "left" /\ ~sheet.loading
  /\ sheet.form.titled /\ sheet.form.slug # ""
  /\ Send(Call(IF sheet.at = "new" THEN "create" ELSE "save", sheet.form), [sheet EXCEPT !.saving = TRUE])

\* handleSubmit and handleSave: nothing is sent without a title and a slug.
Save ==
  /\ sheet.at # "left" /\ ~sheet.loading /\ ~sheet.saving
  /\ sheet.form.titled /\ sheet.form.slug # ""
  /\ Send(Call(IF sheet.at = "new" THEN "create" ELSE "save", sheet.form), [sheet EXCEPT !.saving = TRUE])

\* handlePublish looks at the form alone, saved or not.
PublishPressed ==
  /\ sheet.at = "edit" /\ ~sheet.loading /\ ~sheet.publishing /\ sheet.form.pdf # Nil
  /\ Send(Call("publish", EmptyForm), [sheet EXCEPT !.publishing = TRUE])

\* handleDelete: no flag keeps the dialog from being opened again.
DeletePressed == sheet.at = "edit" /\ ~sheet.loading /\ Send(Call("delete", EmptyForm), sheet)

\* The state of a page that is left is gone; its handlers go on.
Gone == [sheet EXCEPT !.at = "left", !.loading = FALSE, !.saving = FALSE, !.publishing = FALSE,
                      !.form = EmptyForm]

LeaveSheet ==
  /\ sheet.at # "left"
  /\ sheet' = Gone /\ agreed' = FALSE
  /\ UNCHANGED <<resourceVars, calls, others>>

-----------------------------------------------------------------------------
(* The server. *)

\* JSON leaves out what is undefined: an emptied selection keeps the PDF that is stored.
Body(form, old) ==
  [titled |-> form.titled, slug |-> form.slug, policy |-> form.policy, version |-> old.version,
   asset |-> IF form.pdf = Nil THEN old.asset ELSE form.pdf]

New == [titled |-> FALSE, slug |-> Nil, asset |-> Nil, version |-> Nil, policy |-> "latest"]

Answered(i, state) == [calls EXCEPT ![i].state = state, ![i].form = EmptyForm]

ServeCreate(i) ==
  /\ calls[i].kind = "create" /\ calls[i].state = "sent"
  /\ LET f == Body(calls[i].form, New) IN
     IF FieldErrors(f) \/ PolicyErrors(f) \/ BySlug(stored, f.slug) # {}
     THEN calls' = Answered(i, "refused") /\ UNCHANGED <<resourceVars, sheet>>
     ELSE \E r \in Resources : /\ CreateResource(r, f)
                               /\ calls' = Answered(i, "done")
                               /\ sheet' = [sheet EXCEPT !.of = r]
  /\ UNCHANGED <<others, agreed>>

ServeSave(i) ==
  /\ calls[i].kind = "save" /\ calls[i].state = "sent"
  /\ IF sheet.of \in Live
     THEN /\ UpdateResource(sheet.of, Body(calls[i].form, stored[sheet.of]), TRUE)
          /\ calls' = [StoreChanged(calls, {"fetch"}) EXCEPT
                ![i].state = IF sheet.of \in spoiled' THEN "refused" ELSE "done", ![i].form = EmptyForm]
          /\ agreed' = FALSE
     ELSE calls' = Answered(i, "refused") /\ UNCHANGED <<resourceVars, agreed>>
  /\ UNCHANGED <<sheet, others>>

ServeSheetDelete(i) ==
  /\ calls[i].kind = "delete" /\ calls[i].state = "sent"
  /\ IF sheet.of \in Live
     THEN /\ DeleteResource(sheet.of)
          /\ calls' = [StoreChanged(calls, {"fetch", "save"}) EXCEPT ![i].state = "done"] /\ agreed' = FALSE
     ELSE calls' = Answered(i, "refused") /\ UNCHANGED <<resourceVars, agreed>>
  /\ UNCHANGED <<sheet, others>>

\* get_resource; and publish_now, which answers 200 without having found the resource: it
\* looks for an item of content.
ServeAsked(i) ==
  /\ calls[i].kind \in {"fetch", "publish"} /\ calls[i].state = "sent"
  /\ calls' = IF calls[i].kind = "publish" THEN Answered(i, "done")
              ELSE IF sheet.of \notin Live THEN Answered(i, "refused")
              ELSE [calls EXCEPT ![i].state = "done", ![i].form = Filled(stored[sheet.of])]
  /\ UNCHANGED <<resourceVars, sheet, others, agreed>>

\* A request of the page, or its answer, is lost; others use the routes too.
LoseCall(i) ==
  /\ others < MaxOthers /\ others' = others + 1
  /\ calls[i].state # "refused" /\ calls' = Answered(i, "refused")
  /\ UNCHANGED <<resourceVars, sheet, agreed>>
OtherUser ==
  /\ others < MaxOthers /\ others' = others + 1
  /\ sheet.of \in Live
  /\ \/ \E a \in AssetValues : UpdateResource(sheet.of, [stored[sheet.of] EXCEPT !.asset = a], FALSE)
     \/ \E p \in PolicyValues, v \in VersionValues : SetPinnedPolicy(sheet.of, p, v)
     \/ DeleteResource(sheet.of)
     \/ \E r \in Resources : CreateResource(r, [stored[sheet.of] EXCEPT !.slug = CHOOSE s \in Slugs : TRUE])
  /\ calls' = StoreChanged(calls, {"fetch", "save"}) /\ agreed' = FALSE
  /\ UNCHANGED sheet

-----------------------------------------------------------------------------
(* The page takes the answers. *)

WithoutCall(i) == Dropped(calls, i)
FetchCall == Call("fetch", EmptyForm)

\* fetchResource: the form is filled, whatever was typed since; without an answer the page
\* goes back to the list.
TakeFetch(i) ==
  /\ calls[i].kind = "fetch" /\ calls[i].state # "sent"
  /\ sheet' = IF calls[i].state = "refused" THEN Gone
              ELSE IF sheet.at = "left" THEN sheet
              ELSE [sheet EXCEPT !.loading = FALSE, !.form = calls[i].form]
  /\ agreed' = (sheet'.at # "left" /\ calls[i].clean)
  /\ calls' = FormChanged(WithoutCall(i))
  /\ UNCHANGED <<resourceVars, others>>

\* handleSubmit goes to the page of the new resource, which fetches it.
TakeCreate(i) ==
  /\ calls[i].kind = "create" /\ calls[i].state # "sent"
  /\ IF calls[i].state = "done"
     THEN /\ sheet' = [sheet EXCEPT !.at = "edit", !.loading = TRUE, !.saving = FALSE, !.form = EmptyForm]
          /\ calls' = Append(WithoutCall(i), FetchCall)
     ELSE sheet' = [sheet EXCEPT !.saving = FALSE] /\ calls' = WithoutCall(i)
  /\ UNCHANGED <<resourceVars, others, agreed>>

TakeSave(i) ==
  /\ calls[i].kind = "save" /\ calls[i].state # "sent"
  /\ sheet' = [sheet EXCEPT !.saving = FALSE]
  /\ agreed' = (agreed \/ (sheet.at = "edit" /\ calls[i].state = "done" /\ calls[i].clean))
  /\ calls' = WithoutCall(i)
  /\ UNCHANGED <<resourceVars, others>>

\* handlePublish fetches again, without a spinner; handleDelete goes to the list.
TakeOther(i) ==
  /\ calls[i].kind \in {"publish", "delete"} /\ calls[i].state # "sent"
  /\ LET done == calls[i].state = "done" IN
     /\ sheet' = IF calls[i].kind = "publish" THEN [sheet EXCEPT !.publishing = FALSE]
                 ELSE IF done THEN Gone ELSE sheet
     /\ calls' = IF calls[i].kind = "publish" /\ done THEN Append(WithoutCall(i), FetchCall)
                 ELSE WithoutCall(i)
  /\ agreed' = (agreed /\ sheet'.at # "left")
  /\ UNCHANGED <<resourceVars, others>>

ResourcePageNext ==
  \/ \E titled \in BOOLEAN, auto \in Slugs \cup {""} : TypeTitle(titled, auto)
  \/ \E slug \in TypedSlugs \cup {""} : TypeSlug(slug)
  \/ \E pdf \in PdfAssets \cup {Nil} : ChoosePdf(pdf)
  \/ ChooseLatest \/ Save \/ PublishPressed \/ DeletePressed \/ LeaveSheet \/ OtherUser
  \/ \E i \in DOMAIN calls :
       \/ ServeCreate(i) \/ ServeSave(i) \/ ServeSheetDelete(i) \/ ServeAsked(i) \/ LoseCall(i)
       \/ TakeFetch(i) \/ TakeCreate(i) \/ TakeSave(i) \/ TakeOther(i)

ResourcePageSpec == ResourcePageInit /\ [][ResourcePageNext]_resourcePageVars

-----------------------------------------------------------------------------
(* Properties. *)

SheetTypeOK ==
  /\ sheet.at \in {"new", "edit", "left"} /\ sheet.of \in Resources \cup {Nil}
  /\ sheet.form \in Form /\ others \in 0 .. MaxOthers /\ agreed \in BOOLEAN

\* The page is not taken for saved when it is not: after a fetch or a confirmed save that
\* nothing has crossed, the resource is there with the title, the slug and the policy on
\* the screen and the PDF that is selected. An emptied selection is left out: the request
\* does not carry it, the page says "Changes saved!" and the server keeps the PDF.
FormTold ==
  agreed =>
    /\ sheet.at = "edit" /\ sheet.of \in Live
    /\ LET told == Filled(stored[sheet.of]) IN
       sheet.form \in {[told EXCEPT !.auto = sheet.form.auto],
                       [told EXCEPT !.auto = sheet.form.auto, !.pdf = Nil]}

\* The flags fall again: a page with nothing under way is neither loading nor busy.
NothingHangs == calls = <<>> => ~sheet.loading /\ ~sheet.saving /\ ~sheet.publishing

\* The store of the resources is sound and their page tells what it holds.
ResourcePagesSound == SheetTypeOK /\ ResourcesSound /\ FormTold /\ NothingHangs
=============================================================================
