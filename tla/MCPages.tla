------------------------------- MODULE MCPages -------------------------------
(***************************************************************************)
(* The pages of the frontend and the PDF resources, checked side by side:  *)
(* `side` says which of them a behaviour is about, the others stay as they  *)
(* begin.                                                                  *)
(***************************************************************************)
EXTENDS EditPage, AdminLists, Reader, ResourcePages

VARIABLE side

Sides == {"editor", "lists", "reader", "resources", "resource pages"}

pagesVars == <<side, editVars, listVars, readerVars, resourcePageVars>>

PagesInit ==
  /\ side \in Sides
  /\ EditInit /\ ListInit /\ ReaderInit /\ ResourcePageInit
  /\ side # "lists" => list = "content" /\ things[2] = "a"
  /\ side # "reader" => widget = "form"

PagesNext ==
  /\ UNCHANGED side
  /\ IF side = "editor" THEN EditNext ELSE UNCHANGED editVars
  /\ IF side = "lists" THEN ListNext ELSE UNCHANGED listVars
  /\ IF side = "reader" THEN ReaderNext ELSE UNCHANGED readerVars
  /\ CASE side = "resources" -> ResourceNext /\ UNCHANGED <<sheet, calls, others, agreed>>
       [] side = "resource pages" -> ResourcePageNext
       [] OTHER -> UNCHANGED resourcePageVars

PagesSpec == PagesInit /\ [][PagesNext]_pagesVars
=============================================================================
