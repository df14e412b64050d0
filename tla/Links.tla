------------------------------- MODULE Links -------------------------------
(***************************************************************************)
(* The links of the navigation: LinkService                                *)
(* (src/src/components/links/_impl.py) over the table link_items, as       *)
(* src/src/api/routes/admin_links.py calls it.  An operation reads the     *)
(* whole table, on a connection of its own, before it writes one row.      *)
(* Of a link's fields the slug is left, the one the table knows about.     *)
(***************************************************************************)
EXTENDS Naturals, FiniteSets

CONSTANTS
  LinkThreads,  \* threads that serve a request
  LinkNames,    \* slugs, without the blanks around them
  MaxLinkId,    \* bound on the links created
  MaxLinkCalls  \* bound on the requests

ASSUME LinksAssumption ==
  /\ LinkThreads # {} /\ "none" \notin LinkNames
  /\ MaxLinkId \in Nat \ {0} /\ MaxLinkCalls \in Nat

VARIABLES
  link,         \* the table, the slug of every id; "none" without a row
  linkIds,      \* ids handed out
  linkCalls,    \* requests begun
  linkWork,     \* per thread, the write it is about to make
  linkStale,    \* history: threads that read the table before another one's write
  linkGone,     \* history: links whose deletion was answered
  linkSurprise  \* history: a write was refused for a slug the check could have seen

linkVars == <<link, linkIds, linkCalls, linkWork, linkStale, linkGone, linkSurprise>>

LinkIds == 1..MaxLinkId
NoLinkWork == [op |-> "none", id |-> 1, slug |-> "none", padded |-> FALSE]
LinkExists(id) == link[id] # "none"
LinkBusy == {t \in LinkThreads : linkWork[t].op # "none"}

\* A request's slug, with blanks around it or not; strip takes them off.
LinkSlugs == [name: LinkNames, padded: BOOLEAN]

LinksInit ==
  /\ link = [id \in LinkIds |-> "none"]
  /\ linkIds = 0
  /\ linkCalls = 0
  /\ linkWork = [t \in LinkThreads |-> NoLinkWork]
  /\ linkStale = {}
  /\ linkGone = {}
  /\ linkSurprise = FALSE

-----------------------------------------------------------------------------

\* Mutant: a slug is looked for among the links created before this one only.
SlugKnownBefore(slug, id) ==
  ~slug.padded /\ \E k \in 1..(id - 1) : link[k] = slug.name

\* The check for a duplicate, of the slug as the request spells it.
SlugKnown(slug, id) == ~slug.padded /\ \E k \in LinkIds \ {id} : link[k] = slug.name

PrepareLink(t, op, id, slug) ==
  /\ t \notin LinkBusy
  /\ linkCalls < MaxLinkCalls
  /\ linkCalls' = linkCalls + 1
  /\ linkWork' = [linkWork EXCEPT ![t] =
                    [op |-> op, id |-> id, slug |-> slug.name, padded |-> slug.padded]]
  /\ UNCHANGED <<link, linkStale, linkGone, linkSurprise>>

\* create up to the save.
CreateLink(t) ==
  \E slug \in LinkSlugs :
    LET id == linkIds + 1 IN
    /\ id \in LinkIds
    /\ ~SlugKnown(slug, id)
    /\ linkIds' = id
    /\ PrepareLink(t, "save", id, slug)

\* update up to the save; a slug that is the link's own is not looked for.
UpdateLink(t) ==
  /\ \E id \in LinkIds, slug \in LinkSlugs :
       /\ LinkExists(id)
       /\ (slug.padded \/ slug.name # link[id]) => ~SlugKnown(slug, id)
       /\ PrepareLink(t, "save", id, slug)
  /\ UNCHANGED linkIds

\* delete up to the DELETE.
DeleteLink(t) ==
  /\ \E id \in LinkIds :
       LinkExists(id) /\ PrepareLink(t, "delete", id, [name |-> "none", padded |-> FALSE])
  /\ UNCHANGED linkIds

\* The UNIQUE constraint on the slug.
LinkRefused(work) == work.op = "save" /\ \E k \in LinkIds \ {work.id} : link[k] = work.slug

\* save, an upsert by id, or delete.
WriteLink(t) ==
  LET work == linkWork[t] IN
  /\ t \in LinkBusy
  /\ linkWork' = [linkWork EXCEPT ![t] = NoLinkWork]
  /\ IF LinkRefused(work)
     THEN /\ linkSurprise' = (linkSurprise \/ (~work.padded /\ t \notin linkStale))
          /\ linkStale' = linkStale \ {t}
          /\ UNCHANGED <<link, linkGone>>
     ELSE /\ link' = [link EXCEPT ![work.id] = work.slug]
          /\ linkGone' = IF work.op = "delete" THEN linkGone \cup {work.id}
                         ELSE IF t \in linkStale THEN linkGone \ {work.id} ELSE linkGone
          /\ linkStale' = LinkBusy \ {t}
          /\ UNCHANGED linkSurprise
  /\ UNCHANGED <<linkIds, linkCalls>>

LinksNext == \E t \in LinkThreads : CreateLink(t) \/ UpdateLink(t) \/ DeleteLink(t) \/ WriteLink(t)

LinksSpec == LinksInit /\ [][LinksNext]_linkVars

-----------------------------------------------------------------------------
(* Properties. *)

LinksTypeOK ==
  /\ link \in [LinkIds -> LinkNames \cup {"none"}]
  /\ linkIds \in 0..MaxLinkId /\ linkCalls \in 0..MaxLinkCalls
  /\ linkStale \subseteq LinkBusy /\ linkGone \subseteq LinkIds
  /\ linkSurprise \in BOOLEAN

\* A slug leads to one link; what the check for duplicates lets pass the table takes
\* too, unless the slug had blanks around it or another thread wrote after the check;
\* and a deleted link comes back only through an update that had read it before.
LinksKept ==
  /\ \A i, k \in LinkIds : LinkExists(i) /\ link[i] = link[k] => i = k
  /\ ~linkSurprise
  /\ \A id \in linkGone : ~LinkExists(id)
=============================================================================
