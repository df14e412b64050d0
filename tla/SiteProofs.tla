----------------------------- MODULE SiteProofs -----------------------------
(***************************************************************************)
(* Proofs about the components around the content: Settings, Links,        *)
(* Grants, PublicSite, Startup, Dashboard and ContentService, each for     *)
(* every value of its constants; and, with the proofs of RecordsProofs,    *)
(* about the specification that MCSite composes of them.                   *)
(* The theorem about Grants asks of the table of rules that it gives an    *)
(* edit grant its meaning.                                                 *)
(***************************************************************************)
EXTENDS MCSite, RecordsProofs

-----------------------------------------------------------------------------
(*****************************************************************************)
(* Settings, for every set of threads and every bound.                       *)
(*****************************************************************************)

\* Who is about to write a row that passes the rules, and, when nobody wrote
\* since it read, the row is the settings with the fields it was sent.
SettingsCopyInv ==
  /\ changing = [a \in Admins |-> changing[a]]
  /\ \A a \in Busy :
       /\ SettingsValid(changing[a].row)
       /\ a \notin stale => changing[a].row = Over(changing[a].sent, settings)

SettingsInv == SettingsKept /\ SettingsCopyInv

LEMMA DefaultsSound == SettingsValid(Defaults) /\ AvatarExists(Defaults)
BY DEF SettingsValid, AvatarExists, Defaults

\* The read and check of an update.
LEMMA BeginUpdateStep ==
  ASSUME SettingsInv, NEW a \in Admins, BeginUpdate(a)
  PROVE  SettingsInv'
<1>1. PICK sent \in Requested :
        /\ SettingsValid(Over(sent, settings))
        /\ changing' = [changing EXCEPT ![a] = [sent |-> sent, row |-> Over(sent, settings)]]
  BY DEF BeginUpdate, Merged
<1> DEFINE row == Over(sent, settings)
<1> HIDE DEF row
<1>2. SettingsValid(row) /\ changing' = [changing EXCEPT ![a] = [sent |-> sent, row |-> row]]
  BY <1>1 DEF row
<1>3. UNCHANGED <<settings, stale, written, crossed>>
  BY DEF BeginUpdate
<1>4. /\ changing' = [b \in Admins |-> changing'[b]]
      /\ changing'[a].sent = sent /\ changing'[a].row = row
      /\ \A b \in Admins \ {a} : changing'[b] = changing[b]
  BY <1>2 DEF SettingsInv, SettingsCopyInv
<1>5. row = Over(sent, settings')
  BY <1>3 DEF row
<1>6. ASSUME NEW b \in Busy'
      PROVE  /\ SettingsValid(changing'[b].row)
             /\ b \notin stale' => changing'[b].row = Over(changing'[b].sent, settings')
  <2>1. CASE b = a
    BY <1>2, <1>4, <1>5, <2>1
  <2>2. CASE b # a
    <3>1. b \in Busy /\ changing'[b] = changing[b]
      BY <1>4, <1>6, <2>2 DEF Busy
    <3> QED
      BY <1>3, <3>1 DEF SettingsInv, SettingsCopyInv
  <2> QED
    BY <2>1, <2>2
<1>7. SettingsCopyInv'
  BY <1>4, <1>6 DEF SettingsCopyInv, SettingsValid
<1>8. SettingsKept'
  BY <1>3 DEF SettingsInv, SettingsKept, SettingsValid, AvatarExists
<1> QED
  BY <1>7, <1>8 DEF SettingsInv

\* The write of an update, which makes every other copy stale, or its refusal.
LEMMA SaveSettingsStep ==
  ASSUME SettingsInv, NEW a \in Admins, SaveUpdate(a)
  PROVE  SettingsInv'
<1> DEFINE row == changing[a].row
<1>0. /\ a \in Busy /\ SettingsValid(row)
      /\ a \notin stale => row = Over(changing[a].sent, settings)
      /\ changing' = [changing EXCEPT ![a] = NoChange]
  BY DEF SaveUpdate, SettingsInv, SettingsCopyInv
<1>1. /\ changing' = [b \in Admins |-> changing'[b]]
      /\ changing'[a] = NoChange
      /\ \A b \in Admins \ {a} : changing'[b] = changing[b]
  BY <1>0 DEF SettingsInv, SettingsCopyInv
<1>2. \A b \in Busy' : b \in Busy /\ b # a /\ changing'[b] = changing[b]
  BY <1>1 DEF Busy
<1>3. CASE AvatarExists(row)
  <2>1. /\ settings' = row /\ written' = Over(changing[a].sent, written)
        /\ crossed' = (crossed \/ a \in stale) /\ stale' = Busy \ {a}
    BY <1>3 DEF SaveUpdate
  <2>2. SettingsCopyInv'
    BY <1>1, <1>2, <2>1 DEF SettingsCopyInv, SettingsInv, SettingsValid
  <2>3. crossed' \/ settings' = written'
    BY <1>0, <2>1 DEF SettingsInv, SettingsKept
  <2>4. SettingsKept'
    BY <1>0, <1>3, <2>1, <2>3 DEF SettingsKept, SettingsValid, AvatarExists
  <2> QED
    BY <2>2, <2>4 DEF SettingsInv
<1>4. CASE ~AvatarExists(row)
  <2>1. stale' = stale \ {a} /\ UNCHANGED <<settings, written, crossed>>
    BY <1>4 DEF SaveUpdate
  <2>2. SettingsCopyInv'
    BY <1>1, <1>2, <2>1 DEF SettingsCopyInv, SettingsInv, SettingsValid
  <2>3. SettingsKept'
    BY <2>1 DEF SettingsInv, SettingsKept, SettingsValid, AvatarExists
  <2> QED
    BY <2>2, <2>3 DEF SettingsInv
<1> QED
  BY <1>3, <1>4

LEMMA ResetSettingsStep ==
  ASSUME SettingsInv, ResetToDefaults
  PROVE  SettingsInv'
<1>1. /\ settings' = Defaults /\ written' = Defaults /\ stale' = Busy
      /\ UNCHANGED <<changing, crossed>>
  BY DEF ResetToDefaults
<1>2. SettingsCopyInv'
  BY <1>1 DEF SettingsInv, SettingsCopyInv, Busy, SettingsValid
<1>3. SettingsKept'
  BY <1>1, DefaultsSound DEF SettingsKept, SettingsValid, AvatarExists
<1> QED
  BY <1>2, <1>3 DEF SettingsInv

(* What the threads hold are rows; with it the types of the settings.       *)
SettingsShape ==
  /\ SettingsTypeOK
  /\ changing = [a \in Admins |-> changing[a]]
  /\ \A a \in Busy : changing[a].sent \in Requested

LEMMA RowIsFunction ==
  ASSUME NEW g, DOMAIN g = Fields, g = [f \in Fields |-> g[f]],
         g["site_title"] \in {"one", "two", "empty"}, g["theme"] \in {"system", "dark", "blue"},
         g["avatar_asset_id"] \in {"none", "unknown"}, g["social_links_json"] \in {"none", "other"}
  PROVE  g \in Rows
<1>1. g = [site_title |-> g["site_title"], theme |-> g["theme"],
           avatar_asset_id |-> g["avatar_asset_id"], social_links_json |-> g["social_links_json"]]
  BY DEF Fields
<1> QED
  BY <1>1 DEF Rows

LEMMA MergedRow ==
  ASSUME NEW sent \in Requested, NEW row \in Rows
  PROVE  Over(sent, row) \in Rows
<1>1. PICK r \in Rows, S \in SUBSET Fields : sent = [f \in S |-> r[f]]
  BY DEF Requested
<1>2. DOMAIN row = Fields
  BY DEF Rows, Fields
<1>3. Over(sent, row) = [f \in Fields |-> IF f \in S THEN r[f] ELSE row[f]]
  BY <1>1, <1>2 DEF Over
<1> QED
  BY <1>3, RowIsFunction DEF Rows, Fields

LEMMA SettingsTypesKept ==
  ASSUME SettingsShape, [SettingsNext]_settingsVars
  PROVE  SettingsShape'
<1>1. ASSUME NEW a \in Admins, BeginUpdate(a)
      PROVE  SettingsShape'
  <2>1. PICK sent \in Requested :
          changing' = [changing EXCEPT ![a] = [sent |-> sent, row |-> Over(sent, settings)]]
    BY <1>1 DEF BeginUpdate, Merged
  <2> DEFINE row == Over(sent, settings)
  <2>2. row \in Rows
    BY MergedRow DEF SettingsShape, SettingsTypeOK
  <2> HIDE DEF row
  <2>3. changing' = [changing EXCEPT ![a] = [sent |-> sent, row |-> row]]
    BY <2>1 DEF row
  <2>4. /\ changing' = [b \in Admins |-> changing'[b]]
        /\ changing'[a].sent = sent /\ changing'[a].row = row
        /\ \A b \in Admins \ {a} : changing'[b] = changing[b]
    BY <2>3 DEF SettingsShape
  <2>5. /\ UNCHANGED <<settings, stale, written, crossed>>
        /\ changes' \in 0..MaxChanges
    BY <1>1, SettingsAssumption DEF BeginUpdate, SettingsShape, SettingsTypeOK
  <2>6. \A b \in Busy' : b = a \/ b \in Busy
    BY <2>4 DEF Busy
  <2>7. \A b \in Admins : changing'[b].row \in Rows
    BY <2>2, <2>4 DEF SettingsShape, SettingsTypeOK
  <2>8. SettingsTypeOK'
    BY <2>5, <2>7 DEF SettingsShape, SettingsTypeOK
  <2>9. \A b \in Busy' : changing'[b].sent \in Requested
    BY <2>4, <2>6 DEF SettingsShape, Busy
  <2> QED
    BY <2>4, <2>8, <2>9 DEF SettingsShape
<1>2. ASSUME NEW a \in Admins, SaveUpdate(a)
      PROVE  SettingsShape'
  <2>1. /\ changing' = [changing EXCEPT ![a] = NoChange] /\ UNCHANGED changes /\ a \in Busy
        /\ settings' \in {settings, changing[a].row}
        /\ written' \in {written, Over(changing[a].sent, written)}
        /\ crossed' \in {crossed, crossed \/ a \in stale}
        /\ stale' \in {stale \ {a}, Busy \ {a}}
    BY <1>2 DEF SaveUpdate
  <2>2. /\ changing' = [b \in Admins |-> changing'[b]]
        /\ changing'[a] = NoChange
        /\ \A b \in Admins \ {a} : changing'[b] = changing[b]
    BY <2>1 DEF SettingsShape
  <2>3. Over(changing[a].sent, written) \in Rows
    BY <2>1, MergedRow DEF SettingsShape, SettingsTypeOK
  <2>4. settings' \in Rows /\ written' \in Rows /\ crossed' \in BOOLEAN /\ stale' \subseteq Admins
    BY <2>1, <2>3 DEF SettingsShape, SettingsTypeOK, Busy
  <2>5. NoChange.row \in Rows
    BY DEF NoChange, Defaults, Rows
  <2>6. \A b \in Busy' : b # a /\ b \in Busy
    BY <2>2 DEF Busy
  <2> QED
    BY <2>1, <2>2, <2>4, <2>5, <2>6 DEF SettingsShape, SettingsTypeOK
<1>3. CASE ResetToDefaults
  <2>1. /\ settings' = Defaults /\ written' = Defaults /\ stale' = Busy /\ changes' \in 0..MaxChanges
        /\ UNCHANGED <<changing, crossed>>
    BY <1>3, SettingsAssumption DEF ResetToDefaults, SettingsShape, SettingsTypeOK
  <2>2. Defaults \in Rows
    BY DEF Defaults, Rows
  <2> QED
    BY <2>1, <2>2 DEF SettingsShape, SettingsTypeOK, Busy
<1>4. CASE UNCHANGED settingsVars
  BY <1>4 DEF settingsVars, SettingsShape, SettingsTypeOK, Busy
<1> QED
  BY <1>1, <1>2, <1>3, <1>4 DEF SettingsNext

\* SettingsComponent.update and reset_to_defaults: the row the pages are built
\* from passes every rule, and no answered update is lost unless a row read
\* before another write was written back, however many updates cross.
THEOREM SettingsTheorem == SettingsSpec => [](SettingsTypeOK /\ SettingsKept)
<1>1. SettingsInit => SettingsInv
  BY DefaultsSound DEF SettingsInit, SettingsInv, SettingsKept, SettingsCopyInv, Busy
<1>2. SettingsInv /\ [SettingsNext]_settingsVars => SettingsInv'
  <2> SUFFICES ASSUME SettingsInv, [SettingsNext]_settingsVars PROVE SettingsInv'
    OBVIOUS
  <2>1. CASE UNCHANGED settingsVars
    BY <2>1 DEF settingsVars, SettingsInv, SettingsKept, SettingsCopyInv, Busy, SettingsValid, AvatarExists
  <2> QED
    BY <2>1, BeginUpdateStep, SaveSettingsStep, ResetSettingsStep DEF SettingsNext
<1>3. SettingsInv => SettingsKept
  BY DEF SettingsInv
<1>4. SettingsInit => SettingsShape
  <2>1. Defaults \in Rows /\ NoChange.row \in Rows /\ 0 \in 0..MaxChanges
    BY SettingsAssumption DEF NoChange, Defaults, Rows
  <2> QED
    BY <2>1 DEF SettingsInit, SettingsShape, SettingsTypeOK, Busy
<1>5. SettingsShape => SettingsTypeOK
  BY DEF SettingsShape
<1> QED
  BY <1>1, <1>2, <1>3, <1>4, <1>5, SettingsTypesKept, PTL DEF SettingsSpec

-----------------------------------------------------------------------------
(*****************************************************************************)
(* Links, for every set of threads and slugs and every bound.                *)
(*****************************************************************************)

LinkWork == [op: {"none", "save", "delete"}, id: LinkIds, slug: LinkNames \cup {"none"},
             padded: BOOLEAN]

\* Ids not handed out name no link, live or deleted.
LinkIdsInv ==
  /\ linkWork \in [LinkThreads -> LinkWork]
  /\ \A id \in LinkIds : LinkExists(id) \/ id \in linkGone => id <= linkIds

\* A thread about to save has a slug.  As long as nobody wrote since it read the
\* table, no other link has this slug, unless it had blanks around it, and its
\* own link was not deleted.
LinkWorkInv(t) ==
  LET doing == linkWork[t] IN
  doing.op # "none" =>
    /\ doing.id <= linkIds
    /\ doing.op = "save" => doing.slug # "none"
    /\ doing.op = "delete" => doing.slug = "none"
    /\ t \notin linkStale =>
         /\ doing.op = "save" => doing.id \notin linkGone
         /\ ~doing.padded => ~LinkRefused(doing)

LinksInv ==
  LinksTypeOK /\ LinksKept /\ LinkIdsInv /\ \A t \in LinkThreads : LinkWorkInv(t)

LEMMA NoLinkWorkType ==
  NoLinkWork \in LinkWork /\ NoLinkWork.op = "none"
BY LinksAssumption DEF NoLinkWork, LinkWork, LinkIds

\* The read and check of a request: what it will write is fit for the table it read.
LEMMA PrepareLinkStep ==
  ASSUME LinksInv, NEW t \in LinkThreads, NEW op \in {"save", "delete"}, NEW id \in LinkIds,
         NEW slug, slug.name \in LinkNames \cup {"none"}, slug.padded \in BOOLEAN,
         PrepareLink(t, op, id, slug),
         linkIds' \in 0..MaxLinkId, linkIds <= linkIds', id <= linkIds',
         op = "save" => slug.name # "none" /\ id \notin linkGone,
         op = "delete" => slug.name = "none",
         op = "save" /\ ~slug.padded => \A k \in LinkIds \ {id} : link[k] # slug.name
  PROVE  LinksInv'
<1> DEFINE doing == [op |-> op, id |-> id, slug |-> slug.name, padded |-> slug.padded]
<1>0. /\ linkWork' = [linkWork EXCEPT ![t] = doing] /\ linkWork \in [LinkThreads -> LinkWork]
      /\ t \notin LinkBusy /\ linkCalls < MaxLinkCalls /\ linkCalls' = linkCalls + 1
      /\ UNCHANGED <<link, linkStale, linkGone, linkSurprise>>
      /\ LinksTypeOK /\ linkIds \in Nat /\ linkIds' \in Nat
  BY LinksAssumption DEF PrepareLink, LinksInv, LinkIdsInv, LinksTypeOK
<1>1. doing \in LinkWork /\ doing.op = op /\ doing.id = id /\ doing.slug = slug.name
      /\ doing.padded = slug.padded
  BY DEF LinkWork
<1> HIDE DEF doing
<1>2. /\ linkWork' \in [LinkThreads -> LinkWork] /\ linkWork'[t] = doing
      /\ \A s \in LinkThreads \ {t} : linkWork'[s] = linkWork[s]
  BY <1>0, <1>1
<1>3. LinkBusy \subseteq LinkBusy'
  BY <1>0, <1>2 DEF LinkBusy
<1>4. linkCalls' \in 0..MaxLinkCalls
  BY <1>0, LinksAssumption DEF LinksTypeOK
<1>5. LinksTypeOK'
  BY <1>0, <1>3, <1>4 DEF LinksTypeOK
<1>6. LinksKept'
  BY <1>0 DEF LinksInv, LinksKept, LinkExists
<1>7. LinkIdsInv'
  BY <1>0, <1>2 DEF LinksInv, LinkIdsInv, LinkExists, LinkIds
<1>8. ASSUME NEW s \in LinkThreads PROVE LinkWorkInv(s)'
  <2>1. CASE s = t
    BY <1>0, <1>1, <1>2, <2>1 DEF LinkWorkInv, LinkRefused
  <2>2. CASE s # t
    <3>1. LinkWorkInv(s) /\ linkWork'[s] = linkWork[s] /\ linkWork[s].id \in Nat
      BY <1>0, <1>2, <2>2 DEF LinksInv, LinkWork, LinkIds
    <3> QED
      BY <1>0, <3>1 DEF LinkWorkInv, LinkRefused
  <2> QED
    BY <2>1, <2>2
<1> QED
  BY <1>5, <1>6, <1>7, <1>8 DEF LinksInv

LEMMA LinkRequestStep ==
  ASSUME LinksInv, NEW t \in LinkThreads, CreateLink(t) \/ UpdateLink(t) \/ DeleteLink(t)
  PROVE  LinksInv'
<1>0. /\ linkIds \in 0..MaxLinkId /\ linkIds \in Nat /\ MaxLinkId \in Nat
      /\ \A id \in LinkIds : LinkExists(id) => id <= linkIds /\ id \notin linkGone
      /\ \A id \in linkGone : id <= linkIds
      /\ \A slug \in LinkSlugs : slug.name \in LinkNames /\ slug.padded \in BOOLEAN
                                 /\ slug.name # "none"
  BY LinksAssumption DEF LinksInv, LinksTypeOK, LinkIdsInv, LinksKept, LinkSlugs
<1>1. CASE CreateLink(t)
  <2>1. PICK slug \in LinkSlugs :
          /\ linkIds' = linkIds + 1 /\ linkIds' \in LinkIds /\ ~SlugKnown(slug, linkIds')
          /\ PrepareLink(t, "save", linkIds', slug)
    BY <1>1 DEF CreateLink
  <2>2. linkIds' \in 0..MaxLinkId /\ linkIds <= linkIds' /\ linkIds' <= linkIds'
        /\ linkIds' \notin linkGone
    BY <1>0, <2>1 DEF LinkIds
  <2> QED
    BY <1>0, <2>1, <2>2, PrepareLinkStep DEF SlugKnown
<1>2. CASE UpdateLink(t)
  <2>1. PICK id \in LinkIds, slug \in LinkSlugs :
          /\ LinkExists(id)
          /\ (slug.padded \/ slug.name # link[id]) => ~SlugKnown(slug, id)
          /\ PrepareLink(t, "save", id, slug)
    BY <1>2 DEF UpdateLink
  <2>2. linkIds' = linkIds
    BY <1>2 DEF UpdateLink
  <2>3. ~slug.padded => \A k \in LinkIds \ {id} : link[k] # slug.name
    BY <2>1 DEF SlugKnown, LinksInv, LinksKept
  <2>4. linkIds <= linkIds'
    BY <1>0, <2>2
  <2> QED
    BY <1>0, <2>1, <2>2, <2>3, <2>4, PrepareLinkStep
<1>3. CASE DeleteLink(t)
  <2> DEFINE slug == [name |-> "none", padded |-> FALSE]
  <2>1. PICK id \in LinkIds : LinkExists(id) /\ PrepareLink(t, "delete", id, slug)
    BY <1>3 DEF DeleteLink
  <2>2. linkIds' = linkIds /\ linkIds <= linkIds
    BY <1>0, <1>3 DEF DeleteLink
  <2>3. slug.name = "none" /\ slug.padded = FALSE
    OBVIOUS
  <2> HIDE DEF slug
  <2> QED
    BY <1>0, <2>1, <2>2, <2>3, PrepareLinkStep
<1> QED
  BY <1>1, <1>2, <1>3

\* The write, after which every other thread has read an old table, or its refusal.
LEMMA WriteLinkStep ==
  ASSUME LinksInv, NEW t \in LinkThreads, WriteLink(t)
  PROVE  LinksInv'
<1> DEFINE doing == linkWork[t]
<1>0. /\ LinksTypeOK /\ LinkWorkInv(t) /\ doing \in LinkWork /\ doing.op # "none"
      /\ linkWork \in [LinkThreads -> LinkWork] /\ linkWork' = [linkWork EXCEPT ![t] = NoLinkWork]
      /\ UNCHANGED <<linkIds, linkCalls>>
  BY DEF LinksInv, LinkIdsInv, WriteLink, LinkBusy
<1>1. /\ linkWork' \in [LinkThreads -> LinkWork] /\ linkWork'[t].op = "none"
      /\ \A s \in LinkThreads \ {t} : linkWork'[s] = linkWork[s]
  BY <1>0, NoLinkWorkType
<1>2. LinkBusy' = LinkBusy \ {t}
  BY <1>1 DEF LinkBusy
<1>3. CASE LinkRefused(doing)
  <2>1. /\ linkSurprise' = (linkSurprise \/ (~doing.padded /\ t \notin linkStale))
        /\ linkStale' = linkStale \ {t} /\ UNCHANGED <<link, linkGone>>
    BY <1>3 DEF WriteLink
  <2>2. ~linkSurprise' /\ linkSurprise' \in BOOLEAN
    BY <1>0, <1>3, <2>1 DEF LinkWorkInv, LinksInv, LinksKept
  <2>3. LinksTypeOK' /\ LinksKept' /\ LinkIdsInv'
    BY <1>0, <1>1, <1>2, <2>1, <2>2 DEF LinksInv, LinksTypeOK, LinksKept, LinkIdsInv, LinkExists
  <2>4. \A s \in LinkThreads : LinkWorkInv(s)'
    BY <1>0, <1>1, <2>1 DEF LinksInv, LinkWorkInv, LinkRefused
  <2> QED
    BY <2>3, <2>4 DEF LinksInv
<1>4. CASE ~LinkRefused(doing)
  <2>1. /\ link' = [link EXCEPT ![doing.id] = doing.slug]
        /\ linkGone' = IF doing.op = "delete" THEN linkGone \cup {doing.id}
                       ELSE IF t \in linkStale THEN linkGone \ {doing.id} ELSE linkGone
        /\ linkStale' = LinkBusy \ {t} /\ UNCHANGED linkSurprise
    BY <1>4 DEF WriteLink
  <2>2. /\ doing.id \in LinkIds /\ doing.slug \in LinkNames \cup {"none"}
        /\ doing.op \in {"save", "delete"} /\ doing.id <= linkIds
    BY <1>0 DEF LinkWork, LinkWorkInv
  <2>3. /\ link' \in [LinkIds -> LinkNames \cup {"none"}] /\ link'[doing.id] = doing.slug
        /\ \A k \in LinkIds \ {doing.id} : link'[k] = link[k]
    BY <1>0, <2>1, <2>2 DEF LinksTypeOK
  <2>4. linkGone' \subseteq linkGone \cup {doing.id}
        /\ (doing.op = "save" => doing.id \notin linkGone')
    BY <1>0, <2>1, <2>2 DEF LinkWorkInv
  <2>5. LinksTypeOK'
    BY <1>0, <1>2, <2>1, <2>2, <2>3, <2>4 DEF LinksTypeOK
  <2>6. LinkIdsInv'
    BY <1>0, <1>1, <2>2, <2>3, <2>4 DEF LinksInv, LinkIdsInv, LinkExists
  <2>7. \A id \in linkGone' : ~LinkExists(id)'
    <3>1. linkGone \subseteq LinkIds /\ \A id \in linkGone : ~LinkExists(id)
      BY <1>0 DEF LinksInv, LinksTypeOK, LinksKept
    <3>2. doing.op = "delete" => doing.slug = "none"
      BY <1>0 DEF LinkWorkInv
    <3> QED
      BY <2>2, <2>3, <2>4, <3>1, <3>2 DEF LinkExists
  <2>8. \A i, k \in LinkIds : LinkExists(i)' /\ link'[i] = link'[k] => i = k
    <3>1. \A k \in LinkIds \ {doing.id} : doing.slug # "none" => link[k] # doing.slug
      BY <1>0, <1>4, <2>2 DEF LinkRefused, LinkWorkInv
    <3>2. \A i, k \in LinkIds : LinkExists(i) /\ link[i] = link[k] => i = k
      BY DEF LinksInv, LinksKept
    <3> QED
      BY <2>2, <2>3, <3>1, <3>2 DEF LinkExists
  <2>9. LinksKept'
    BY <2>1, <2>7, <2>8 DEF LinksInv, LinksKept
  <2>10. ASSUME NEW s \in LinkThreads PROVE LinkWorkInv(s)'
    <3>1. CASE linkWork'[s].op = "none"
      BY <3>1 DEF LinkWorkInv
    <3>2. CASE linkWork'[s].op # "none"
      <4>1. s # t /\ linkWork'[s] = linkWork[s] /\ s \in LinkBusy
        BY <1>1, <3>2 DEF LinkBusy
      <4>2. s \in linkStale' /\ linkIds' = linkIds
        BY <1>0, <2>1, <4>1
      <4> QED
        BY <4>1, <4>2 DEF LinksInv, LinkWorkInv
    <3> QED
      BY <3>1, <3>2
  <2> QED
    BY <2>5, <2>6, <2>9, <2>10 DEF LinksInv
<1> QED
  BY <1>3, <1>4

\* LinkService over link_items: slugs lead to one link, what the check lets pass
\* the table takes and a deleted link does not come back, except as LinksKept
\* says, whatever requests cross.
THEOREM LinksTheorem == LinksSpec => [](LinksTypeOK /\ LinksKept)
<1>1. LinksInit => LinksInv
  <2> SUFFICES ASSUME LinksInit PROVE LinksInv
    OBVIOUS
  <2>1. \A id \in LinkIds : ~LinkExists(id)
    BY DEF LinksInit, LinkExists
  <2>2. \A t \in LinkThreads : linkWork[t] \in LinkWork /\ linkWork[t].op = "none"
    BY NoLinkWorkType DEF LinksInit
  <2>3. LinksTypeOK
    <3>1. 0 \in 0..MaxLinkId /\ 0 \in 0..MaxLinkCalls
      BY LinksAssumption
    <3>2. link \in [LinkIds -> LinkNames \cup {"none"}]
      BY DEF LinksInit
    <3> QED
      BY <3>1, <3>2 DEF LinksInit, LinksTypeOK
  <2>4. LinksKept
    BY <2>1 DEF LinksInit, LinksKept
  <2>5. LinkIdsInv
    BY <2>1, <2>2 DEF LinksInit, LinkIdsInv
  <2>6. \A t \in LinkThreads : LinkWorkInv(t)
    BY <2>2 DEF LinkWorkInv
  <2> QED
    BY <2>3, <2>4, <2>5, <2>6 DEF LinksInv
<1>2. LinksInv /\ [LinksNext]_linkVars => LinksInv'
  <2> SUFFICES ASSUME LinksInv, [LinksNext]_linkVars PROVE LinksInv'
    OBVIOUS
  <2>1. CASE UNCHANGED linkVars
    BY <2>1 DEF linkVars, LinksInv, LinksTypeOK, LinksKept, LinkIdsInv, LinkWorkInv, LinkExists,
                LinkRefused, LinkBusy
  <2> QED
    BY <2>1, LinkRequestStep, WriteLinkStep DEF LinksNext
<1>3. LinksInv => LinksTypeOK /\ LinksKept
  BY DEF LinksInv
<1> QED
  BY <1>1, <1>2, <1>3, PTL DEF LinksSpec

-----------------------------------------------------------------------------
(*****************************************************************************)
(* Grants, for every set of users, items and threads, every table of roles.  *)
(*****************************************************************************)

-----------------------------------------------------------------------------
(* The inductive invariant. *)

\* A pair has one grant, an id is one pair's, and no owner has a grant.
GrantTableInv ==
  /\ \A g, h \in grants : g.pair = h.pair \/ g.id = h.id => g = h
  /\ \A g \in grants :
       g.id <= grantCalls /\ g.pair[1] \in paper /\ OwnerOf[g.pair[1]] # g.pair[2]

\* The ids a thread has in hands are of its pair; a grant has one of them, and
\* what a revoke is going to delete is all that the pair has, unless a grant was
\* written since the revoke read the table.
GrantHandInv(t) ==
  LET w == grantWork[t] IN
  /\ w.op \in {"none", "grant", "revoke"}
  /\ w.op # "none" => w.pair \in Pairs
  /\ \A id \in w.ids : id \in 1..grantCalls /\ \A g \in grants : g.id = id => g.pair = w.pair
  /\ w.op = "none" => w.ids = {}
  /\ t \in crossing => w.op = "revoke"
  /\ w.op = "grant" => /\ w.scope \in Scopes /\ OwnerOf[w.pair[1]] # w.pair[2]
                       /\ \E id \in 1..grantCalls : w.ids = {id}
  /\ w.op = "revoke" /\ t \notin crossing => \A g \in GrantOf(w.pair) : g.id \in w.ids

\* Two threads that have one id in hands speak of one pair.
GrantHandsApart ==
  \A s, t \in GrantThreads :
    grantWork[s].ids \cap grantWork[t].ids # {} => grantWork[s].pair = grantWork[t].pair

\* The grants of a pair are what the last answer said.
GrantWantedInv ==
  \A pair \in Pairs \ missed :
    /\ \A g \in GrantOf(pair) : g.scope = wanted[pair]
    /\ pair[1] \in paper /\ wanted[pair] # "none" => GrantOf(pair) # {}

GrantsInv ==
  /\ GrantsTypeOK /\ GrantTableInv /\ GrantWantedInv /\ GrantHandsApart
  /\ grantWork = [t \in GrantThreads |-> grantWork[t]]
  /\ \A t \in GrantThreads : GrantHandInv(t)

-----------------------------------------------------------------------------
(* Lemmas about the steps. *)

\* A request that has read the table has ids of its own pair in hands, or a new one.
LEMMA PrepareGrantStep ==
  ASSUME GrantsInv, NEW t \in GrantThreads, NEW op \in {"grant", "revoke"},
         NEW pair \in Pairs, NEW ids, NEW scope,
         PrepareGrant(t, op, pair, ids, scope),
         \A id \in ids : \/ id = grantCalls + 1
                          \/ \E g \in grants : g.id = id /\ g.pair = pair,
         op = "grant" => /\ scope \in Scopes /\ OwnerOf[pair[1]] # pair[2]
                         /\ \E id : ids = {id},
         op = "revoke" => ids = {g.id : g \in GrantOf(pair)}
  PROVE  GrantsInv'
<1> DEFINE w == [op |-> op, pair |-> pair, ids |-> ids, scope |-> scope]
<1>1. /\ grantWork'[t] = w
      /\ \A s \in GrantThreads \ {t} : grantWork'[s] = grantWork[s]
      /\ grantWork' = [s \in GrantThreads |-> grantWork'[s]]
  BY DEF PrepareGrant, GrantsInv
<1>2. /\ t \notin crossing /\ grantCalls' = grantCalls + 1
      /\ grantCalls \in Nat /\ MaxGrantCalls \in Nat /\ grantCalls' \in 0..MaxGrantCalls
      /\ UNCHANGED <<paper, grants, wanted, crossing, missed>>
  BY GrantsAssumption DEF PrepareGrant, GrantsInv, GrantsTypeOK
<1>3. /\ w.op = op /\ w.pair = pair /\ w.ids = ids /\ w.scope = scope
      /\ op # "none"
  OBVIOUS
<1>4. \A g \in grants : g.id \in Nat /\ g.id >= 1 /\ g.id <= grantCalls
  BY GrantsAssumption DEF GrantsInv, GrantsTypeOK, GrantTableInv
<1>5. \A id \in ids : id \in 1..grantCalls'
  BY <1>2, <1>4
<1>6. \A id \in ids : \A g \in grants : g.id = id => g.pair = pair
  BY <1>2, <1>4 DEF GrantsInv, GrantTableInv
<1>7. GrantBusy \subseteq GrantBusy'
  BY <1>1, <1>3 DEF GrantBusy
<1>8. GrantsTypeOK'
  BY <1>2, <1>7 DEF GrantsInv, GrantsTypeOK
<1>9. GrantTableInv'
  BY <1>2, <1>4 DEF GrantsInv, GrantTableInv
<1>10. GrantWantedInv'
  BY <1>2 DEF GrantsInv, GrantWantedInv, GrantOf
<1>11. GrantHandsApart'
  <2>1. \A s \in GrantThreads \ {t} :
          ids \cap grantWork[s].ids # {} => pair = grantWork[s].pair
    BY <1>2, <1>4 DEF GrantsInv, GrantHandInv
  <2> QED
    BY <1>1, <1>3, <2>1 DEF GrantsInv, GrantHandsApart
<1>12. ASSUME NEW s \in GrantThreads
       PROVE  GrantHandInv(s)'
  <2>1. CASE s = t
    <3>1. op = "grant" => \E id \in 1..grantCalls' : ids = {id}
      BY <1>5
    <3>2. op = "revoke" => \A g \in GrantOf(pair)' : g.id \in ids
      BY <1>2 DEF GrantOf
    <3> QED
      BY <1>1, <1>2, <1>3, <1>5, <1>6, <2>1, <3>1, <3>2 DEF GrantHandInv
  <2>2. CASE s # t
    <3>1. 1..grantCalls \subseteq 1..grantCalls'
      BY <1>2
    <3> QED
      BY <1>1, <1>2, <2>2, <3>1 DEF GrantsInv, GrantHandInv, GrantOf
  <2> QED
    BY <2>1, <2>2
<1> HIDE DEF w
<1> QED
  BY <1>1, <1>8, <1>9, <1>10, <1>11, <1>12 DEF GrantsInv

LEMMA GrantStep ==
  ASSUME GrantsInv, NEW t \in GrantThreads, Grant(t)
  PROVE  GrantsInv'
<1>1. PICK pair \in Pairs, scope \in Scopes :
        /\ OwnerOf[pair[1]] # pair[2]
        /\ PrepareGrant(t, "grant", pair,
                        IF GrantOf(pair) = {} THEN {grantCalls + 1} ELSE {g.id : g \in GrantOf(pair)}, scope)
  BY DEF Grant
<1> DEFINE ids == IF GrantOf(pair) = {} THEN {grantCalls + 1} ELSE {g.id : g \in GrantOf(pair)}
<1>2. \A id \in ids : \/ id = grantCalls + 1
                       \/ \E g \in grants : g.id = id /\ g.pair = pair
  BY DEF GrantOf
<1>3. \E id : ids = {id}
  <2>1. CASE GrantOf(pair) = {}
    BY <2>1
  <2>2. CASE GrantOf(pair) # {}
    <3>1. PICK g \in GrantOf(pair) : TRUE
      BY <2>2
    <3>2. \A h \in GrantOf(pair) : h = g
      BY <3>1 DEF GrantOf, GrantsInv, GrantTableInv
    <3>3. ids = {g.id}
      BY <2>2, <3>1, <3>2
    <3> QED
      BY <3>3
  <2> QED
    BY <2>1, <2>2
<1>4. PrepareGrant(t, "grant", pair, ids, scope)
  BY <1>1
<1> HIDE DEF ids
<1> QED
  BY <1>1, <1>2, <1>3, <1>4, PrepareGrantStep

LEMMA RevokeStep ==
  ASSUME GrantsInv, NEW t \in GrantThreads, Revoke(t)
  PROVE  GrantsInv'
<1>1. PICK pair \in Pairs :
        PrepareGrant(t, "revoke", pair, {g.id : g \in GrantOf(pair)}, "none")
  BY DEF Revoke
<1>2. \A id \in {g.id : g \in GrantOf(pair)} : \E g \in grants : g.id = id /\ g.pair = pair
  BY DEF GrantOf
<1> QED
  BY <1>1, <1>2, PrepareGrantStep

\* A thread whose write is done has nothing in hands.
LEMMA GrantsReleased ==
  ASSUME GrantsInv, NEW t \in GrantThreads,
         grantWork' = [grantWork EXCEPT ![t] = NoGrantWork]
  PROVE  /\ grantWork'[t].op = "none" /\ grantWork'[t].ids = {}
         /\ \A s \in GrantThreads \ {t} : grantWork'[s] = grantWork[s]
         /\ grantWork' = [s \in GrantThreads |-> grantWork'[s]]
         /\ GrantBusy' = GrantBusy \ {t}
         /\ GrantHandsApart'
<1>1. NoGrantWork.op = "none" /\ NoGrantWork.ids = {}
  BY DEF NoGrantWork
<1>2. /\ grantWork'[t].op = "none" /\ grantWork'[t].ids = {}
      /\ \A s \in GrantThreads \ {t} : grantWork'[s] = grantWork[s]
      /\ grantWork' = [s \in GrantThreads |-> grantWork'[s]]
  BY <1>1 DEF GrantsInv
<1> QED
  BY <1>2 DEF GrantsInv, GrantHandsApart, GrantBusy

\* A deletion from the table disturbs nobody.
LEMMA FewerGrants ==
  ASSUME GrantsInv, NEW s \in GrantThreads, grants' \subseteq grants,
         grantCalls' = grantCalls, grantWork'[s] = grantWork[s],
         s \in crossing <=> s \in crossing'
  PROVE  GrantHandInv(s)'
BY DEF GrantsInv, GrantHandInv, GrantOf

\* The upsert of a pair: its one row has the scope granted, the others are as before.
LEMMA SavedTable ==
  ASSUME GrantsInv, NEW pair \in Pairs, NEW scope \in Scopes, NEW id \in 1..grantCalls,
         \A g \in grants : g.id = id => g.pair = pair,
         pair[1] \in paper, OwnerOf[pair[1]] # pair[2]
  PROVE  LET new == Saved(id, pair, scope) IN
         /\ new \subseteq [id: 1..MaxGrantCalls, pair: Pairs, scope: Scopes]
         /\ \A g, h \in new : g.pair = h.pair \/ g.id = h.id => g = h
         /\ \A g \in new :
              g.id <= grantCalls /\ g.pair[1] \in paper /\ OwnerOf[g.pair[1]] # g.pair[2]
         /\ \A g \in new : g.pair = pair => g.scope = scope
         /\ \E g \in new : g.pair = pair
         /\ {g \in new : g.pair # pair} = {g \in grants : g.pair # pair}
         /\ \A g \in new : g.id = id \/ \E h \in grants : h.id = g.id /\ h.pair = g.pair
<1> DEFINE GrantRows == [id: 1..MaxGrantCalls, pair: Pairs, scope: Scopes]
           new == Saved(id, pair, scope)
           row == [id |-> id, pair |-> pair, scope |-> scope]
<1>1. /\ grants \subseteq GrantRows /\ grantCalls \in 0..MaxGrantCalls
      /\ id \in 1..MaxGrantCalls /\ id <= grantCalls
  BY GrantsAssumption DEF GrantsInv, GrantsTypeOK
<1>2. \A g, h \in grants : g.pair = h.pair \/ g.id = h.id => g = h
  BY DEF GrantsInv, GrantTableInv
<1>3. \A g \in grants :
        g.id <= grantCalls /\ g.pair[1] \in paper /\ OwnerOf[g.pair[1]] # g.pair[2]
  BY DEF GrantsInv, GrantTableInv
<1>4. CASE GrantOf(pair) = {}
  <2>1. new = grants \cup {row}
    BY <1>4 DEF Saved
  <2>2. \A g \in grants : g.pair # pair /\ g.id # id
    BY <1>4 DEF GrantOf
  <2>3. row \in GrantRows /\ row.id = id /\ row.pair = pair /\ row.scope = scope
    BY <1>1
  <2> HIDE DEF row, new
  <2> QED
    BY <1>1, <1>2, <1>3, <2>1, <2>2, <2>3 DEF new
<1>5. CASE GrantOf(pair) # {}
  <2> DEFINE To(g) == IF g.pair = pair THEN [g EXCEPT !.scope = scope] ELSE g
  <2>1. new = {To(g) : g \in grants}
    BY <1>5 DEF Saved
  <2>2. \A g \in grants : /\ To(g) \in GrantRows /\ To(g).id = g.id /\ To(g).pair = g.pair
                          /\ g.pair = pair => To(g).scope = scope
                          /\ g.pair # pair => To(g) = g
    BY <1>1
  <2>3. PICK g0 \in grants : g0.pair = pair
    BY <1>5 DEF GrantOf
  <2> HIDE DEF To
  <2>4. \A g \in new : \E h \in grants : g = To(h)
    BY <2>1
  <2>5. {g \in new : g.pair # pair} = {g \in grants : g.pair # pair}
    BY <2>1, <2>2
  <2>6. \A g, h \in new : g.pair = h.pair \/ g.id = h.id => g = h
    BY <1>2, <2>2, <2>4
  <2>7. \E g \in new : g.pair = pair
    BY <2>1, <2>2, <2>3
  <2>8. \A g \in new : /\ g \in GrantRows
                       /\ g.pair = pair => g.scope = scope
                       /\ \E h \in grants : h.id = g.id /\ h.pair = g.pair
    BY <2>2, <2>4
  <2>9. new \subseteq GrantRows
    BY <2>8
  <2> HIDE DEF new
  <2>10. \A g \in new :
          g.id <= grantCalls /\ g.pair[1] \in paper /\ OwnerOf[g.pair[1]] # g.pair[2]
    BY <1>3, <2>8
  <2> QED
    BY <2>5, <2>6, <2>7, <2>8, <2>9, <2>10 DEF new
<1> QED
  BY <1>4, <1>5

LEMMA WriteGrantStep ==
  ASSUME GrantsInv, NEW t \in GrantThreads, WriteGrant(t)
  PROVE  GrantsInv'
<1> DEFINE w == grantWork[t]
<1>1. PICK id \in 1..grantCalls : w.ids = {id}
  BY DEF WriteGrant, GrantsInv, GrantHandInv
<1>2. /\ w.op = "grant" /\ w.pair \in Pairs /\ w.scope \in Scopes
      /\ OwnerOf[w.pair[1]] # w.pair[2]
      /\ \A g \in grants : g.id = id => g.pair = w.pair
  BY <1>1 DEF WriteGrant, GrantsInv, GrantHandInv
<1>3. /\ grantWork'[t].op = "none" /\ grantWork'[t].ids = {}
      /\ \A s \in GrantThreads \ {t} : grantWork'[s] = grantWork[s]
      /\ grantWork' = [s \in GrantThreads |-> grantWork'[s]]
      /\ GrantBusy' = GrantBusy \ {t}
      /\ GrantHandsApart'
  BY GrantsReleased DEF WriteGrant
<1>4. paper' = paper /\ grantCalls' = grantCalls
  BY DEF WriteGrant
<1>5. crossing \subseteq GrantBusy /\ t \in GrantBusy
  BY <1>2 DEF GrantsInv, GrantsTypeOK, GrantBusy
<1>6. t \notin crossing /\ t \notin crossing'
  BY <1>2 DEF GrantsInv, GrantHandInv, WriteGrant
<1>7. GrantHandInv(t)'
  BY <1>3, <1>6 DEF GrantHandInv
<1>8. CASE w.pair[1] \notin paper
  <2>1. UNCHANGED <<grants, wanted, crossing, missed>>
    BY <1>8 DEF WriteGrant
  <2>2. \A s \in GrantThreads \ {t} : GrantHandInv(s)'
    BY <1>3, <1>4, <2>1, FewerGrants
  <2>3. GrantsTypeOK'
    BY <1>3, <1>4, <1>5, <1>6, <2>1 DEF GrantsInv, GrantsTypeOK
  <2>4. GrantTableInv' /\ GrantWantedInv'
    BY <1>4, <2>1 DEF GrantsInv, GrantTableInv, GrantWantedInv, GrantOf
  <2> QED
    BY <1>3, <1>7, <2>2, <2>3, <2>4 DEF GrantsInv
<1>9. CASE w.pair[1] \in paper
  <2> DEFINE new == Saved(id, w.pair, w.scope)
             over == {s \in GrantBusy : grantWork[s].op = "revoke" /\ grantWork[s].pair = w.pair}
  <2>1. /\ grants' = new /\ crossing' = crossing \cup over
        /\ wanted' = [wanted EXCEPT ![w.pair] = w.scope] /\ missed' = missed \ {w.pair}
    BY <1>1, <1>9, ZenonT(40) DEF WriteGrant
  <2>2. /\ new \subseteq [id: 1..MaxGrantCalls, pair: Pairs, scope: Scopes]
        /\ \A g, h \in new : g.pair = h.pair \/ g.id = h.id => g = h
        /\ \A g \in new :
             g.id <= grantCalls /\ g.pair[1] \in paper /\ OwnerOf[g.pair[1]] # g.pair[2]
        /\ \A g \in new : g.pair = w.pair => g.scope = w.scope
        /\ \E g \in new : g.pair = w.pair
        /\ {g \in new : g.pair # w.pair} = {g \in grants : g.pair # w.pair}
        /\ \A g \in new : g.id = id \/ \E h \in grants : h.id = g.id /\ h.pair = g.pair
    BY <1>2, <1>9, SavedTable
  <2> HIDE DEF new
  <2>3. over \subseteq GrantBusy /\ t \notin over
    BY <1>2
  <2>4. GrantsTypeOK'
    BY <1>2, <1>3, <1>4, <1>5, <1>6, <2>1, <2>2, <2>3 DEF GrantsInv, GrantsTypeOK
  <2>5. GrantTableInv'
    BY <1>4, <2>1, <2>2 DEF GrantTableInv
  <2>6. GrantWantedInv'
    <3> SUFFICES ASSUME NEW pair \in Pairs, pair \notin missed'
                 PROVE  /\ \A g \in GrantOf(pair)' : g.scope = wanted'[pair]
                        /\ pair[1] \in paper /\ wanted'[pair] # "none" => GrantOf(pair)' # {}
      BY <1>4 DEF GrantWantedInv, GrantOf
    <3>1. wanted \in [Pairs -> Scopes \cup {"none"}]
      BY DEF GrantsInv, GrantsTypeOK
    <3>2. CASE pair = w.pair
      BY <2>1, <2>2, <3>1, <3>2 DEF GrantOf
    <3>3. CASE pair # w.pair
      <4>1. GrantOf(pair)' = GrantOf(pair) /\ wanted'[pair] = wanted[pair] /\ pair \notin missed
        BY <2>1, <2>2, <3>1, <3>3 DEF GrantOf
      <4> QED
        BY <4>1 DEF GrantsInv, GrantWantedInv
    <3> QED
      BY <3>2, <3>3
  <2>7. ASSUME NEW s \in GrantThreads \ {t}
        PROVE  GrantHandInv(s)'
    <3>1. /\ GrantHandInv(s) /\ grantWork'[s] = grantWork[s]
          /\ s \in crossing' => grantWork[s].op = "revoke"
      BY <1>3, <2>1 DEF GrantsInv, GrantHandInv
    <3>2. ASSUME NEW k \in grantWork[s].ids, NEW g \in grants', g.id = k
          PROVE  g.pair = grantWork[s].pair
      <4>1. CASE \E h \in grants : h.id = g.id /\ h.pair = g.pair
        BY <3>1, <3>2, <4>1 DEF GrantHandInv
      <4>2. CASE g.id = id
        <5>1. grantWork[s].pair = w.pair
          BY <1>1, <3>2, <4>2 DEF GrantsInv, GrantHandsApart
        <5>2. g.pair = w.pair
          BY <1>2, <2>1, <2>2, <4>2 DEF Saved
        <5> QED
          BY <5>1, <5>2
      <4> QED
        BY <2>1, <2>2, <4>1, <4>2
    <3>3. ASSUME grantWork[s].op = "revoke", s \notin crossing'
          PROVE  \A g \in GrantOf(grantWork[s].pair)' : g.id \in grantWork[s].ids
      <4>1. grantWork[s].pair # w.pair /\ s \notin crossing
        BY <2>1, <3>3 DEF GrantBusy
      <4>2. GrantOf(grantWork[s].pair)' = GrantOf(grantWork[s].pair)
        BY <2>1, <2>2, <3>1, <4>1 DEF GrantOf
      <4> QED
        BY <3>1, <3>3, <4>1, <4>2 DEF GrantHandInv
    <3> QED
      BY <1>4, <3>1, <3>2, <3>3 DEF GrantHandInv, GrantOf
  <2> QED
    BY <1>3, <1>7, <2>4, <2>5, <2>6, <2>7 DEF GrantsInv
<1> QED
  BY <1>8, <1>9

LEMMA WriteRevokeStep ==
  ASSUME GrantsInv, NEW t \in GrantThreads, WriteRevoke(t)
  PROVE  GrantsInv'
<1> DEFINE w == grantWork[t]
<1>1. /\ w.op = "revoke" /\ w.pair \in Pairs
      /\ \A g \in grants : g.id \in w.ids => g.pair = w.pair
      /\ t \notin crossing => \A g \in GrantOf(w.pair) : g.id \in w.ids
  BY DEF WriteRevoke, GrantsInv, GrantHandInv
<1>2. /\ grants' = {g \in grants : g.id \notin w.ids}
      /\ wanted' = [wanted EXCEPT ![w.pair] = "none"]
      /\ missed' = (IF t \in crossing THEN missed \cup {w.pair} ELSE missed)
      /\ crossing' = crossing \ {t}
      /\ paper' = paper /\ grantCalls' = grantCalls
  BY DEF WriteRevoke
<1>3. /\ grantWork'[t].op = "none" /\ grantWork'[t].ids = {}
      /\ \A s \in GrantThreads \ {t} : grantWork'[s] = grantWork[s]
      /\ grantWork' = [s \in GrantThreads |-> grantWork'[s]]
      /\ GrantBusy' = GrantBusy \ {t}
      /\ GrantHandsApart'
  BY GrantsReleased DEF WriteRevoke
<1>4. \A s \in GrantThreads : GrantHandInv(s)'
  <2>1. GrantHandInv(t)'
    BY <1>2, <1>3 DEF GrantHandInv
  <2>2. \A s \in GrantThreads \ {t} : GrantHandInv(s)'
    BY <1>2, <1>3, FewerGrants
  <2> QED
    BY <2>1, <2>2
<1>5. GrantsTypeOK'
  BY <1>1, <1>2, <1>3 DEF GrantsInv, GrantsTypeOK
<1>6. GrantTableInv'
  BY <1>2 DEF GrantsInv, GrantTableInv
<1>7. GrantWantedInv'
  <2> SUFFICES ASSUME NEW pair \in Pairs, pair \notin missed'
               PROVE  /\ \A g \in GrantOf(pair)' : g.scope = wanted'[pair]
                      /\ pair[1] \in paper /\ wanted'[pair] # "none" => GrantOf(pair)' # {}
    BY <1>2 DEF GrantWantedInv, GrantOf
  <2>1. wanted \in [Pairs -> Scopes \cup {"none"}] /\ pair \notin missed
    BY <1>2 DEF GrantsInv, GrantsTypeOK
  <2>2. CASE pair = w.pair
    <3>1. GrantOf(pair)' = {} /\ wanted'[pair] = "none"
      BY <1>1, <1>2, <2>1, <2>2 DEF GrantOf
    <3> QED
      BY <3>1
  <2>3. CASE pair # w.pair
    <3>1. GrantOf(pair)' = GrantOf(pair) /\ wanted'[pair] = wanted[pair]
      BY <1>1, <1>2, <2>1, <2>3 DEF GrantOf
    <3> QED
      BY <2>1, <3>1 DEF GrantsInv, GrantWantedInv
  <2> QED
    BY <2>2, <2>3
<1> QED
  BY <1>3, <1>4, <1>5, <1>6, <1>7 DEF GrantsInv

LEMMA DeletePaperStep ==
  ASSUME GrantsInv, DeletePaper
  PROVE  GrantsInv'
<1>1. PICK i \in paper :
        /\ paper' = paper \ {i}
        /\ grants' = {g \in grants : g.pair[1] # i}
        /\ wanted' = [pair \in Pairs |-> IF pair[1] = i THEN "none" ELSE wanted[pair]]
        /\ missed' = {pair \in missed : pair[1] # i}
        /\ UNCHANGED <<grantCalls, grantWork, crossing>>
  BY DEF DeletePaper
<1>2. \A s \in GrantThreads : GrantHandInv(s)'
  BY <1>1, FewerGrants
<1>3. GrantsTypeOK'
  BY <1>1 DEF GrantsInv, GrantsTypeOK, GrantBusy
<1>4. GrantTableInv'
  BY <1>1 DEF GrantsInv, GrantTableInv
<1>5. GrantWantedInv'
  BY <1>1 DEF GrantsInv, GrantsTypeOK, GrantWantedInv, GrantOf
<1>6. GrantHandsApart' /\ grantWork' = [t \in GrantThreads |-> grantWork'[t]]
  BY <1>1 DEF GrantsInv, GrantHandsApart
<1> QED
  BY <1>2, <1>3, <1>4, <1>5, <1>6 DEF GrantsInv

-----------------------------------------------------------------------------
(* The theorem. *)

\* Under the rules of the policy file, who was granted the scope to edit may edit,
\* and who had it taken away may not, whatever grants, revokes and deletions cross,
\* but for a revoke that read the table before a grant was written.
THEOREM GrantsTheorem ==
  ASSUME RulesGiveEdit
  PROVE  GrantsSpec => [](GrantsTypeOK /\ GrantsHonest)
<1>1. GrantsInit => GrantsInv
  <2> SUFFICES ASSUME GrantsInit PROVE GrantsInv
    OBVIOUS
  <2>1. /\ NoGrantWork.op = "none" /\ NoGrantWork.ids = {} /\ 0 \in 0..MaxGrantCalls
    BY GrantsAssumption DEF NoGrantWork
  <2>2. GrantsTypeOK
    BY <2>1 DEF GrantsInit, GrantsTypeOK
  <2>3. GrantTableInv /\ GrantWantedInv
    BY DEF GrantsInit, GrantTableInv, GrantWantedInv, GrantOf
  <2>4. \A t \in GrantThreads : grantWork[t] = NoGrantWork
    BY DEF GrantsInit
  <2>5. GrantHandsApart /\ grantWork = [t \in GrantThreads |-> grantWork[t]]
    BY <2>1, <2>4 DEF GrantsInit, GrantHandsApart
  <2>6. \A t \in GrantThreads : GrantHandInv(t)
    BY <2>1, <2>4 DEF GrantsInit, GrantHandInv
  <2> QED
    BY <2>2, <2>3, <2>5, <2>6 DEF GrantsInv
<1>2. GrantsInv /\ [GrantsNext]_grantVars => GrantsInv'
  <2> SUFFICES ASSUME GrantsInv, [GrantsNext]_grantVars PROVE GrantsInv'
    OBVIOUS
  <2>1. CASE UNCHANGED grantVars
    BY <2>1 DEF grantVars, GrantsInv, GrantsTypeOK, GrantTableInv, GrantWantedInv, GrantHandsApart, GrantHandInv,
                GrantOf, GrantBusy
  <2> QED
    BY <2>1, DeletePaperStep, GrantStep, RevokeStep, WriteGrantStep, WriteRevokeStep DEF GrantsNext
<1>t. GrantsInv => GrantsTypeOK
  BY DEF GrantsInv
<1>3. GrantsInv => GrantsHonest
  <2> SUFFICES ASSUME GrantsInv PROVE GrantsHonest
    OBVIOUS
  <2>1. \A g \in grants : g.scope \in Scopes /\ g.pair \in Pairs
    BY DEF GrantsInv, GrantsTypeOK
  <2>2. ASSUME NEW pair \in Pairs \ missed, pair[1] \in paper
        PROVE  CheckPermission(pair[2], <<"content", "edit">>, pair[1], ScopesOf(pair[2], pair[1]))
                 <=> \/ RoleAllows(pair[2], <<"content", "edit">>)
                     \/ OwnerOf[pair[1]] = pair[2] \/ wanted[pair] = "edit"
    <3>1. pair[1] \in Papers /\ pair[2] \in Members /\ pair = <<pair[1], pair[2]>>
      BY DEF Pairs
    <3>2. ScopesOf(pair[2], pair[1]) = {g.scope : g \in GrantOf(pair)}
      BY <3>1 DEF ScopesOf
    <3>3. ScopesOf(pair[2], pair[1]) \in SUBSET Scopes
      BY <2>1, <3>2 DEF GrantOf
    <3>4. "edit" \in ScopesOf(pair[2], pair[1]) <=> wanted[pair] = "edit"
      BY <2>2, <3>2 DEF GrantsInv, GrantWantedInv
    <3> QED
      BY <3>1, <3>3, <3>4, RulesGiveEdit DEF RulesGiveEdit
  <2> QED
    BY <2>2 DEF GrantsInv, GrantTableInv, GrantsHonest
<1> QED
  BY <1>1, <1>2, <1>3, <1>t, PTL DEF GrantsSpec

-----------------------------------------------------------------------------
(***************************************************************************)
(* PublicSite, for every set of items and every page of related items.     *)
(***************************************************************************)

\* What the queries of home and related found was published then, and what is shown
\* of it was published when it was read; a page has nothing to be read.
ViewInv ==
  /\ view.at \in {"home", "related"} => view.ids \subseteq Published \cup withdrawn
  /\ view.at \in {"none", "page"} => view.ids = {}

SiteInv == SiteTypeOK /\ ViewInv /\ ShownWasPublished

Copies == [item: SiteItems, published: BOOLEAN]
SiteViews == [at: {"none", "home", "related", "sitemap", "page"}, ids: SUBSET SiteItems,
              shown: SUBSET Copies]

LEMMA CopyFacts ==
  ASSUME NEW i \in SiteItems
  PROVE  /\ Copy(i) \in Copies /\ Copy(i).item = i
         /\ Copy(i).published <=> i \in Published
<1> DEFINE up == i \in Published
           copy == [item |-> i, published |-> up]
<1>1. Copy(i) = copy /\ up \in BOOLEAN
  BY DEF Copy
<1>2. up <=> i \in Published
  OBVIOUS
<1> HIDE DEF up
<1>3. copy \in Copies /\ copy.item = i /\ copy.published = up
  BY <1>1 DEF Copies
<1> QED
  BY <1>1, <1>2, <1>3

\* A publication takes nothing away, and what a withdrawal takes away it remembers.
LEMMA MoveStep ==
  ASSUME SiteInv, Appear \/ Withdraw
  PROVE  SiteInv'
<1>1. /\ moves < MaxMoves /\ moves' = moves + 1 /\ view' = view
      /\ \E i \in SiteItems :
           \/ since' = [since EXCEPT ![i] = moves + 1] /\ withdrawn' = withdrawn
           \/ since' = [since EXCEPT ![i] = 0] /\ withdrawn' = withdrawn \cup {i}
  BY DEF Appear, Withdraw, Published
<1>2. /\ since \in [SiteItems -> 0..MaxMoves] /\ moves \in 0..MaxMoves /\ MaxMoves \in Nat
      /\ view \in SiteViews /\ withdrawn \subseteq SiteItems
  BY SiteAssumption DEF SiteInv, SiteTypeOK, SiteViews, Copies
<1>3. moves + 1 \in 0..MaxMoves /\ moves + 1 # 0 /\ 0 \in 0..MaxMoves
  BY <1>1, <1>2
<1>4. /\ since' \in [SiteItems -> 0..MaxMoves] /\ withdrawn' \subseteq SiteItems
      /\ withdrawn \subseteq withdrawn'
      /\ \A k \in SiteItems : since'[k] = 0 => since[k] = 0 \/ k \in withdrawn'
  BY <1>1, <1>2, <1>3
<1>5. SiteTypeOK'
  BY <1>1, <1>2, <1>3, <1>4 DEF SiteTypeOK, SiteViews, Copies
<1>6. ViewInv'
  BY <1>1, <1>4 DEF SiteInv, ViewInv, Published
<1>7. ShownWasPublished'
  BY <1>1, <1>4 DEF SiteInv, ShownWasPublished
<1> QED
  BY <1>5, <1>6, <1>7 DEF SiteInv

\* A request that finds ids, or answers with a page.
LEMMA FindStep ==
  ASSUME SiteInv, NEW at \in {"home", "related", "sitemap"}, NEW ids \in SUBSET SiteItems,
         Find(at, ids), at # "sitemap" => ids \subseteq Published
  PROVE  SiteInv'
<1> DEFINE found == [at |-> at, ids |-> ids, shown |-> {}]
<1>1. view' = found /\ withdrawn' = {} /\ UNCHANGED <<since, moves>>
  BY DEF Find
<1>2. found \in SiteViews /\ found.at = at /\ found.ids = ids /\ found.shown = {}
  BY DEF SiteViews
<1> HIDE DEF found
<1>3. SiteTypeOK'
  BY <1>1, <1>2 DEF SiteInv, SiteTypeOK, SiteViews, Copies
<1>4. ViewInv'
  BY <1>1, <1>2 DEF ViewInv, Published
<1>5. ShownWasPublished'
  BY <1>1, <1>2 DEF ShownWasPublished
<1> QED
  BY <1>3, <1>4, <1>5 DEF SiteInv

LEMMA ListSteps ==
  ASSUME SiteInv, GetHome \/ GetRelated \/ GetSitemap
  PROVE  SiteInv'
<1>1. CASE GetHome
  <2>1. Newest(Published, HomeLimit) \in SUBSET SiteItems
        /\ Newest(Published, HomeLimit) \subseteq Published
    BY DEF Newest, Published
  <2> QED
    BY <1>1, <2>1, FindStep DEF GetHome
<1>2. CASE GetSitemap
  <2>1. Newest(SiteItems, SitemapLimit) \in SUBSET SiteItems
    BY DEF Newest
  <2> QED
    BY <1>2, <2>1, FindStep DEF GetSitemap
<1>3. CASE GetRelated
  <2>1. PICK i \in SiteItems :
          Find("related", {j \in Published \ {i} :
            Cardinality({k \in Published \ {i} : since[k] > since[j]}) < RelatedLimit})
    BY <1>3 DEF GetRelated
  <2> DEFINE ids == {j \in Published \ {i} :
            Cardinality({k \in Published \ {i} : since[k] > since[j]}) < RelatedLimit}
  <2>2. ids \in SUBSET SiteItems /\ ids \subseteq Published
    BY DEF Published
  <2>3. Find("related", ids)
    BY <2>1
  <2> HIDE DEF ids
  <2> QED
    BY <2>2, <2>3, FindStep
<1> QED
  BY <1>1, <1>2, <1>3

\* A copy that is read is published, or the item was withdrawn since it was found.
LEMMA ReadNextStep ==
  ASSUME SiteInv, ReadNext
  PROVE  SiteInv'
<1>1. PICK i \in view.ids :
        view' = [view EXCEPT
          !.ids = @ \ {i},
          !.shown = IF view.at # "sitemap" \/ i \in Published THEN @ \cup {Copy(i)} ELSE @]
  BY DEF ReadNext
<1> DEFINE shown == IF view.at # "sitemap" \/ i \in Published THEN view.shown \cup {Copy(i)}
                    ELSE view.shown
           read == [at |-> view.at, ids |-> view.ids \ {i}, shown |-> shown]
<1>2. UNCHANGED <<since, moves, withdrawn>>
  BY DEF ReadNext
<1>3. view \in SiteViews /\ i \in SiteItems
  BY DEF SiteInv, SiteTypeOK, SiteViews, Copies
<1>4. /\ Copy(i) \in Copies /\ Copy(i).item = i
      /\ Copy(i).published <=> i \in Published
  BY <1>3, CopyFacts
<1>5. view' = read
  BY <1>1, <1>3 DEF SiteViews
<1>6. shown \in SUBSET Copies
  BY <1>3, <1>4 DEF SiteViews
<1> HIDE DEF shown
<1>7. read \in SiteViews /\ read.at = view.at /\ read.ids = view.ids \ {i} /\ read.shown = shown
  BY <1>3, <1>6 DEF SiteViews
<1> HIDE DEF read
<1>8. SiteTypeOK'
  BY <1>2, <1>5, <1>7 DEF SiteInv, SiteTypeOK, SiteViews, Copies
<1>9. ViewInv'
  BY <1>2, <1>5, <1>7 DEF SiteInv, ViewInv, Published
<1>10. ShownWasPublished'
  <2>1. \A c \in shown : c \in view.shown \/ (c = Copy(i) /\ (view.at # "sitemap" \/ i \in Published))
    <3>1. shown = view.shown \/
            (shown = view.shown \cup {Copy(i)} /\ (view.at # "sitemap" \/ i \in Published))
      BY DEF shown
    <3> QED
      BY <3>1
  <2>2. view.at \in {"home", "related", "sitemap"}
    BY <1>3 DEF SiteInv, ViewInv, SiteViews
  <2>3. view.at \in {"home", "related"} => i \in Published \/ i \in withdrawn
    BY DEF SiteInv, ViewInv
  <2> QED
    BY <1>2, <1>4, <1>5, <1>7, <2>1, <2>2, <2>3 DEF SiteInv, ShownWasPublished
<1> QED
  BY <1>8, <1>9, <1>10 DEF SiteInv

LEMMA NoViewType ==
  /\ NoView \in SiteViews /\ NoView.at = "none" /\ NoView.ids = {} /\ NoView.shown = {}
BY DEF NoView, SiteViews

LEMMA AnswerStep ==
  ASSUME SiteInv, Answer
  PROVE  SiteInv'
<1>1. view' = NoView /\ UNCHANGED <<since, moves, withdrawn>>
  BY DEF Answer
<1> QED
  BY <1>1, NoViewType DEF SiteInv, SiteTypeOK, SiteViews, Copies, ViewInv, ShownWasPublished

LEMMA GetPageStep ==
  ASSUME SiteInv, GetPage
  PROVE  SiteInv'
<1>1. PICK i \in SiteItems, prefix \in {"/p", "/page", "/r"} :
        /\ i \in Serves(<<prefix, i>>)
        /\ view' = [at |-> "page", ids |-> {}, shown |-> {Copy(i)}]
        /\ withdrawn' = {}
        /\ UNCHANGED <<since, moves>>
  BY DEF GetPage
<1> DEFINE page == [at |-> "page", ids |-> {}, shown |-> {Copy(i)}]
<1>2. i \in Published
  BY <1>1 DEF Serves, RequirePublished
<1>3. Copy(i) \in Copies /\ Copy(i).published
  BY <1>2 DEF Copy, Copies
<1>4. page \in SiteViews /\ page.at = "page" /\ page.ids = {} /\ page.shown = {Copy(i)}
  BY <1>3 DEF SiteViews
<1> HIDE DEF page
<1>5. view' = page
  BY <1>1 DEF page
<1>6. SiteTypeOK'
  BY <1>1, <1>4, <1>5 DEF SiteInv, SiteTypeOK, SiteViews, Copies
<1>7. ViewInv'
  BY <1>4, <1>5 DEF ViewInv
<1>8. ShownWasPublished'
  BY <1>3, <1>4, <1>5 DEF ShownWasPublished
<1> QED
  BY <1>6, <1>7, <1>8 DEF SiteInv

\* An item is at its address, and the policies agree, whatever is published.
LEMMA PublishedFound == PublishedIsFound
<1>1. ASSUME NEW i \in Published
      PROVE  /\ KindOf[i] # "page" => Serves(ContentPath(i)) = {i}
             /\ KindOf[i] = "post" => Serves(EntryPath(i)) = {i}
  <2>1. i \in SiteItems /\ RequirePublished(i)
    BY DEF Published, RequirePublished
  <2>2. KindOf[i] \in {"post", "page", "resource_pdf"}
    BY <2>1, SiteAssumption, ElementOfSeq, LenProperties DEF SiteItems
  <2>3. ASSUME NEW prefix, <<prefix, KindOf[i]>> \in PageRoutes
        PROVE  Serves(<<prefix, i>>) = {i}
    BY <2>1, <2>3 DEF Serves
  <2>4. CASE KindOf[i] = "post"
    <3>1. ContentPath(i) = <<"/p", i>> /\ EntryPath(i) = <<"/p", i>>
      BY <2>4 DEF ContentPath, EntryPath
    <3>2. <<"/p", KindOf[i]>> \in PageRoutes
      BY <2>4 DEF PageRoutes
    <3> QED
      BY <2>3, <3>1, <3>2
  <2>5. CASE KindOf[i] = "resource_pdf"
    <3>1. ContentPath(i) = <<"/r", i>>
      BY <2>5 DEF ContentPath
    <3>2. <<"/r", KindOf[i]>> \in PageRoutes
      BY <2>5 DEF PageRoutes
    <3> QED
      BY <2>3, <2>5, <3>1, <3>2
  <2> QED
    BY <2>2, <2>4, <2>5
<1>2. ASSUME NEW s \in PolicyStatus, NEW d \in PolicyDates
      PROVE  /\ PubliclyCached(s, d) <=> PubliclyVisible(s, d) \/ <<s, d>> = <<"scheduled", "past">>
             /\ PubliclyCached(s, d) /\ ViolatesR2(s, d) => <<s, d>> = <<"scheduled", "past">>
  <2>1. s \in {"draft", "scheduled", "published", "archived"} /\ d \in {"past", "future", "none"}
    BY DEF PolicyStatus, PolicyDates
  <2>2. PubliclyCached(s, d) <=> PubliclyVisible(s, d) \/ (s = "scheduled" /\ d = "past")
    BY <2>1 DEF PubliclyCached, PubliclyVisible
  <2>3. PubliclyCached(s, d) /\ ViolatesR2(s, d) => s = "scheduled" /\ d = "past"
    BY <2>1 DEF PubliclyCached, ViolatesR2
  <2> QED
    BY <2>2, <2>3
<1> QED
  BY <1>1, <1>2 DEF PublishedIsFound

\* R1 for whatever is published and withdrawn between the queries of a request: a
\* visitor is shown what was published, and every published item is found.
THEOREM SiteTheorem == SiteSpec => [](SiteTypeOK /\ SiteHonest)
<1>1. SiteInit => SiteInv
  <2> SUFFICES ASSUME SiteInit
               PROVE  SiteInv
    OBVIOUS
  <2>1. since \in [SiteItems -> 0..MaxMoves] /\ moves \in 0..MaxMoves
    BY SiteAssumption DEF SiteInit
  <2> QED
    BY <2>1, NoViewType
    DEF SiteInit, SiteInv, SiteTypeOK, SiteViews, Copies, ViewInv, ShownWasPublished
<1>2. SiteInv /\ [SiteNext]_siteVars => SiteInv'
  <2> SUFFICES ASSUME SiteInv, [SiteNext]_siteVars
               PROVE  SiteInv'
    OBVIOUS
  <2>1. CASE UNCHANGED siteVars
    BY <2>1 DEF siteVars, SiteInv, SiteTypeOK, ViewInv, ShownWasPublished, Published
  <2>2. CASE SiteNext
    BY <2>2, MoveStep, ListSteps, ReadNextStep, AnswerStep, GetPageStep DEF SiteNext
  <2> QED
    BY <2>1, <2>2
<1>3. SiteInv => SiteTypeOK /\ SiteHonest
  BY PublishedFound DEF SiteInv, SiteHonest
<1> QED
  BY <1>1, <1>2, <1>3, PTL DEF SiteSpec

-----------------------------------------------------------------------------
(***************************************************************************)
(* Startup, for every set of starters and scripts.                         *)
(***************************************************************************)

\* Where a start is in the files: those before its file are recorded, those behind
\* it are to be run or recorded, and of its file the statements before the next one
\* were run.
PlaceInv(s) ==
  LET me == starter[s] IN
  /\ me.at \in {"script", "record"} =>
       /\ \A g \in Files : g < me.file => g \in migrated
       /\ \A g \in me.todo : g > me.file
       /\ \A g \in Files : g > me.file => g \in me.todo \cup migrated
  /\ me.at \in {"init", "script"} =>
       me.next <= Len(Scripts[me.file]) /\ \A k \in 1..(me.next - 1) : <<me.file, k>> \in made
  /\ me.at = "init" => me.file = 1
  /\ me.at = "record" => StatementsOf(me.file) \subseteq made

RecordedInv == \A f \in migrated : StatementsOf(f) \subseteq made /\ 1..f \subseteq migrated

\* As long as nothing was cut off and no two starts met: one start at work, the files
\* it has to run are not recorded, and what the database has of a file that is not
\* recorded is what this start ran, of the first file all or what is being run.
AloneInv ==
  /\ \A s, o \in Starters : Working(s) /\ Working(o) => s = o
  /\ \A s \in Starters :
       /\ starter[s].at # "failed"
       /\ starter[s].at \in {"boot", "create"} => StatementsOf(1) \subseteq made
       /\ starter[s].at = "create" => owners = 0
       /\ starter[s].at \in {"script", "record"} =>
            starter[s].file \notin migrated /\ starter[s].todo \cap migrated = {}
  /\ <<1, 1>> \in made =>
       \/ StatementsOf(1) \subseteq made
       \/ \E s \in Starters : starter[s].at \in {"init", "script"} /\ starter[s].file = 1
  /\ \A f \in Files \ migrated : \A k \in DOMAIN Scripts[f] :
       f > 1 /\ <<f, k>> \in made =>
         \E s \in Starters :
           /\ starter[s].file = f
           /\ starter[s].at = "record" \/ (starter[s].at = "script" /\ k < starter[s].next)

StartupInv ==
  /\ StartupTypeOK /\ RecordedInv /\ owners <= 1
  /\ \A s \in Starters : PlaceInv(s)
  /\ shaken \/ AloneInv

StarterStates == [at: {"off", "up", "failed", "init", "script", "record", "boot", "create"},
                  file: Files, next: Nat \ {0}, todo: SUBSET Files]

LEMMA FilesFacts ==
  /\ Files = 1..Len(Scripts) /\ Files \subseteq Nat /\ 1 \in Files
  /\ \A f \in Files : /\ DOMAIN Scripts[f] = 1..Len(Scripts[f])
                      /\ Len(Scripts[f]) \in Nat /\ Len(Scripts[f]) >= 1
<1>1. Scripts \in Seq(Seq({"again", "once"})) /\ Len(Scripts) >= 1
  BY StartupAssumption
<1>2. Files = 1..Len(Scripts) /\ Len(Scripts) \in Nat
  BY <1>1, LenProperties DEF Files
<1>3. \A f \in Files : Scripts[f] \in Seq({"again", "once"})
  BY <1>1, <1>2, ElementOfSeq
<1>4. \A f \in Files : DOMAIN Scripts[f] = 1..Len(Scripts[f]) /\ Len(Scripts[f]) \in Nat
  BY <1>3, LenProperties
<1> QED
  BY <1>1, <1>2, <1>4, StartupAssumption DEF Files

LEMMA OffType == Off \in StarterStates /\ Off.at = "off" /\ Off.file = 1 /\ Off.next = 1 /\ Off.todo = {}
BY FilesFacts DEF Off, StarterStates

\* What a start does with the files it has left.
LEMMA ScriptFacts ==
  ASSUME NEW todo \in SUBSET Files
  PROVE  /\ Script(todo) \in StarterStates
         /\ \/ todo = {} /\ Script(todo).at = "up"
            \/ \E f \in todo :
                 /\ \A g \in todo : f <= g
                 /\ Script(todo).at = "script" /\ Script(todo).file = f
                 /\ Script(todo).next = 1 /\ Script(todo).todo = todo \ {f}
<1>1. CASE todo = {}
  BY <1>1, OffType DEF Script, Off, StarterStates
<1>2. CASE todo # {}
  <2>1. \A x, y \in Nat : <<x, y>> \in OpToRel(<, Nat) <=> x < y
    BY DEF OpToRel
  <2>2. todo \subseteq Nat
    BY FilesFacts
  <2>3. \E n \in todo : \A m \in todo : ~(<<m, n>> \in OpToRel(<, Nat))
    BY <1>2, <2>2, NatLessThanWellFounded, WFMin
  <2>4. \E n \in todo : \A m \in todo : n <= m
    <3>1. PICK n \in todo : \A m \in todo : ~(<<m, n>> \in OpToRel(<, Nat))
      BY <2>3
    <3>2. \A m \in todo : m \in Nat /\ n \in Nat /\ ~(m < n)
      BY <2>1, <2>2, <3>1
    <3>3. \A m \in todo : n <= m
      BY <3>2
    <3> QED
      BY <3>3
  <2> DEFINE f == CHOOSE f \in todo : \A g \in todo : f <= g
             next == [at |-> "script", file |-> f, next |-> 1, todo |-> todo \ {f}]
  <2>5. f \in todo /\ \A g \in todo : f <= g
    BY <2>4
  <2>6. Script(todo) = next
    BY <1>2 DEF Script
  <2> HIDE DEF f
  <2>7. next \in StarterStates /\ next.at = "script" /\ next.file = f /\ next.next = 1
        /\ next.todo = todo \ {f}
    BY <2>5 DEF StarterStates
  <2> QED
    BY <2>5, <2>6, <2>7
<1> QED
  BY <1>1, <1>2

\* The other starts keep their places, when nothing is taken back.
LEMMA BecomeEffect ==
  ASSUME StartupInv, NEW s \in Starters, NEW new \in StarterStates, Become(s, new),
         made \subseteq made', migrated \subseteq migrated'
  PROVE  /\ starter' \in [Starters -> StarterStates] /\ starter'[s] = new
         /\ \A o \in Starters \ {s} : starter'[o] = starter[o] /\ PlaceInv(o)'
<1>1. /\ starter' = [starter EXCEPT ![s] = new]
      /\ starter \in [Starters -> StarterStates]
  BY DEF Become, StartupInv, StartupTypeOK, StarterStates
<1>2. ASSUME NEW o \in Starters \ {s}
      PROVE  starter'[o] = starter[o] /\ PlaceInv(o)'
  <2>1. starter'[o] = starter[o] /\ PlaceInv(o)
    BY <1>1 DEF StartupInv
  <2> QED
    BY <2>1 DEF PlaceInv
<1> QED
  BY <1>1, <1>2

\* A start that begins: it is alone unless the history says otherwise.
LEMMA StartedFacts ==
  ASSUME StartupInv, NEW s \in Starters, Started(s)
  PROVE  /\ starts' \in 0..MaxStarts /\ shaken' \in BOOLEAN
         /\ UNCHANGED <<made, migrated, owners>>
         /\ ~shaken' => /\ AloneInv /\ \A o \in Starters : ~Working(o)
                        /\ <<1, 1>> \in made => StatementsOf(1) \subseteq made
                        /\ \A f \in Files \ migrated : \A k \in DOMAIN Scripts[f] :
                             f > 1 => <<f, k>> \notin made
<1>1. /\ starts < MaxStarts /\ starts' = starts + 1
      /\ shaken' = (shaken \/ \E o \in Starters : Working(o))
      /\ UNCHANGED <<made, migrated, owners>>
  BY DEF Started
<1>2. starts' \in 0..MaxStarts /\ shaken' \in BOOLEAN
  BY <1>1, StartupAssumption DEF StartupInv, StartupTypeOK
<1>3. ASSUME ~shaken'
      PROVE  AloneInv /\ \A o \in Starters : ~Working(o)
  BY <1>1, <1>3 DEF StartupInv
<1>4. ASSUME ~shaken'
      PROVE  \A o \in Starters : starter[o].at \notin {"init", "script", "record"}
  BY <1>3, <1>4 DEF Working
<1> QED
  BY <1>1, <1>2, <1>3, <1>4 DEF AloneInv

\* The invariant after a start began as some state says.
LEMMA BegunStep ==
  ASSUME StartupInv, NEW s \in Starters, NEW new \in StarterStates, Started(s), Become(s, new),
         new.at \in {"init", "script", "boot", "up"}, PlaceInv(s)',
         ~shaken' /\ new.at = "boot" => StatementsOf(1) \subseteq made,
         new.at = "script" => new.file \notin migrated /\ new.todo \cap migrated = {}
  PROVE  StartupInv'
<1>1. /\ starts' \in 0..MaxStarts /\ shaken' \in BOOLEAN
      /\ UNCHANGED <<made, migrated, owners>>
  BY StartedFacts
<1>2. /\ starter' \in [Starters -> StarterStates] /\ starter'[s] = new
      /\ \A o \in Starters \ {s} : starter'[o] = starter[o] /\ PlaceInv(o)'
  BY <1>1, BecomeEffect
<1>3. StartupTypeOK' /\ RecordedInv' /\ owners' <= 1
  BY <1>1, <1>2 DEF StartupInv, StartupTypeOK, RecordedInv, StarterStates
<1>4. \A o \in Starters : PlaceInv(o)'
  BY <1>2
<1>5. ASSUME ~shaken'
      PROVE  AloneInv'
  <2>1. /\ AloneInv /\ \A o \in Starters : ~Working(o)
        /\ <<1, 1>> \in made => StatementsOf(1) \subseteq made
        /\ \A f \in Files \ migrated : \A k \in DOMAIN Scripts[f] :
             f > 1 => <<f, k>> \notin made
    BY <1>5, StartedFacts
  <2>2. \A o \in Starters \ {s} : ~(Working(o)') /\ starter'[o].at \in {"off", "up"}
    BY <1>2, <2>1 DEF Working, AloneInv
  <2>3. /\ starter'[s].at # "failed" /\ starter'[s].at # "create" /\ starter'[s].at # "record"
        /\ starter'[s].at = "boot" => StatementsOf(1) \subseteq made
    BY <1>2, <1>5
  <2> QED
    BY <1>1, <1>2, <2>1, <2>2, <2>3 DEF AloneInv
<1> QED
  BY <1>3, <1>4, <1>5 DEF StartupInv

LEMMA InitDbStep ==
  ASSUME StartupInv, NEW s \in Starters, InitDb(s)
  PROVE  StartupInv'
<1> DEFINE at == IF <<1, 1>> \in made THEN "boot" ELSE "init"
           new == [Off EXCEPT !.at = at]
<1>1. Started(s) /\ Become(s, new)
  BY DEF InitDb
<1>2. at \in {"boot", "init"} /\ (at = "boot" => <<1, 1>> \in made)
  OBVIOUS
<1> HIDE DEF at
<1>3. new \in StarterStates /\ new.at = at /\ new.file = 1 /\ new.next = 1 /\ new.todo = {}
  BY <1>2, OffType DEF StarterStates
<1> HIDE DEF new
<1>4. /\ UNCHANGED <<made, migrated>>
      /\ ~shaken' => (<<1, 1>> \in made => StatementsOf(1) \subseteq made)
  BY <1>1, StartedFacts
<1>5. starter'[s] = new
  BY <1>1, <1>3, <1>4, BecomeEffect
<1>6. PlaceInv(s)'
  BY <1>2, <1>3, <1>5, FilesFacts DEF PlaceInv
<1> QED
  BY <1>1, <1>2, <1>3, <1>4, <1>6, BegunStep

\* The place of a start that turned to the first of some files.
LEMMA ScriptPlace ==
  ASSUME NEW s \in Starters, NEW todo \in SUBSET Files, starter'[s] = Script(todo),
         \A g \in Files : g \in todo \/ g \in migrated'
  PROVE  /\ PlaceInv(s)'
         /\ Script(todo).at \in {"up", "script"}
         /\ Script(todo).at = "script" =>
              /\ Script(todo).file \in todo /\ Script(todo).todo \subseteq todo
<1>1. CASE todo = {} /\ Script(todo).at = "up"
  BY <1>1, ScriptFacts DEF PlaceInv
<1>2. CASE \E f \in todo :
             /\ \A g \in todo : f <= g
             /\ Script(todo).at = "script" /\ Script(todo).file = f
             /\ Script(todo).next = 1 /\ Script(todo).todo = todo \ {f}
  <2>1. PICK f \in todo :
             /\ \A g \in todo : f <= g
             /\ Script(todo).at = "script" /\ Script(todo).file = f
             /\ Script(todo).next = 1 /\ Script(todo).todo = todo \ {f}
    BY <1>2
  <2>2. f \in Nat /\ Files \subseteq Nat /\ 1 <= Len(Scripts[f]) /\ Len(Scripts[f]) \in Nat
    BY FilesFacts
  <2>3. \A g \in Files : g < f => g \in migrated'
    BY <2>1, <2>2
  <2>4. \A g \in todo \ {f} : g > f
    BY <2>1, <2>2
  <2>5. \A g \in Files : g > f => g \in (todo \ {f}) \cup migrated'
    BY <2>2
  <2>6. \A k \in 1..(1 - 1) : <<f, k>> \in made'
    OBVIOUS
  <2> QED
    BY <2>1, <2>2, <2>3, <2>4, <2>5, <2>6 DEF PlaceInv
<1> QED
  BY <1>1, <1>2, ScriptFacts

LEMMA RunMigrationsStep ==
  ASSUME StartupInv, NEW s \in Starters, RunMigrations(s)
  PROVE  StartupInv'
<1> DEFINE todo == Files \ migrated
           new == Script(todo)
<1>1. Started(s) /\ Become(s, new) /\ todo \in SUBSET Files
  BY DEF RunMigrations
<1>2. new \in StarterStates
  BY ScriptFacts
<1>3. UNCHANGED <<made, migrated>>
  BY <1>1, StartedFacts
<1>4. starter'[s] = Script(todo)
  BY <1>1, <1>2, <1>3, BecomeEffect
<1>5. \A g \in Files : g \in todo \/ g \in migrated'
  BY <1>3
<1> HIDE DEF todo
<1>6. /\ PlaceInv(s)' /\ new.at \in {"up", "script"}
      /\ new.at = "script" => new.file \in todo /\ new.todo \subseteq todo
  BY <1>1, <1>4, <1>5, ScriptPlace
<1>7. new.at = "script" => new.file \notin migrated /\ new.todo \cap migrated = {}
  BY <1>6 DEF todo
<1> HIDE DEF new
<1> QED
  BY <1>1, <1>2, <1>6, <1>7, BegunStep

\* As long as nothing was cut off and no starts met, the others are at rest.
LEMMA OthersRest ==
  ASSUME StartupInv, ~shaken, NEW s \in Starters, Working(s)
  PROVE  \A o \in Starters \ {s} : starter[o].at \in {"off", "up"}
BY DEF StartupInv, AloneInv, Working, StartupTypeOK

\* One statement.
LEMMA ExecuteStep ==
  ASSUME StartupInv, NEW s \in Starters, Execute(s)
  PROVE  StartupInv'
<1> DEFINE me == starter[s]
           here == <<me.file, me.next>>
           at == IF me.next # Len(Scripts[me.file]) THEN me.at
                 ELSE IF me.at = "init" THEN "boot" ELSE "record"
           next == [at |-> at, file |-> me.file, next |-> me.next + 1, todo |-> me.todo]
           failed == [at |-> "failed", file |-> me.file, next |-> me.next, todo |-> me.todo]
<1>1. /\ me \in StarterStates /\ me.at \in {"init", "script"} /\ PlaceInv(s)
      /\ UNCHANGED <<migrated, owners, starts, shaken>>
  BY DEF Execute, StartupInv, StartupTypeOK, StarterStates
<1>2. /\ me.next \in Nat \ {0} /\ me.next <= Len(Scripts[me.file]) /\ me.file \in Files
      /\ DOMAIN Scripts[me.file] = 1..Len(Scripts[me.file]) /\ Len(Scripts[me.file]) \in Nat
      /\ \A k \in 1..(me.next - 1) : <<me.file, k>> \in made
      /\ me.at = "init" => me.file = 1
  BY <1>1, FilesFacts DEF PlaceInv, StarterStates
<1>3. here \in StatementsOf(me.file)
  BY <1>2 DEF StatementsOf
<1>4. \A o \in Starters \ {s} : ~shaken => starter[o].at \in {"off", "up"}
  BY <1>1, OthersRest DEF Working
<1>5. CASE here \in made /\ Scripts[me.file][me.next] = "once"
  <2>1. failed \in StarterStates /\ failed.at = "failed"
    BY <1>1 DEF StarterStates
  <2>2. Become(s, failed) /\ UNCHANGED made
    BY <1>1, <1>5 DEF Execute, Reach, Become, StarterStates
  <2> HIDE DEF failed
  <2>3. /\ starter' \in [Starters -> StarterStates] /\ starter'[s] = failed
        /\ \A o \in Starters \ {s} : starter'[o] = starter[o] /\ PlaceInv(o)'
    BY <1>1, <2>1, <2>2, BecomeEffect
  <2>4. shaken
    <3>1. SUFFICES ASSUME ~shaken
                   PROVE  FALSE
      OBVIOUS
    <3>2. AloneInv
      BY <3>1 DEF StartupInv
    <3>3. me.file # 1
      <4>1. \A k \in DOMAIN Scripts[1] : Scripts[1][k] = "again"
        BY StartupAssumption
      <4> QED
        BY <1>2, <1>5, <4>1
    <3>4. me.at = "script" /\ me.file \notin migrated /\ me.file > 1
      <4>1. me.at = "script"
        BY <1>1, <1>2, <3>3
      <4>2. me.file \in Nat /\ me.file >= 1
        BY <1>2, FilesFacts
      <4> QED
        BY <3>2, <3>3, <4>1, <4>2 DEF AloneInv
    <3>5. \E o \in Starters :
            /\ starter[o].file = me.file
            /\ starter[o].at = "record" \/ (starter[o].at = "script" /\ me.next < starter[o].next)
      BY <1>2, <1>5, <3>2, <3>4 DEF AloneInv
    <3> QED
      BY <1>1, <1>2, <1>4, <3>1, <3>5
  <2>5. PlaceInv(s)'
    BY <2>1, <2>3 DEF PlaceInv
  <2>6. StartupTypeOK' /\ RecordedInv' /\ owners' <= 1
    BY <1>1, <2>2, <2>3 DEF StartupInv, StartupTypeOK, RecordedInv, StarterStates
  <2> QED
    BY <1>1, <2>3, <2>4, <2>5, <2>6 DEF StartupInv
<1>6. CASE ~(here \in made /\ Scripts[me.file][me.next] = "once")
  <2>1. at \in {"init", "script", "boot", "record"}
    BY <1>1
  <2>2. made' = made \cup {here} /\ Become(s, next)
    <3>1. made' = made \cup {here} /\ Become(s, [me EXCEPT !.next = @ + 1, !.at = at])
      BY <1>6 DEF Execute
    <3> HIDE DEF at
    <3> DEFINE n == me.next + 1
               on == [at |-> me.at, file |-> me.file, next |-> n, todo |-> me.todo]
    <3>2. [me EXCEPT !.next = @ + 1, !.at = at] = [[me EXCEPT !.next = n] EXCEPT !.at = at]
      OBVIOUS
    <3> HIDE DEF n
    <3>3. [me EXCEPT !.next = n] = on
      BY <1>1 DEF StarterStates
    <3>4. [on EXCEPT !.at = at] = [at |-> at, file |-> me.file, next |-> n, todo |-> me.todo]
      OBVIOUS
    <3>5. [me EXCEPT !.next = @ + 1, !.at = at] = next
      BY <3>2, <3>3, <3>4 DEF n
    <3> QED
      BY <3>1, <3>5
  <2> HIDE DEF at
  <2>3. /\ next \in StarterStates /\ next.at = at /\ next.file = me.file
        /\ next.next = me.next + 1 /\ next.todo = me.todo
    BY <1>1, <1>2, <2>1 DEF StarterStates
  <2> HIDE DEF next
  <2>4. /\ starter' \in [Starters -> StarterStates] /\ starter'[s] = next
        /\ \A o \in Starters \ {s} : starter'[o] = starter[o] /\ PlaceInv(o)'
    BY <1>1, <2>2, <2>3, BecomeEffect
  <2>5. StartupTypeOK' /\ RecordedInv' /\ owners' <= 1
    <3>1. here \in UNION {StatementsOf(f) : f \in Files}
      BY <1>2, <1>3
    <3> HIDE DEF here
    <3> QED
      BY <1>1, <2>2, <2>4, <3>1 DEF StartupInv, StartupTypeOK, RecordedInv, StarterStates
  <2>6. \A k \in 1..me.next : <<me.file, k>> \in made'
    BY <1>2, <2>2
  <2>7. ~(me.next < Len(Scripts[me.file])) => StatementsOf(me.file) \subseteq made'
    BY <1>2, <2>6 DEF StatementsOf
  <2>8. /\ at = me.at => me.next + 1 <= Len(Scripts[me.file])
        /\ at \in {"boot", "record"} => StatementsOf(me.file) \subseteq made'
        /\ at = "boot" => me.file = 1
        /\ at # me.at => at \in {"boot", "record"}
        /\ at = "record" => me.at = "script"
    BY <1>1, <1>2, <2>7 DEF at
  <2>9. PlaceInv(s)'
    <3>1. \A k \in 1..(next.next - 1) : <<me.file, k>> \in made'
      BY <1>2, <2>3, <2>6
    <3> QED
      BY <1>1, <1>2, <2>1, <2>3, <2>4, <2>8, <3>1 DEF PlaceInv
  <2>10. ASSUME ~shaken
         PROVE  AloneInv'
    <3>1. AloneInv /\ \A o \in Starters \ {s} : starter[o].at \in {"off", "up"}
      BY <1>4, <2>10 DEF StartupInv
    <3>2. \A o \in Starters \ {s} : starter'[o].at \in {"off", "up"} /\ ~(Working(o)')
      BY <2>4, <3>1 DEF Working
    <3>3. /\ starter'[s].at = at /\ at # "failed" /\ at # "create"
          /\ at = "boot" => StatementsOf(1) \subseteq made'
          /\ at \in {"script", "record"} => me.at = "script"
      BY <1>1, <2>1, <2>3, <2>4, <2>8
    <3>4. starter'[s].at \in {"script", "record"} =>
            starter'[s].file \notin migrated' /\ starter'[s].todo \cap migrated' = {}
      BY <1>1, <2>3, <2>4, <3>1, <3>3 DEF AloneInv
    <3>5. <<1, 1>> \in made' =>
            \/ StatementsOf(1) \subseteq made'
            \/ starter'[s].at \in {"init", "script"} /\ starter'[s].file = 1
      <4>1. CASE me.file = 1
        BY <1>1, <2>1, <2>3, <2>4, <2>8, <4>1
      <4>2. CASE me.file # 1
        <5>1. <<1, 1>> \in made' => <<1, 1>> \in made
          BY <2>2, <4>2
        <5>2. \A o \in Starters :
                ~(starter[o].at \in {"init", "script"} /\ starter[o].file = 1)
          BY <3>1, <4>2
        <5> QED
          BY <2>2, <3>1, <5>1, <5>2 DEF AloneInv
      <4> QED
        BY <4>1, <4>2
    <3>6. ASSUME NEW f \in Files \ migrated', NEW k \in DOMAIN Scripts[f],
                 f > 1, <<f, k>> \in made'
          PROVE  /\ starter'[s].file = f
                 /\ starter'[s].at = "record" \/ (starter'[s].at = "script" /\ k < starter'[s].next)
      <4>1. k \in Nat /\ me.next \in Nat /\ k <= Len(Scripts[f])
        BY <1>2, FilesFacts
      <4>2. me.file = f /\ me.at = "script" /\ k <= me.next
        <5>1. CASE <<f, k>> = here
          BY <1>1, <1>2, <3>6, <4>1, <5>1
        <5>2. CASE <<f, k>> \in made
          <6>1. PICK o \in Starters :
                  /\ starter[o].file = f
                  /\ starter[o].at = "record" \/ (starter[o].at = "script" /\ k < starter[o].next)
            BY <1>1, <3>1, <3>6, <5>2 DEF AloneInv
          <6>2. o = s
            BY <3>1, <6>1
          <6> QED
            BY <1>1, <4>1, <6>1, <6>2
        <5>3. <<f, k>> \in made \/ <<f, k>> = here
          BY <2>2, <3>6
        <5> QED
          BY <5>1, <5>2, <5>3
      <4>3. starter'[s].at \in {"script", "record"} /\ k < me.next + 1
        BY <2>1, <2>3, <2>4, <2>8, <3>6, <4>1, <4>2
      <4> QED
        BY <2>3, <2>4, <4>2, <4>3
    <3> QED
      BY <1>1, <2>4, <3>2, <3>3, <3>4, <3>5, <3>6 DEF AloneInv
  <2> QED
    BY <1>1, <2>4, <2>5, <2>9, <2>10 DEF StartupInv
<1> QED
  BY <1>5, <1>6

\* A file that was run to its end is recorded; what is before it was.
LEMMA RecordStep ==
  ASSUME StartupInv, NEW s \in Starters, Record(s)
  PROVE  StartupInv'
<1> DEFINE me == starter[s]
           failed == [at |-> "failed", file |-> me.file, next |-> me.next, todo |-> me.todo]
           next == Script(me.todo)
<1>1. /\ me \in StarterStates /\ me.at = "record" /\ PlaceInv(s)
      /\ me.file \in Files /\ me.todo \in SUBSET Files
      /\ UNCHANGED <<made, owners, starts, shaken>>
  BY DEF Record, StartupInv, StartupTypeOK, StarterStates
<1>2. /\ \A g \in Files : g < me.file => g \in migrated
      /\ \A g \in me.todo : g > me.file
      /\ \A g \in Files : g > me.file => g \in me.todo \cup migrated
      /\ StatementsOf(me.file) \subseteq made
  BY <1>1 DEF PlaceInv
<1>3. \A o \in Starters \ {s} : ~shaken => starter[o].at \in {"off", "up"}
  BY <1>1, OthersRest DEF Working
<1>4. CASE me.file \in migrated
  <2>1. failed \in StarterStates /\ failed.at = "failed"
    BY <1>1 DEF StarterStates
  <2>2. Become(s, failed) /\ UNCHANGED migrated
    BY <1>1, <1>4 DEF Record, Reach, Become, StarterStates
  <2> HIDE DEF failed
  <2>3. /\ starter' \in [Starters -> StarterStates] /\ starter'[s] = failed
        /\ \A o \in Starters \ {s} : starter'[o] = starter[o] /\ PlaceInv(o)'
    BY <1>1, <2>1, <2>2, BecomeEffect
  <2>4. shaken
    BY <1>1, <1>4 DEF StartupInv, AloneInv
  <2>5. PlaceInv(s)'
    BY <2>1, <2>3 DEF PlaceInv
  <2>6. StartupTypeOK' /\ RecordedInv' /\ owners' <= 1
    BY <1>1, <2>2, <2>3 DEF StartupInv, StartupTypeOK, RecordedInv, StarterStates
  <2> QED
    BY <1>1, <2>3, <2>4, <2>5, <2>6 DEF StartupInv
<1>5. CASE me.file \notin migrated
  <2>1. migrated' = migrated \cup {me.file} /\ Become(s, next) /\ next \in StarterStates
    BY <1>1, <1>5, ScriptFacts DEF Record
  <2>2. /\ starter' \in [Starters -> StarterStates] /\ starter'[s] = next
        /\ \A o \in Starters \ {s} : starter'[o] = starter[o] /\ PlaceInv(o)'
    BY <1>1, <2>1, BecomeEffect
  <2>3. StartupTypeOK' /\ owners' <= 1
    BY <1>1, <2>1, <2>2 DEF StartupInv, StartupTypeOK, StarterStates
  <2>4. RecordedInv'
    <3>1. 1..me.file \subseteq migrated'
      BY <1>1, <1>2, <2>1, FilesFacts
    <3> QED
      BY <1>1, <1>2, <2>1, <3>1 DEF StartupInv, RecordedInv
  <2>5. \A g \in Files : g \in me.todo \/ g \in migrated'
    <3>1. me.file \in Nat /\ \A g \in Files : g \in Nat
      BY <1>1, FilesFacts
    <3> QED
      BY <1>2, <2>1, <3>1
  <2>6. ASSUME ~shaken
        PROVE  \A g \in me.todo : g \notin migrated'
    <3>1. me.todo \cap migrated = {} /\ me.file \notin me.todo
      <4>1. me.file \in Nat
        BY <1>1, FilesFacts
      <4> QED
        BY <1>1, <1>2, <2>6, <4>1 DEF StartupInv, AloneInv
    <3> QED
      BY <2>1, <3>1
  <2>7. PlaceInv(s)' /\ next.at \in {"up", "script"}
        /\ (next.at = "script" => next.file \in me.todo /\ next.todo \subseteq me.todo)
    BY <1>1, <2>2, <2>5, ScriptPlace
  <2> HIDE DEF next
  <2>8. ASSUME ~shaken
        PROVE  AloneInv'
    <3>1. AloneInv /\ \A o \in Starters \ {s} : starter[o].at \in {"off", "up"}
      BY <1>3, <2>8 DEF StartupInv
    <3>2. \A o \in Starters \ {s} : starter'[o].at \in {"off", "up"} /\ ~(Working(o)')
      BY <2>2, <3>1 DEF Working
    <3>3. starter'[s].at \in {"up", "script"}
      BY <2>2, <2>7
    <3>4. starter'[s].at \in {"script", "record"} =>
            starter'[s].file \notin migrated' /\ starter'[s].todo \cap migrated' = {}
      BY <2>2, <2>6, <2>7, <2>8
    <3>5. <<1, 1>> \in made' => StatementsOf(1) \subseteq made'
      <4>1. \A o \in Starters : starter[o].at \notin {"init", "script"}
        BY <1>1, <3>1
      <4> QED
        BY <1>1, <3>1, <4>1 DEF AloneInv
    <3>6. \A f \in Files \ migrated' : \A k \in DOMAIN Scripts[f] : f > 1 => <<f, k>> \notin made'
      <4>1. \A f \in Files \ migrated' : f # me.file /\ f \in Files \ migrated
        BY <2>1
      <4>2. \A o \in Starters : starter[o].at \in {"script", "record"} => starter[o].file = me.file
        BY <3>1
      <4> QED
        BY <1>1, <3>1, <4>1, <4>2 DEF AloneInv
    <3> QED
      BY <1>1, <2>2, <3>2, <3>3, <3>4, <3>5, <3>6 DEF AloneInv
  <2> QED
    BY <1>1, <2>2, <2>3, <2>4, <2>7, <2>8 DEF StartupInv
<1> QED
  BY <1>4, <1>5

\* The rules of run_bootstrap; the owner there may be is one.
LEMMA BootStep ==
  ASSUME StartupInv, NEW s \in Starters, Bootstrap(s) \/ CreateOwner(s)
  PROVE  StartupInv'
<1> DEFINE me == starter[s]
           at == starter'[s].at
<1>1. /\ me \in StarterStates /\ me.at \in {"boot", "create"} /\ Working(s)
      /\ UNCHANGED <<made, migrated, starts, shaken>>
  BY DEF Bootstrap, CreateOwner, StartupInv, StartupTypeOK, StarterStates, Working
<1>2. PICK new \in StarterStates :
        /\ Become(s, new) /\ new.at \in {"create", "up", "failed"}
        /\ owners' \in Nat /\ owners' <= 1
        /\ ~shaken => /\ new.at # "failed"
                      /\ new.at = "create" => owners' = 0 /\ StatementsOf(1) \subseteq made
  <2> DEFINE Turned(x) == [at |-> x, file |-> me.file, next |-> me.next, todo |-> me.todo]
  <2>1. \A x \in {"create", "up", "failed"} : Turned(x) \in StarterStates /\ Turned(x).at = x
    BY <1>1 DEF StarterStates
  <2>2. \A x \in {"create", "up", "failed"} : Reach(s, x) => Become(s, Turned(x))
    BY <1>1 DEF Reach, Become, StarterStates
  <2>3. owners \in Nat /\ owners <= 1
    BY DEF StartupInv, StartupTypeOK
  <2> HIDE DEF Turned
  <2>4. CASE Bootstrap(s)
    <3>1. me.at = "boot" /\ owners' = owners
      BY <2>4 DEF Bootstrap
    <3>2. ~shaken => StatementsOf(1) \subseteq made
      BY <3>1 DEF StartupInv, AloneInv
    <3>3. CASE UsersTables \subseteq made
      <4>1. PICK leave \in BOOLEAN : Reach(s, IF owners = 0 /\ leave THEN "create" ELSE "up")
        BY <2>4, <3>3 DEF Bootstrap
      <4>2. CASE owners = 0 /\ leave
        BY <2>1, <2>2, <2>3, <3>1, <3>2, <4>1, <4>2
      <4>3. CASE ~(owners = 0 /\ leave)
        BY <2>1, <2>2, <2>3, <3>1, <3>2, <4>1, <4>3
      <4> QED
        BY <4>2, <4>3
    <3>4. CASE ~(UsersTables \subseteq made)
      <4>1. Reach(s, "failed")
        BY <2>4, <3>4 DEF Bootstrap
      <4>2. UsersTables \subseteq StatementsOf(1)
        <5>1. 1 \in 1..Len(Scripts[1]) /\ 2 \in 1..Len(Scripts[1])
          BY FilesFacts, StartupAssumption
        <5> QED
          BY <5>1, FilesFacts DEF UsersTables, StatementsOf
      <4>3. shaken
        BY <3>2, <3>4, <4>2 DEF StartupInv, StartupTypeOK
      <4> QED
        BY <2>1, <2>2, <2>3, <3>1, <4>1, <4>3
    <3> QED
      BY <3>3, <3>4
  <2>5. CASE CreateOwner(s)
    <3>1. me.at = "create"
      BY <2>5 DEF CreateOwner
    <3>2. CASE owners > 0
      <4>1. Reach(s, "failed") /\ owners' = owners
        BY <2>5, <3>2 DEF CreateOwner
      <4>2. shaken
        BY <3>1, <3>2 DEF StartupInv, AloneInv
      <4> QED
        BY <2>1, <2>2, <2>3, <4>1, <4>2
    <3>3. CASE ~(owners > 0)
      <4>1. Reach(s, "up") /\ owners' = owners + 1 /\ owners = 0
        BY <2>3, <2>5, <3>3 DEF CreateOwner
      <4> QED
        BY <2>1, <2>2, <4>1
    <3> QED
      BY <3>2, <3>3
  <2> QED
    BY <2>4, <2>5
<1>3. /\ starter' \in [Starters -> StarterStates] /\ starter'[s] = new
      /\ \A o \in Starters \ {s} : starter'[o] = starter[o] /\ PlaceInv(o)'
  BY <1>1, <1>2, BecomeEffect
<1>4. PlaceInv(s)'
  BY <1>2, <1>3 DEF PlaceInv
<1>5. StartupTypeOK' /\ RecordedInv'
  BY <1>1, <1>2, <1>3 DEF StartupInv, StartupTypeOK, RecordedInv, StarterStates
<1>6. ASSUME ~shaken
      PROVE  AloneInv'
  <2>1. AloneInv /\ \A o \in Starters \ {s} : starter[o].at \in {"off", "up"}
    BY <1>1, <1>6, OthersRest DEF StartupInv
  <2>2. \A o \in Starters \ {s} : starter'[o].at \in {"off", "up"} /\ ~(Working(o)')
    BY <1>3, <2>1 DEF Working
  <2>3. \A o \in Starters : starter[o].at \notin {"init", "script", "record"}
    BY <1>1, <2>1
  <2>4. /\ <<1, 1>> \in made => StatementsOf(1) \subseteq made
        /\ \A f \in Files \ migrated : \A k \in DOMAIN Scripts[f] : f > 1 => <<f, k>> \notin made
    BY <2>1, <2>3 DEF AloneInv
  <2> QED
    BY <1>1, <1>2, <1>3, <1>6, <2>2, <2>4 DEF AloneInv
<1> QED
  BY <1>1, <1>2, <1>3, <1>4, <1>5, <1>6 DEF StartupInv

LEMMA StopStep ==
  ASSUME StartupInv, NEW s \in Starters, Stop(s)
  PROVE  StartupInv'
<1>1. /\ Become(s, Off) /\ UNCHANGED <<made, migrated, owners, starts>>
      /\ shaken' = (shaken \/ starter[s].at \in {"init", "script", "record"})
  BY DEF Stop
<1>2. /\ starter' \in [Starters -> StarterStates] /\ starter'[s] = Off
      /\ \A o \in Starters \ {s} : starter'[o] = starter[o] /\ PlaceInv(o)'
  BY <1>1, OffType, BecomeEffect
<1>3. PlaceInv(s)'
  BY <1>2, OffType DEF PlaceInv
<1>4. StartupTypeOK' /\ RecordedInv' /\ owners' <= 1
  BY <1>1, <1>2 DEF StartupInv, StartupTypeOK, RecordedInv, StarterStates
<1>5. ASSUME ~shaken'
      PROVE  AloneInv'
  <2>1. AloneInv /\ starter[s].at \notin {"init", "script", "record"}
    BY <1>1, <1>5 DEF StartupInv
  <2>2. \A o \in Starters : Working(o)' => Working(o)
    BY <1>2, OffType DEF Working
  <2> QED
    BY <1>1, <1>2, <2>1, <2>2, OffType DEF AloneInv
<1> QED
  BY <1>2, <1>3, <1>4, <1>5 DEF StartupInv

LEMMA StartupInitial == StartupInit => StartupInv
<1> SUFFICES ASSUME StartupInit
             PROVE  StartupInv
  OBVIOUS
<1>1. starter \in [Starters -> StarterStates] /\ \A s \in Starters : starter[s].at = "off"
  BY OffType DEF StartupInit
<1>2. StartupTypeOK
  <2>1. MaxStarts \in Nat /\ 0 \in 0..MaxStarts
    BY StartupAssumption
  <2> QED
    BY <1>1, <2>1 DEF StartupInit, StartupTypeOK, StarterStates
<1>3. RecordedInv /\ owners <= 1
  BY DEF StartupInit, RecordedInv
<1>4. \A s \in Starters : PlaceInv(s)
  BY <1>1 DEF PlaceInv
<1>5. AloneInv
  BY <1>1 DEF StartupInit, AloneInv, Working
<1> QED
  BY <1>2, <1>3, <1>4, <1>5 DEF StartupInv

\* Whatever stops and whatever runs beside it, a recorded migration was run to its end
\* after all the ones before it and there is one owner at most; no start fails, and the
\* server has its whole first schema, unless a start was cut off or met another one.
THEOREM StartTheorem == StartupSpec => [](StartupTypeOK /\ StartHonest)
<1>1. StartupInv /\ [StartupNext]_startVars => StartupInv'
  <2> SUFFICES ASSUME StartupInv, [StartupNext]_startVars
               PROVE  StartupInv'
    OBVIOUS
  <2>1. CASE UNCHANGED startVars
    BY <2>1 DEF startVars, StartupInv, StartupTypeOK, RecordedInv, PlaceInv, AloneInv, Working
  <2>2. CASE StartupNext
    BY <2>2, InitDbStep, RunMigrationsStep, ExecuteStep, RecordStep, BootStep, StopStep
    DEF StartupNext
  <2> QED
    BY <2>1, <2>2
<1>2. StartupInv => StartupTypeOK /\ StartHonest
  BY DEF StartupInv, StartHonest, RecordedInv, AloneInv
<1> QED
  BY <1>1, <1>2, StartupInitial, PTL DEF StartupSpec

-----------------------------------------------------------------------------
(***************************************************************************)
(* Dashboard, for any finite sets of days and of views, every limit of the *)
(* rankings and every bound on the events.                                 *)
(***************************************************************************)
\* What the answer under construction shows was true of the counts when it was read, and
\* counts only grow: the total is one of the real buckets, and no list of the rankings
\* shows more views than there are.
BoardInv ==
  /\ board.next = 1 => /\ board.total <= SumOver(hits, Real)
                       /\ ~busySince => board.total = SumOver(hits, Real)
  /\ board.next >= 2 => /\ board.total <= SumOver(board.series, Days)
                        /\ ~busySince => board.total = SumOver(board.series, Days)
  /\ board.next >= 3 => /\ ListSum(board.content) <= SumOver(hits, PageViews)
                        /\ ListSum(board.content) \in Nat
  /\ board.next >= 4 /\ Len(board.sources) < TopLimit =>
       /\ ListSum(board.content) <= ListSum(board.sources)
       /\ ~busySince => ListSum(board.sources) = SumOver(hits, PageViews)

BoardShape ==
  /\ DOMAIN board = {"next", "total", "bots", "series", "content", "sources", "referrers"}
  /\ board.next \in 0..5 /\ {board.total, board.bots} \subseteq 0..MaxHits
  /\ board.series \in [Days -> 0..MaxHits]
  /\ busySince \in BOOLEAN

HitsShape == hits \in [Buckets -> Nat] /\ SumOver(hits, Buckets) <= MaxHits

DashboardInv == HitsShape /\ BoardShape /\ BoardInv

LEMMA SumTotal == ASSUME NEW f, NEW set PROVE SumOver(f, set) = Total(f, set)
BY DEF SumOver, Total, MapThenSumSet, MapThenFoldSet

LEMMA BucketsFinite ==
  /\ IsFiniteSet(Buckets) /\ IsFiniteSet(Days)
  /\ Real \in SUBSET Buckets /\ PageViews \in SUBSET Buckets /\ PageViews \in SUBSET Real
BY DashboardAssumption, FS_Product DEF Buckets, Real, PageViews

LEMMA PartOfHits ==
  ASSUME HitsShape, NEW T \in SUBSET Buckets
  PROVE  /\ SumOver(hits, T) \in 0..MaxHits
         /\ IsFiniteSet(T) /\ Numeric(hits, T)
<1>1. /\ Total(hits, T) <= Total(hits, Buckets) /\ Total(hits, T) \in Nat
      /\ Total(hits, Buckets) \in Nat
  BY BucketsFinite, TotalLess DEF HitsShape
<1>2. IsFiniteSet(T) /\ Numeric(hits, T)
  BY BucketsFinite, FS_Subset DEF HitsShape, Numeric
<1> QED
  BY <1>1, <1>2, SumTotal, DashboardAssumption DEF HitsShape

\* Another event: the sums grow, none by more than one.
LEMMA HitsGrow ==
  ASSUME HitsShape, SumOver(hits, Buckets) < MaxHits,
         NEW b \in Buckets, hits' = [hits EXCEPT ![b] = @ + 1]
  PROVE  HitsShape' /\ \A T \in SUBSET Buckets : SumOver(hits, T) <= SumOver(hits', T)
<1>1. hits' \in [Buckets -> Nat] /\ \A x \in Buckets : hits[x] <= hits'[x]
  BY DEF HitsShape
<1>2. Numeric(hits, Buckets) /\ Numeric(hits', Buckets)
  BY <1>1 DEF HitsShape, Numeric
<1>3. Total(hits', Buckets) = Total(hits, Buckets) + (hits'[b] - hits[b])
  <2> DEFINE new == hits'
             B == Buckets
  <2>1. /\ \A y \in B : y # b => new[y] = hits[y]
        /\ IsFiniteSet(B) /\ Numeric(hits, B) /\ Numeric(new, B) /\ b \in B
    BY <1>2, BucketsFinite DEF HitsShape
  <2> HIDE DEF new, B
  <2>2. Total(new, B) = Total(hits, B) + (new[b] - hits[b])
    BY <2>1, TotalChange
  <2> QED
    BY <2>2 DEF new, B
<1>4. hits'[b] - hits[b] = 1
  BY DEF HitsShape
<1>5. Total(hits, Buckets) \in Int
  BY <1>2, BucketsFinite, TotalInt
<1>6. HitsShape'
  <2>1. SumOver(hits', Buckets) <= MaxHits
    BY <1>3, <1>4, <1>5, SumTotal, DashboardAssumption
  <2> QED
    BY <1>1, <2>1 DEF HitsShape, Buckets
<1>7. ASSUME NEW T \in SUBSET Buckets PROVE SumOver(hits, T) <= SumOver(hits', T)
  <2>1. IsFiniteSet(T) /\ Numeric(hits, T) /\ Numeric(hits', T) /\ \A x \in T : hits[x] <= hits'[x]
    BY <1>1, <1>2, BucketsFinite, FS_Subset DEF Numeric
  <2> QED
    BY <2>1, TotalGrows, SumTotal
<1> QED
  BY <1>6, <1>7

\* The points of the series add up to all that was counted.
LEMMA SeriesSum ==
  ASSUME HitsShape
  PROVE  LET series == [d \in Days |-> SumOver(hits, {b \in Real : b[1] = d})] IN
         series \in [Days -> 0..MaxHits] /\ SumOver(series, Days) = SumOver(hits, Real)
<1> DEFINE series == [d \in Days |-> SumOver(hits, {b \in Real : b[1] = d})]
           day == [b \in Real |-> b[1]]
           of == [d \in Days |-> {b \in Real : b[1] = d}]
<1>1. series \in [Days -> 0..MaxHits]
  <2>1. ASSUME NEW d \in Days PROVE SumOver(hits, {b \in Real : b[1] = d}) \in 0..MaxHits
    <3>1. {b \in Real : b[1] = d} \in SUBSET Buckets
      BY BucketsFinite
    <3> QED
      BY <3>1, PartOfHits
  <2> QED
    BY <2>1
<1>2. \A b \in Real : day[b] \in Days
  BY BucketsFinite DEF Buckets
<1>3. \A d \in Days : series[d] = Total(hits, of[d])
  BY SumTotal
<1>s. \A d \in Days : of[d] \in SUBSET Real /\ \A b \in Real : b \in of[d] <=> day[b] = d
  OBVIOUS
<1>4. IsFiniteSet(Real) /\ Numeric(hits, Real) /\ IsFiniteSet(Days)
  BY PartOfHits, BucketsFinite
<1> HIDE DEF series, day, of
<1>5. Total(series, Days) = Total(hits, Real)
  BY <1>2, <1>3, <1>s, <1>4, TotalGroups
<1>6. SumOver(series, Days) = SumOver(hits, Real)
  BY <1>5, SumTotal
<1> QED
  BY <1>1, <1>6 DEF series

\* A grouping of the views accounts for no more than all of them, and by source for all.
LEMMA GroupedSum ==
  ASSUME HitsShape, NEW dimension
  PROVE  LET group == Grouped(dimension) IN
         /\ group = [n \in DOMAIN group |-> group[n]] /\ IsFiniteSet(DOMAIN group)
         /\ \A n \in DOMAIN group : group[n] \in Nat
         /\ Total(group, DOMAIN group) <= SumOver(hits, PageViews)
         /\ dimension = "source" => Total(group, DOMAIN group) = SumOver(hits, PageViews)
<1> DEFINE set == {b \in Filled(Buckets) : /\ b[2].type = "page_view"
                                           /\ dimension = "source" \/ b[2][dimension] # "none"}
           name == [b \in Buckets |-> b[2][dimension]]
           K == {name[b] : b \in set}
           R == set \cap Real
           of == [n \in K |-> {b \in R : name[b] = n}]
           group == Grouped(dimension)
<1>1. set \in SUBSET Buckets /\ R \in SUBSET PageViews /\ R \in SUBSET Buckets
  BY DEF Filled, PageViews, Real
<1>2. \A b \in PageViews \ R : dimension = "source" => hits[b] = 0
  BY DEF Filled, PageViews, Real, HitsShape
<1>3. /\ K = {b[2][dimension] : b \in set}
      /\ \A n : {b \in R : b[2][dimension] = n} = {b \in R : name[b] = n}
  BY <1>1
<1>4. group = [n \in K |-> SumOver(hits, {b \in R : name[b] = n})]
  BY <1>3 DEF Grouped
<1>5. IsFiniteSet(K)
  <2>1. IsFiniteSet(set)
    BY <1>1, BucketsFinite, FS_Subset
  <2> HIDE DEF set, name
  <2> QED
    BY <2>1, FiniteImage
<1>6. \A b \in R : name[b] \in K
  OBVIOUS
<1>s. \A n \in K : of[n] \in SUBSET R /\ \A b \in R : b \in of[n] <=> name[b] = n
  OBVIOUS
<1>7. \A n \in K : group[n] = Total(hits, of[n])
  <2> HIDE DEF set, name, K, group
  <2> QED
    BY <1>4, SumTotal
<1> HIDE DEF set, name, K, group, of
<1>8. IsFiniteSet(R) /\ Numeric(hits, R)
  BY <1>1, PartOfHits
<1>9. Total(group, K) = Total(hits, R)
  <2> HIDE DEF R
  <2> QED
    BY <1>5, <1>6, <1>s, <1>7, <1>8, TotalGroups
<1>10. \A n \in K : group[n] \in Nat
  <2>1. ASSUME NEW n \in K PROVE group[n] \in Nat
    <3>1. {b \in R : name[b] = n} \in SUBSET Buckets
      BY <1>1
    <3> QED
      BY <1>4, <3>1, PartOfHits
  <2> QED
    BY <2>1
<1>11. /\ Total(hits, R) <= Total(hits, PageViews)
       /\ dimension = "source" => Total(hits, R) = Total(hits, PageViews)
  <2>1. IsFiniteSet(PageViews) /\ \A b \in PageViews : hits[b] \in Nat
    BY BucketsFinite, FS_Subset DEF HitsShape
  <2> QED
    BY <1>1, <1>2, <2>1, TotalLess
<1>12. DOMAIN group = K
  BY <1>4
<1> QED
  BY <1>4, <1>5, <1>9, <1>10, <1>11, <1>12, SumTotal DEF group

\* A ranking shows a part of a grouping, and all of it when it is shorter than the limit.
LEMMA RankedSum ==
  ASSUME NEW group, IsFiniteSet(DOMAIN group), \A n \in DOMAIN group : group[n] \in Nat,
         NEW r \in Rankings(group)
  PROVE  LET list == ListOf(group, r) IN
         /\ ListSum(list) \in Nat /\ ListSum(list) <= Total(group, DOMAIN group)
         /\ Len(list) < TopLimit => ListSum(list) = Total(group, DOMAIN group)
<1> DEFINE list == ListOf(group, r)
           K == DOMAIN group
<1>1. PICK n \in Nat : r \in [1..n -> K]
  <2>1. PICK n \in {n \in 0..TopLimit : n <= Cardinality(K)} : r \in [1..n -> K]
    BY DEF Rankings
  <2> QED
    BY <2>1, DashboardAssumption
<1>2. /\ Len(r) = n /\ DOMAIN r = 1..n /\ DOMAIN list = 1..n /\ Len(list) = n
      /\ \A i \in 1..n : list[i] = <<r[i], group[r[i]]>>
  BY <1>1 DEF ListOf
<1>3. \A i, j \in 1..n : r[i] = r[j] => i = j
  BY <1>2 DEF Rankings, IsInjective
<1>4. n = TopLimit \/ {r[i] : i \in 1..n} = K
  BY <1>2 DEF Rankings, Range
<1> DEFINE g == [i \in DOMAIN list |-> list[i][2]]
           Img == {r[i] : i \in 1..n}
<1>5. \A i \in 1..n : g[i] = group[r[i]] /\ group[r[i]] \in Int
  BY <1>1, <1>2
<1>6. IsFiniteSet(1..n)
  BY FS_Interval
<1>7. ListSum(list) = Total(g, 1..n)
  BY <1>2, SumTotal DEF ListSum
<1>8. Img \in SUBSET K
  BY <1>1
<1>m. (\A i \in 1..n : r[i] \in Img) /\ \A x \in Img : \E i \in 1..n : x = r[i]
  OBVIOUS
<1>f. Numeric(group, Img)
  BY <1>8 DEF Numeric
<1> HIDE DEF g, list, Img
<1>9. Total(g, 1..n) = Total(group, Img)
  <2> DEFINE D == 1..n
  <2>1. Renames(r, D, Img) /\ Renamed(g, group, r, D) /\ IsFiniteSet(D)
    BY <1>3, <1>5, <1>6, <1>m DEF Renames, Renamed
  <2> HIDE DEF D
  <2>2. Total(g, D) = Total(group, Img)
    BY <2>1, <1>f, TotalImage
  <2> QED
    BY <2>2 DEF D
<1>10. /\ Total(group, Img) <= Total(group, K) /\ Total(group, Img) \in Nat
  BY <1>8, TotalLess
<1>11. Len(list) < TopLimit => Img = K
  BY <1>2, <1>4, DashboardAssumption DEF Img, list
<1> QED
  BY <1>7, <1>9, <1>10, <1>11 DEF list

LEMMA DashboardInitial == DashboardInit => DashboardInv
<1> SUFFICES ASSUME DashboardInit PROVE DashboardInv
  OBVIOUS
<1>1. hits \in [Buckets -> Nat] /\ \A b \in Buckets : hits[b] = 0
  BY DEF DashboardInit
<1>2. SumOver(hits, Buckets) = 0
  BY <1>1, BucketsFinite, TotalZero, SumTotal
<1>3. /\ DOMAIN board = {"next", "total", "bots", "series", "content", "sources", "referrers"}
      /\ board.next = 0 /\ board.total = 0 /\ board.bots = 0 /\ busySince \in BOOLEAN
      /\ board.series = [d \in Days |-> 0]
  BY DEF DashboardInit, NoBoard
<1>4. BoardShape
  BY <1>3, DashboardAssumption DEF BoardShape
<1> QED
  BY <1>1, <1>2, <1>3, <1>4, DashboardAssumption DEF DashboardInv, HitsShape, BoardInv

LEMMA RecordHitStep == ASSUME DashboardInv, RecordHit PROVE DashboardInv'
<1>1. HitsShape' /\ \A T \in SUBSET Buckets : SumOver(hits, T) <= SumOver(hits', T)
  <2>1. PICK b \in Buckets : hits' = [hits EXCEPT ![b] = @ + 1]
    BY DEF RecordHit
  <2> QED
    BY <2>1, HitsGrow DEF RecordHit, DashboardInv
<1>2. BoardShape' /\ board' = board
  BY DEF RecordHit, DashboardInv, BoardShape
<1>b. board.next # 0 => busySince'
  BY DEF RecordHit
<1>3. /\ SumOver(hits, Real) <= SumOver(hits', Real) /\ SumOver(hits, PageViews) <= SumOver(hits', PageViews)
      /\ SumOver(hits, Real) \in Nat /\ SumOver(hits, PageViews) \in Nat
      /\ SumOver(hits', Real) \in Nat /\ SumOver(hits', PageViews) \in Nat
  <2>1. \A T \in SUBSET Buckets : SumOver(hits, T) \in Nat
    BY PartOfHits DEF DashboardInv
  <2>2. ASSUME NEW T \in SUBSET Buckets PROVE SumOver(hits', T) \in Nat
    <3>1. \A x \in T : hits'[x] \in Nat
      BY <1>1 DEF HitsShape
    <3>2. IsFiniteSet(T)
      BY BucketsFinite, FS_Subset
    <3> QED
      BY <3>1, <3>2, TotalNatural, SumTotal
  <2> QED
    BY <1>1, <2>1, <2>2, BucketsFinite
<1>4. /\ board.next \in 0..5 /\ board.total \in Nat
  BY DEF DashboardInv, BoardShape
<1>5. BoardInv'
  <2>1. Real' = Real /\ PageViews' = PageViews
    BY DEF Real, PageViews, Buckets, Counts
  <2>2. BoardInv
    BY DEF DashboardInv
  <2>3. /\ SumOver(hits, Real)' = SumOver(hits', Real)
        /\ SumOver(hits, PageViews)' = SumOver(hits', PageViews)
        /\ SumOver(board.series, Days)' = SumOver(board.series, Days)
        /\ ListSum(board.content)' = ListSum(board.content)
        /\ ListSum(board.sources)' = ListSum(board.sources)
    BY <1>2, <2>1
  <2> QED
    BY <1>2, <1>b, <1>3, <1>4, <2>2, <2>3 DEF BoardInv
<1> QED
  BY <1>1, <1>2, <1>5 DEF DashboardInv

\* What a query of the dashboard leaves alone.
LEMMA QueryKeeps ==
  ASSUME UNCHANGED hits
  PROVE  /\ HitsShape => HitsShape'
         /\ SumOver(hits, Real)' = SumOver(hits, Real)
         /\ SumOver(hits, PageViews)' = SumOver(hits, PageViews)
<1>1. Real' = Real /\ PageViews' = PageViews /\ Buckets' = Buckets
  BY DEF Real, PageViews, Buckets, Counts
<1> QED
  BY <1>1 DEF HitsShape

LEMMA GetTotalsStep == ASSUME DashboardInv, GetTotals PROVE DashboardInv'
<1>1. HitsShape' /\ HitsShape /\ SumOver(hits, Real)' = SumOver(hits, Real)
  BY QueryKeeps DEF GetTotals, DashboardInv
<1>2. SumOver(hits, Real) \in 0..MaxHits /\ SumOver(hits, Buckets \ Real) \in 0..MaxHits
  BY <1>1, PartOfHits, BucketsFinite
<1>3. /\ DOMAIN board' = DOMAIN board /\ board'.next = 1 /\ board'.total = SumOver(hits, Real)
      /\ board'.bots = SumOver(hits, Buckets \ Real) /\ board'.series = board.series
      /\ busySince' = FALSE
  BY DEF GetTotals, DashboardInv, BoardShape, NoBoard
<1>b. DOMAIN board' = DOMAIN board /\ board'.next = 1 /\ board'.series = board.series
  BY <1>3
<1>4. BoardShape'
  <2>1. {board'.total, board'.bots} \subseteq 0..MaxHits /\ busySince' \in BOOLEAN
    BY <1>2, <1>3
  <2>2. BoardShape
    BY DEF DashboardInv
  <2> QED
    BY <1>b, <2>1, <2>2 DEF BoardShape
<1>5. BoardInv'
  BY <1>1, <1>2, <1>3 DEF BoardInv
<1> QED
  BY <1>1, <1>4, <1>5 DEF DashboardInv

LEMMA GetTimeSeriesStep == ASSUME DashboardInv, GetTimeSeries PROVE DashboardInv'
<1> DEFINE series == [d \in Days |-> SumOver(hits, {b \in Real : b[1] = d})]
<1>1. HitsShape' /\ HitsShape
  BY QueryKeeps DEF GetTimeSeries, At, DashboardInv
<1>2. series \in [Days -> 0..MaxHits] /\ SumOver(series, Days) = SumOver(hits, Real)
  BY <1>1, SeriesSum
<1>3. board' = [board EXCEPT !.next = 2, !.series = series] /\ board.next = 1
      /\ busySince' = busySince
  BY DEF GetTimeSeries, At
<1> HIDE DEF series
<1>4. /\ DOMAIN board' = DOMAIN board /\ board'.next = 2 /\ board'.total = board.total
      /\ board'.bots = board.bots /\ board'.series = series
  BY <1>3 DEF DashboardInv, BoardShape, NoBoard
<1>5. BoardShape'
  BY <1>2, <1>3, <1>4 DEF DashboardInv, BoardShape, NoBoard
<1>6. SumOver(board.series, Days)' = SumOver(hits, Real)
  BY <1>2, <1>4
<1>7. BoardInv'
  BY <1>3, <1>4, <1>6 DEF DashboardInv, BoardInv
<1> QED
  BY <1>1, <1>5, <1>7 DEF DashboardInv

\* A ranking as a query of the dashboard puts it on the board.
LEMMA RankedStep ==
  ASSUME HitsShape, BoardShape, NEW field \in {"content", "sources", "referrers"}, NEW dimension,
         board.next \in 0..4, Ranked(field, Grouped(dimension))
  PROVE  /\ DOMAIN board' = DOMAIN board /\ board'.next = board.next + 1
         /\ \A k \in DOMAIN board \ {"next", field} : board'[k] = board[k]
         /\ ListSum(board'[field]) \in Nat /\ ListSum(board'[field]) <= SumOver(hits, PageViews)
         /\ dimension = "source" /\ Len(board'[field]) < TopLimit =>
              ListSum(board'[field]) = SumOver(hits, PageViews)
<1> DEFINE group == Grouped(dimension)
<1>1. PICK r \in Rankings(group) :
        board' = [board EXCEPT !.next = @ + 1, ![field] = ListOf(group, r)]
  BY DEF Ranked
<1>2. field \in DOMAIN board /\ field # "next" /\ "next" \in DOMAIN board
  BY DEF BoardShape
<1> DEFINE list == ListOf(group, r)
<1>3. board'[field] = list
  <2> HIDE DEF list
  <2> QED
    BY <1>1, <1>2 DEF list
<1>4. /\ IsFiniteSet(DOMAIN group) /\ \A n \in DOMAIN group : group[n] \in Nat
      /\ Total(group, DOMAIN group) <= SumOver(hits, PageViews)
      /\ dimension = "source" => Total(group, DOMAIN group) = SumOver(hits, PageViews)
  BY GroupedSum
<1>5. Total(group, DOMAIN group) \in Nat /\ SumOver(hits, PageViews) \in Nat
  <2> HIDE DEF group
  <2>1. Total(group, DOMAIN group) \in Nat
    BY <1>4, TotalNatural
  <2> QED
    BY <2>1, PartOfHits, BucketsFinite
<1> HIDE DEF group
<1>6. /\ ListSum(list) \in Nat /\ ListSum(list) <= Total(group, DOMAIN group)
      /\ Len(list) < TopLimit => ListSum(list) = Total(group, DOMAIN group)
  BY <1>4, RankedSum
<1> HIDE DEF list
<1>7. /\ DOMAIN board' = DOMAIN board /\ board'.next = board.next + 1
      /\ \A k \in DOMAIN board \ {"next", field} : board'[k] = board[k]
  BY <1>1, <1>2 DEF list
<1> QED
  BY <1>1, <1>3, <1>4, <1>5, <1>6, <1>7

LEMMA RankingStep ==
  ASSUME DashboardInv, GetTopContent \/ GetTopSources \/ GetTopReferrers
  PROVE  DashboardInv'
<1>1. HitsShape' /\ HitsShape /\ BoardShape
      /\ SumOver(hits, PageViews)' = SumOver(hits, PageViews) /\ busySince' = busySince
  BY QueryKeeps DEF GetTopContent, GetTopSources, GetTopReferrers, At, DashboardInv
<1>2. SumOver(hits, PageViews) \in Nat
  BY <1>1, PartOfHits, BucketsFinite
<1>3. CASE GetTopContent
  <2>1. board.next = 2 /\ Ranked("content", Grouped("content"))
    BY <1>3 DEF GetTopContent, At
  <2>2. /\ DOMAIN board' = DOMAIN board /\ board'.next = board.next + 1
        /\ \A k \in DOMAIN board \ {"next", "content"} : board'[k] = board[k]
        /\ ListSum(board'["content"]) \in Nat
        /\ ListSum(board'["content"]) <= SumOver(hits, PageViews)
    BY <1>1, <2>1, RankedStep
  <2>3. /\ DOMAIN board' = DOMAIN board /\ board'.next = 3 /\ board'.total = board.total
        /\ board'.bots = board.bots /\ board'.series = board.series
    BY <1>1, <2>1, <2>2 DEF BoardShape
  <2>4. BoardShape'
    BY <1>1, <2>3 DEF BoardShape
  <2>5. BoardInv'
    BY <1>1, <2>1, <2>2, <2>3 DEF DashboardInv, BoardInv
  <2> QED
    BY <1>1, <2>4, <2>5 DEF DashboardInv
<1>4. CASE GetTopSources
  <2>1. board.next = 3 /\ Ranked("sources", Grouped("source"))
    BY <1>4 DEF GetTopSources, At
  <2>2. /\ DOMAIN board' = DOMAIN board /\ board'.next = board.next + 1
        /\ \A k \in DOMAIN board \ {"next", "sources"} : board'[k] = board[k]
        /\ ListSum(board'["sources"]) \in Nat
        /\ Len(board'["sources"]) < TopLimit =>
             ListSum(board'["sources"]) = SumOver(hits, PageViews)
    BY <1>1, <2>1, RankedStep
  <2>3. /\ DOMAIN board' = DOMAIN board /\ board'.next = 4 /\ board'.total = board.total
        /\ board'.bots = board.bots /\ board'.series = board.series
        /\ board'.content = board.content
    BY <1>1, <2>1, <2>2 DEF BoardShape
  <2>4. BoardShape'
    BY <1>1, <2>3 DEF BoardShape
  <2>5. BoardInv'
    BY <1>1, <1>2, <2>1, <2>2, <2>3 DEF DashboardInv, BoardInv
  <2> QED
    BY <1>1, <2>4, <2>5 DEF DashboardInv
<1>5. CASE GetTopReferrers
  <2>1. board.next = 4 /\ Ranked("referrers", Grouped("referrer"))
    BY <1>5 DEF GetTopReferrers, At
  <2>2. /\ DOMAIN board' = DOMAIN board /\ board'.next = board.next + 1
        /\ \A k \in DOMAIN board \ {"next", "referrers"} : board'[k] = board[k]
    BY <1>1, <2>1, RankedStep
  <2>3. /\ DOMAIN board' = DOMAIN board /\ board'.next = 5 /\ board'.total = board.total
        /\ board'.bots = board.bots /\ board'.series = board.series
        /\ board'.content = board.content /\ board'.sources = board.sources
    BY <1>1, <2>1, <2>2 DEF BoardShape
  <2>4. BoardShape'
    BY <1>1, <2>3 DEF BoardShape
  <2>5. BoardInv'
    BY <1>1, <1>2, <2>1, <2>2, <2>3 DEF DashboardInv, BoardInv
  <2> QED
    BY <1>1, <2>4, <2>5 DEF DashboardInv
<1> QED
  BY <1>3, <1>4, <1>5

LEMMA ShowDashboardStep == ASSUME DashboardInv, ShowDashboard PROVE DashboardInv'
<1>1. HitsShape' /\ busySince' = busySince /\ board' = NoBoard
  BY QueryKeeps DEF ShowDashboard, At, DashboardInv
<1>2. BoardShape' /\ BoardInv'
  BY <1>1, DashboardAssumption DEF DashboardInv, BoardShape, BoardInv, NoBoard
<1> QED
  BY <1>1, <1>2 DEF DashboardInv

LEMMA DashboardQuiet == ASSUME DashboardInv, UNCHANGED boardVars PROVE DashboardInv'
<1>1. HitsShape' /\ BoardShape' /\ SumOver(hits, Real)' = SumOver(hits, Real)
      /\ SumOver(hits, PageViews)' = SumOver(hits, PageViews)
  BY QueryKeeps DEF boardVars, DashboardInv, BoardShape
<1>2. BoardInv'
  BY <1>1 DEF boardVars, DashboardInv, BoardInv
<1> QED
  BY <1>1, <1>2 DEF DashboardInv

LEMMA DashboardTypes == ASSUME DashboardInv PROVE DashboardTypeOK
<1>1. ASSUME NEW b \in Buckets PROVE hits[b] \in 0..MaxHits
  <2>1. hits[b] <= Total(hits, Buckets) /\ Total(hits, Buckets) \in Nat
    BY BucketsFinite, TotalNat DEF DashboardInv, HitsShape
  <2> QED
    BY <2>1, SumTotal, DashboardAssumption DEF DashboardInv, HitsShape
<1>2. hits \in [Buckets -> 0..MaxHits]
  BY <1>1 DEF DashboardInv, HitsShape
<1>3. Len(Sections) = 5
  BY DEF Sections
<1> QED
  BY <1>2, <1>3 DEF DashboardInv, BoardShape, DashboardTypeOK

\* TA-0042 (get_dashboard of admin_analytics.py): for any days, dimensions and limit, the
\* five queries of one dashboard agree although events are counted between them: the
\* series never shows less than the total and exactly it when nothing came between, and
\* a ranking that left nothing out accounts for every view.
THEOREM DashboardTheorem == DashboardSpec => [](DashboardTypeOK /\ DashboardAgrees)
<1>1. DashboardInv => DashboardTypeOK /\ DashboardAgrees
  <2>1. DashboardInv => DashboardAgrees
    BY DEF DashboardInv, BoardShape, BoardInv, DashboardAgrees
  <2> QED
    BY <2>1, DashboardTypes
<1>2. DashboardInv /\ [DashboardNext]_boardVars => DashboardInv'
  <2> SUFFICES ASSUME DashboardInv, [DashboardNext]_boardVars PROVE DashboardInv'
    OBVIOUS
  <2> QED
    BY RecordHitStep, GetTotalsStep, GetTimeSeriesStep, RankingStep, ShowDashboardStep,
       DashboardQuiet DEF DashboardNext
<1> QED
  BY DashboardInitial, <1>1, <1>2, PTL DEF DashboardSpec

-----------------------------------------------------------------------------
(* ContentService: what callers save over each other stays sound, row by   *)
(* row.  The copies between a read and a save carry the invariant.         *)

\* What a caller is about to save is as sound as what is stored.
DraftsSound == \A w \in Writers : drafts[w] # NoDraft /\ drafts[w].at = "save"
                                    => RowSound(drafts[w].row)
ServiceInv == ServiceTypeOK /\ ArticlesSound /\ DraftsSound

LEMMA RowFields ==
  ASSUME NEW entry \in Article
  PROVE  /\ entry.status \in ArticleStatus /\ entry.type \in ArticleTypes /\ entry.titled \in BOOLEAN
         /\ entry.slug \in Names \union {BadName} /\ entry.pictures \in SUBSET Pictures
         /\ entry.at \in Int /\ entry.edited \in BOOLEAN /\ entry.agreed \in Int
         /\ entry # NoArticle
  BY ArticleAssumption, SMT DEF Article, Moments, NoMoment, NoArticle, ArticleStatus

\* A call that holds a sound copy keeps the invariant.
LEMMA HoldKeeps ==
  ASSUME ServiceInv, NEW w \in Writers, NEW step \in {"save", "delete"}, NEW id \in Articles,
         NEW entry \in Article, step = "save" => RowSound(entry), Hold(w, step, id, entry)
  PROVE  ServiceInv'
<1> DEFINE d == [at |-> step, id |-> id, row |-> entry]
<1>0. /\ d \in Draft /\ d.at = step /\ d.row = entry
  BY DEF Draft
<1> HIDE DEF d
<1>1. drafts' = [drafts EXCEPT ![w] = d] /\ UNCHANGED <<articles, pictures, today, writes>>
  BY DEF Hold, d
<1>2. drafts \in [Writers -> Draft \union {NoDraft}]
  BY DEF ServiceInv, ServiceTypeOK
<1>3. ServiceTypeOK'
  BY <1>0, <1>1, <1>2 DEF ServiceInv, ServiceTypeOK
<1>4. ArticlesSound'
  BY <1>1 DEF ServiceInv, ArticlesSound
<1>5. DraftsSound'
  BY <1>0, <1>1, <1>2 DEF ServiceInv, DraftsSound
<1> QED
  BY <1>3, <1>4, <1>5 DEF ServiceInv

LEMMA MovedSound ==
  ASSUME ServiceInv, NEW entry \in Article, RowSound(entry), NEW to \in ArticleStatus,
         NEW at \in Moments \union {NoMoment}, to \in Allowed[entry.status],
         to = "scheduled" => TimeAhead(at)
  PROVE  MovedTo(entry, to, at) \in Article /\ RowSound(MovedTo(entry, to, at))
<1> DEFINE at1 == CASE to = "scheduled" -> at
                    [] to = "published" -> NoMoment
                    [] OTHER -> IF entry.status = "scheduled" THEN NoMoment ELSE entry.at
           edited1 == entry.edited /\ to = "draft" /\ entry.status = "published"
           agreed1 == IF to = "scheduled" THEN today ELSE entry.agreed
           new == MovedTo(entry, to, at)
<1>1. today \in Moments
  BY DEF ServiceInv, ServiceTypeOK
<1>2. at1 \in Moments \union {NoMoment} /\ edited1 \in BOOLEAN /\ agreed1 \in Moments
  BY <1>1, SMT DEF Article, ArticleStatus
<1>3. new = [entry EXCEPT !.status = to, !.at = at1, !.edited = edited1, !.agreed = agreed1]
  BY DEF MovedTo
<1> SUFFICES new \in Article /\ RowSound(new)
  BY DEF new
<1> HIDE DEF at1, edited1, agreed1, new
<1>4. /\ new \in Article /\ new.status = to /\ new.titled = entry.titled /\ new.slug = entry.slug
      /\ new.at = at1 /\ (new.edited <=> edited1) /\ new.agreed = agreed1
  <2>1. to \in ArticleStatus
    OBVIOUS
  <2>2. DOMAIN entry = {"status", "type", "titled", "slug", "pictures", "at", "edited", "agreed"}
    BY DEF Article
  <2>3. /\ new.status = to /\ new.titled = entry.titled /\ new.slug = entry.slug
        /\ new.at = at1 /\ new.edited = edited1 /\ new.agreed = agreed1
        /\ new.type = entry.type /\ new.pictures = entry.pictures
    BY <1>3, <2>2, Zenon
  <2>4. new \in Article
    BY <1>2, <1>3, <2>1 DEF Article
  <2> QED
    BY <2>3, <2>4
<1>5. FieldsValid(new)
  BY <1>4 DEF RowSound, FieldsValid
<1>6. CASE to = "scheduled"
  <2>1. at1 = at /\ agreed1 = today /\ at # NoMoment /\ at >= today + Lead
    BY <1>6 DEF at1, agreed1, TimeAhead
  <2> QED
    BY <1>4, <1>5, <1>6, <2>1 DEF RowSound
<1>7. CASE to = "published"
  <2>1. at1 = NoMoment
    BY <1>7 DEF at1
  <2> QED
    BY <1>4, <1>5, <1>7, <2>1 DEF RowSound
<1>8. CASE to = "draft"
  <2>1. entry.status \in {"scheduled", "published"}
    BY <1>8 DEF Allowed, Article, ArticleStatus
  <2>2. ~edited1 => at1 = NoMoment
    BY <1>8, <2>1 DEF edited1, at1, RowSound
  <2> QED
    BY <1>4, <1>5, <1>8, <2>2 DEF RowSound
<1> QED
  BY <1>4, <1>6, <1>7, <1>8 DEF ArticleStatus

LEMMA ServiceStep == ServiceInv /\ [ServiceNext]_serviceVars => ServiceInv'
<1> SUFFICES ASSUME ServiceInv, [ServiceNext]_serviceVars PROVE ServiceInv'
  OBVIOUS
<1> USE DEF ServiceInv
<1>t. /\ articles \in [Articles -> Article \union {NoArticle}]
      /\ drafts \in [Writers -> Draft \union {NoDraft}]
      /\ today \in Moments /\ writes \in Nat /\ pictures \subseteq Pictures
  BY DEF ServiceTypeOK
<1>r. \A id \in Articles : articles[id] # NoArticle
                             => articles[id] \in Article /\ RowSound(articles[id])
  BY <1>t DEF ArticlesSound
<1>1. ASSUME NEW w \in Writers, NEW id \in Articles, NEW entry \in Incoming, CreateArticle(w, id, entry)
      PROVE  ServiceInv'
  <2>1. PICK k \in ArticleTypes, t \in BOOLEAN, s \in Names \union {BadName},
             p \in SUBSET Pictures, m \in Moments \union {NoMoment} :
          entry = [status |-> "draft", type |-> k, titled |-> t, slug |-> s, pictures |-> p,
                 at |-> m, edited |-> (m # NoMoment), agreed |-> 0]
    BY DEF Incoming
  <2>2. /\ entry.status = "draft" /\ entry.at = m /\ entry.edited = (m # NoMoment) /\ entry.agreed = 0
        /\ (m # NoMoment) \in BOOLEAN /\ 0 \in Moments
    BY <2>1, ArticleAssumption DEF Moments
  <2>3. entry \in Article
    BY <2>1, <2>2 DEF Article, ArticleStatus
  <2>4. RowSound(entry)
    BY <1>1, <2>2 DEF RowSound, CreateArticle
  <2> QED
    BY <1>1, <2>3, <2>4, HoldKeeps DEF CreateArticle
<1>2. ASSUME NEW w \in Writers, NEW id \in Articles, NEW k \in ArticleTypes, NEW t \in BOOLEAN,
             NEW s \in Names \union {BadName}, NEW p \in SUBSET Pictures,
             UpdateFields(w, id, k, t, s, p)
      PROVE  ServiceInv'
  <2> DEFINE old == articles[id]
             entry == [old EXCEPT !.type = k, !.titled = t, !.slug = s, !.pictures = p]
  <2>1. old \in Article /\ RowSound(old)
    BY <1>2, <1>r DEF UpdateFields
  <2>2. FieldsValid(entry) /\ Hold(w, "save", id, entry)
    BY <1>2 DEF UpdateFields, UpdateArticle
  <2> HIDE DEF old
  <2>3. /\ entry \in Article /\ entry.status = old.status /\ entry.at = old.at
        /\ entry.edited = old.edited /\ entry.agreed = old.agreed
    BY <2>1 DEF Article
  <2> HIDE DEF entry
  <2>4. RowSound(entry)
    BY <2>1, <2>2, <2>3 DEF RowSound
  <2> QED
    BY <2>2, <2>3, <2>4, HoldKeeps
<1>0. ASSUME NEW w \in Writers, NEW id \in Articles, NEW at \in Moments \union {NoMoment},
             UpdatePublishAt(w, id, at)
      PROVE  ServiceInv'
  <2> DEFINE old == articles[id]
             entry == [old EXCEPT !.at = at, !.edited = TRUE]
  <2>1. old \in Article
    BY <1>0, <1>r DEF UpdatePublishAt
  <2>2. FieldsValid(entry) /\ Hold(w, "save", id, entry)
    BY <1>0 DEF UpdatePublishAt, UpdateArticle
  <2> HIDE DEF old
  <2>3. entry \in Article /\ entry.edited
    BY <2>1 DEF Article
  <2> HIDE DEF entry
  <2>4. RowSound(entry)
    BY <2>2, <2>3 DEF RowSound
  <2> QED
    BY <2>2, <2>3, <2>4, HoldKeeps
<1>3. ASSUME NEW w \in Writers, NEW id \in Articles, DeleteArticle(w, id)
      PROVE  ServiceInv'
  BY <1>3, <1>r, HoldKeeps DEF DeleteArticle
<1>4. ASSUME NEW w \in Writers, NEW id \in Articles, NEW to \in ArticleStatus,
             NEW at \in Moments \union {NoMoment}, TransitionTo(w, id, to, at)
      PROVE  ServiceInv'
  <2>1. MovedTo(articles[id], to, at) \in Article /\ RowSound(MovedTo(articles[id], to, at))
    BY <1>4, <1>r, MovedSound DEF TransitionTo
  <2> QED
    BY <1>4, <2>1, HoldKeeps DEF TransitionTo
<1>5. ASSUME NEW w \in Writers, SaveArticle(w)
      PROVE  ServiceInv'
  <2> DEFINE d == drafts[w]
  <2>1. /\ d \in Draft /\ d.at = "save" /\ d.id \in Articles /\ d.row \in Article
        /\ RowSound(d.row)
    BY <1>5, <1>t DEF SaveArticle, Draft, DraftsSound
  <2>2. /\ drafts' = [drafts EXCEPT ![w] = NoDraft] /\ writes' = writes + 1
        /\ UNCHANGED <<pictures, today>>
    BY <1>5 DEF SaveArticle, Written
  <2>3. articles' = IF ColumnTaken(d.id, d.row) THEN articles
                    ELSE [articles EXCEPT ![d.id] = d.row]
    BY <1>5 DEF SaveArticle
  <2> HIDE DEF d
  <2>4. ServiceTypeOK'
    BY <1>t, <2>1, <2>2, <2>3 DEF ServiceTypeOK
  <2>5. DraftsSound'
    BY <1>t, <2>2 DEF DraftsSound
  <2>6. ArticlesSound'
    <3>1. CASE ColumnTaken(d.id, d.row)
      BY <2>3, <3>1 DEF ArticlesSound
    <3>2. CASE ~ColumnTaken(d.id, d.row)
      <4>1. articles' = [articles EXCEPT ![d.id] = d.row]
        BY <2>3, <3>2
      <4>2. \A o \in Articles \ {d.id} : articles[o] # NoArticle => articles[o].slug # d.row.slug
        BY <3>2 DEF ColumnTaken
      <4>3. \A a \in Articles : articles'[a] = IF a = d.id THEN d.row ELSE articles[a]
        BY <1>t, <2>1, <4>1
      <4> QED
        BY <2>1, <4>2, <4>3 DEF ArticlesSound
    <3> QED
      BY <3>1, <3>2
  <2> QED
    BY <2>4, <2>5, <2>6
<1>6. ASSUME NEW w \in Writers, RemoveArticle(w)
      PROVE  ServiceInv'
  <2>1. drafts[w].id \in Articles
    BY <1>6, <1>t DEF RemoveArticle, Draft
  <2>2. /\ drafts' = [drafts EXCEPT ![w] = NoDraft] /\ writes' = writes + 1
        /\ UNCHANGED <<pictures, today>>
        /\ articles' = [articles EXCEPT ![drafts[w].id] = NoArticle]
    BY <1>6 DEF RemoveArticle, Written
  <2>3. ServiceTypeOK'
    BY <1>t, <2>1, <2>2 DEF ServiceTypeOK
  <2>4. DraftsSound'
    BY <1>t, <2>2 DEF DraftsSound
  <2>5. ArticlesSound'
    BY <1>t, <2>1, <2>2 DEF ArticlesSound
  <2> QED
    BY <2>3, <2>4, <2>5
<1>7. CASE AssetsChange
  BY <1>7, <1>t DEF AssetsChange, ServiceTypeOK, ArticlesSound, DraftsSound
<1>8. CASE NextMoment
  <2>1. today' \in Moments
    BY <1>8, <1>t, ArticleAssumption DEF NextMoment, Moments
  <2> QED
    BY <1>8, <1>t, <2>1 DEF NextMoment, ServiceTypeOK, ArticlesSound, DraftsSound
<1>9. CASE UNCHANGED serviceVars
  BY <1>9 DEF serviceVars, ServiceTypeOK, ArticlesSound, DraftsSound
<1> QED
  BY <1>0, <1>1, <1>2, <1>3, <1>4, <1>5, <1>6, <1>7, <1>8, <1>9 DEF ServiceNext, CallNext

(* Callers of ContentService may save copies over each other in any order:  *)
(* every stored article keeps valid fields, a slug of its own, and a        *)
(* publish time exactly while it is scheduled.                              *)
THEOREM ArticlesTheorem == ServiceSpec => [](ServiceTypeOK /\ ArticlesSound)
<1>1. ServiceInit => ServiceInv
  BY ArticleAssumption DEF ServiceInit, ServiceInv, ServiceTypeOK, ArticlesSound, DraftsSound, Moments
<1>2. ServiceInv => ServiceTypeOK /\ ArticlesSound
  BY DEF ServiceInv
<1> QED
  BY <1>1, <1>2, ServiceStep, PTL DEF ServiceSpec

-----------------------------------------------------------------------------
(***************************************************************************)
(* The components side by side, as MCSite composes them: each of them       *)
(* moves by itself or stays.                                               *)
(***************************************************************************)
LEMMA SiteBegins ==
  MCInit =>
    /\ part \in SiteParts
    /\ Init /\ SiteInit /\ SettingsInit /\ IngestInit /\ DashboardInit /\ AuditInit
    /\ SharingInit /\ LinksInit /\ GrantsInit /\ StartupInit /\ UnitsInit /\ ServiceInit
BY DEF MCInit

SiteMove ==
  /\ UNCHANGED part
  /\ [Next]_vars /\ [SiteNext]_siteVars /\ [SettingsNext]_settingsVars /\ [IngestNext]_ingestVars
  /\ [DashboardNext]_boardVars /\ [AuditNext]_auditVars /\ [SharingNext]_sharingVars
  /\ [LinksNext]_linkVars /\ [GrantsNext]_grantVars /\ [StartupNext]_startVars
  /\ [UnitsNext]_unitVars /\ [ServiceNext]_serviceVars

LEMMA SiteMoves == [MCNext]_siteAllVars => SiteMove
<1>1. UNCHANGED siteAllVars => SiteMove
  BY DEF siteAllVars, SiteMove
<1>2. MCNext => SiteMove
  BY DEF MCNext, SiteMove
<1> QED
  BY <1>1, <1>2

(* Every component keeps its types and its invariant in the specification   *)
(* that the run content checks, whichever of them moves, and no item leaves *)
(* its status machine: items and articles, the pages of visitors, the       *)
(* settings, the events and the figures made of them, the log, the links,   *)
(* the grants, the start of the server and the units of work.               *)
THEOREM SitePartsTheorem ==
  MCSpec => /\ [](/\ SitePartsSound /\ SettingsKept /\ SiteHonest /\ IngestHonest /\ DashboardAgrees
                  /\ AuditComplete /\ ShareArrives /\ LinksKept /\ GrantsHonest /\ StartHonest
                  /\ UnitsWhole)
            /\ StatusSafe
<1>m. SiteMove =>
        /\ UNCHANGED part
        /\ [Next]_vars /\ [SiteNext]_siteVars /\ [SettingsNext]_settingsVars /\ [IngestNext]_ingestVars
        /\ [DashboardNext]_boardVars /\ [AuditNext]_auditVars /\ [SharingNext]_sharingVars
        /\ [LinksNext]_linkVars /\ [GrantsNext]_grantVars /\ [StartupNext]_startVars
        /\ [UnitsNext]_unitVars /\ [ServiceNext]_serviceVars
  BY DEF SiteMove
<1>1. MCSpec => [](part \in SiteParts)
  <2>1. part \in SiteParts /\ [MCNext]_siteAllVars => (part \in SiteParts)'
    BY SiteMoves, <1>m
  <2> QED
    BY <2>1, SiteBegins, PTL DEF MCSpec
<1>2. MCSpec => []TypeOK /\ StatusSafe
  BY <1>m, SiteBegins, SiteMoves, ContentMoves, PTL DEF MCSpec
<1>3. MCSpec => [](SiteTypeOK /\ SiteHonest)
  BY <1>m, SiteBegins, SiteMoves, SiteTheorem, PTL DEF MCSpec, SiteSpec
<1>4. MCSpec => [](SettingsTypeOK /\ SettingsKept)
  BY <1>m, SiteBegins, SiteMoves, SettingsTheorem, PTL DEF MCSpec, SettingsSpec
<1>5. MCSpec => [](IngestTypeOK /\ IngestHonest)
  BY <1>m, SiteBegins, SiteMoves, IngestTheorem, PTL DEF MCSpec, IngestSpec
<1>6. MCSpec => [](DashboardTypeOK /\ DashboardAgrees)
  BY <1>m, SiteBegins, SiteMoves, DashboardTheorem, PTL DEF MCSpec, DashboardSpec
<1>7. MCSpec => [](AuditTypeOK /\ AuditComplete)
  BY <1>m, SiteBegins, SiteMoves, AuditTheorem, PTL DEF MCSpec, AuditSpec
<1>8. MCSpec => [](SharingTypeOK /\ ShareArrives)
  BY <1>m, SiteBegins, SiteMoves, SharingTheorem, PTL DEF MCSpec, SharingSpec
<1>9. MCSpec => [](LinksTypeOK /\ LinksKept)
  BY <1>m, SiteBegins, SiteMoves, LinksTheorem, PTL DEF MCSpec, LinksSpec
<1>10. MCSpec => [](GrantsTypeOK /\ GrantsHonest)
  <2>1. GrantsSpec => [](GrantsTypeOK /\ GrantsHonest)
    BY GrantsTheorem, MCRulesAssumption
  <2> QED
    BY <1>m, <2>1, SiteBegins, SiteMoves, PTL DEF MCSpec, GrantsSpec
<1>11. MCSpec => [](StartupTypeOK /\ StartHonest)
  BY <1>m, SiteBegins, SiteMoves, StartTheorem, PTL DEF MCSpec, StartupSpec
<1>12. MCSpec => [](UnitsTypeOK /\ UnitsWhole)
  BY <1>m, SiteBegins, SiteMoves, UnitsTheorem, PTL DEF MCSpec
<1>13. MCSpec => [](ServiceTypeOK /\ ArticlesSound)
  BY <1>m, SiteBegins, SiteMoves, ArticlesTheorem, PTL DEF MCSpec, ServiceSpec
<1>14. /\ part \in SiteParts
       /\ TypeOK /\ SiteTypeOK /\ SettingsTypeOK /\ IngestTypeOK /\ DashboardTypeOK /\ AuditTypeOK
       /\ SharingTypeOK /\ LinksTypeOK /\ GrantsTypeOK /\ StartupTypeOK /\ UnitsTypeOK
       /\ ServiceTypeOK /\ ArticlesSound
       => SitePartsSound
  BY DEF SitePartsSound
<1> QED
  BY <1>1, <1>2, <1>3, <1>4, <1>5, <1>6, <1>7, <1>8, <1>9, <1>10, <1>11, <1>12, <1>13, <1>14, PTL

=============================================================================
