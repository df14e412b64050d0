-------------------------------- MODULE MCSite --------------------------------
(***************************************************************************)
(* The content items, and the components around them that share no state   *)
(* with each other: what visitors see, share and send, what the operator   *)
(* reads of it and edits, who may, and how the server starts.  `part` says *)
(* which of them a behaviour is about; the others stay as they begin.      *)
(***************************************************************************)
EXTENDS ContentLifecycle, PublicSite, Settings, Ingestion, Dashboard, Audit,
        Sharing, Links, Grants, Startup, UnitOfWork, ContentService, TLC

VARIABLE part

SiteParts == {"content", "site", "settings", "ingestion", "dashboard", "audit",
          "sharing", "links", "grants", "startup", "units", "service"}

-----------------------------------------------------------------------------
(* Values of constants. *)

MCKindOf == <<"post", "page", "resource_pdf", "post">>

\* An event of the list, one with a personal field and no value in it, one of an
\* unknown type from a bot, one from tomorrow.
Event0 == [type |-> "page_view", extra |-> "none", null |-> FALSE, ts |-> -1, agent |-> "real"]
MCOffered ==
  {Event0, [Event0 EXCEPT !.type = "other"], [Event0 EXCEPT !.extra = "email", !.null = TRUE],
   [Event0 EXCEPT !.ts = 2, !.agent = "bot"]}

\* Views with and without a piece of content, a source and a referrer; a bot; a click.
ViewOf(t, c, p, s, r) == [type |-> t, class |-> c, content |-> p, source |-> s, referrer |-> r]
MCViews ==
  {ViewOf("page_view", "real", "c1", "none", "d1"), ViewOf("page_view", "real", "none", "s1", "none"),
   ViewOf("page_view", "bot", "c1", "s1", "none"), ViewOf("outbound_click", "real", "none", "none", "none")}

MCHooks == {<<"update", "settings">>, <<"publish", "content">>}

\* A target of its own parameters, one without, one that is not safe.
MCTargets ==
  {[safe |-> TRUE, query |-> [source |-> "theirs", ref |-> "x"]],
   [safe |-> TRUE, query |-> <<>>], [safe |-> FALSE, query |-> <<>>]}
MCTypeOfPiece == [i \in 1..3 |-> <<"post", "page", "resource_pdf">>[i]]

\* The roles and rules of the documents, as far as items are concerned.
MCRoleOf == ("ann" :> "admin") @@ ("eve" :> "viewer")
MCOwnerOf == ("one" :> "ann") @@ ("two" :> "eve")
MCRoleActions ==
  ("admin" :> {<<"content", "*">>}) @@ ("viewer" :> {<<"content", "read">>})
    @@ ("editor" :> {<<"content", "create">>})
Guests == {"viewer", "editor"}
MCAbacRules ==
  {[roles |-> Guests, owns |-> TRUE, scopes |-> {"any"}, allow |-> {<<"content", "edit">>}],
   [roles |-> Guests, owns |-> FALSE, scopes |-> {"edit"},
    allow |-> {<<"content", "edit">>, <<"content", "read">>}]}

\* What the proofs about Grants ask of the rules.
ASSUME MCRulesAssumption == RulesGiveEdit

\* A first file that creates tables, a second that adds a column.
MCScripts == << <<"again", "again", "again">>, <<"once">> >>

\* The item, with its blocks, and the versions, of which one is the latest; a row alone.
CallOf(repo, of, at) == [repo |-> repo, of |-> of, at |-> at]
MCCalls ==
  {CallOf("content", "save", "none"), CallOf("content", "delete", "none"),
   CallOf("asset_versions", "save", "v1"), CallOf("asset_versions", "set_latest", "v1")}

-----------------------------------------------------------------------------

siteAllVars == <<part, vars, siteVars, settingsVars, ingestVars, boardVars, auditVars,
                 sharingVars, linkVars, grantVars, startVars, unitVars, serviceVars>>

MCInit ==
  /\ part \in SiteParts
  /\ Init /\ SiteInit /\ SettingsInit /\ IngestInit /\ DashboardInit /\ AuditInit
  /\ SharingInit /\ LinksInit /\ GrantsInit /\ StartupInit /\ UnitsInit
  /\ ServiceInit

MCNext ==
  /\ UNCHANGED part
  /\ IF part = "content" THEN Next ELSE UNCHANGED vars
  /\ IF part = "site" THEN SiteNext ELSE UNCHANGED siteVars
  /\ IF part = "settings" THEN SettingsNext ELSE UNCHANGED settingsVars
  /\ IF part = "ingestion" THEN IngestNext ELSE UNCHANGED ingestVars
  /\ IF part = "dashboard" THEN DashboardNext ELSE UNCHANGED boardVars
  /\ IF part = "audit" THEN AuditNext ELSE UNCHANGED auditVars
  /\ IF part = "sharing" THEN SharingNext ELSE UNCHANGED sharingVars
  /\ IF part = "links" THEN LinksNext ELSE UNCHANGED linkVars
  /\ IF part = "grants" THEN GrantsNext ELSE UNCHANGED grantVars
  /\ IF part = "startup" THEN StartupNext ELSE UNCHANGED startVars
  /\ IF part = "units" THEN UnitsNext ELSE UNCHANGED unitVars
  /\ IF part = "service" THEN ServiceNext ELSE UNCHANGED serviceVars

\* The fairness of ContentLifecycle, in the behaviours that are about content.
MCFairness ==
  /\ WF_vars(part = "content" /\ ListDue)
  /\ WF_vars(part = "content" /\ PublishDue)
  /\ WF_vars(part = "content" /\ Tick)

MCSpec == MCInit /\ [][MCNext]_siteAllVars /\ MCFairness

(* Every variable of every component has its type, and the articles that    *)
(* callers of ContentService save over each other keep valid fields, a slug *)
(* of their own, and a publish time exactly while they are scheduled.       *)
SitePartsSound ==
  /\ part \in SiteParts
  /\ TypeOK /\ SiteTypeOK /\ SettingsTypeOK /\ IngestTypeOK /\ DashboardTypeOK /\ AuditTypeOK
  /\ SharingTypeOK /\ LinksTypeOK /\ GrantsTypeOK /\ StartupTypeOK /\ UnitsTypeOK
  /\ ServiceTypeOK /\ ArticlesSound
=============================================================================
