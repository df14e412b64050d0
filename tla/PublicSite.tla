----------------------------- MODULE PublicSite -----------------------------
(***************************************************************************)
(* What a visitor is shown of the content: the pages, the sitemap and the  *)
(* metadata of src/src/api/routes/public_ssr.py, the lists of public.py,   *)
(* and the render service and templates behind them.  Content moves under  *)
(* a visitor's request: the repository finds ids in one query and reads    *)
(* the items, one by one, in others.                                       *)
(***************************************************************************)
EXTENDS Integers, Sequences, FiniteSets

CONSTANTS
  KindOf,        \* the type of every item; items are numbered in order of creation
  HomeLimit,     \* limit of the home page's list
  RelatedLimit,  \* limit of the list of related articles
  SitemapLimit,  \* limit of list_items
  MaxMoves       \* bound on publications and withdrawals

ASSUME SiteAssumption ==
  /\ KindOf \in Seq({"post", "page", "resource_pdf"})
  /\ {HomeLimit, RelatedLimit, SitemapLimit} \subseteq Nat \ {0} /\ MaxMoves \in Nat

SiteItems == DOMAIN KindOf

VARIABLES
  since,      \* published_at of every item, 0 unless it is published
  moves,      \* publications and withdrawals so far
  view,       \* the visitor's request: the ids found and the copies read
  withdrawn   \* history: items withdrawn since the request's first query

siteVars == <<since, moves, view, withdrawn>>

Published == {i \in SiteItems : since[i] # 0}
NoView == [at |-> "none", ids |-> {}, shown |-> {}]
Copy(i) == [item |-> i, published |-> i \in Published]

\* The n newest of a set of items.
Newest(set, n) == {i \in set : Cardinality({k \in set : k > i}) < n}

SiteInit ==
  /\ since = [i \in SiteItems |-> 0]
  /\ moves = 0
  /\ view = NoView
  /\ withdrawn = {}

-----------------------------------------------------------------------------
(* The operations that publish and withdraw an item. *)

Appear ==
  /\ moves < MaxMoves
  /\ moves' = moves + 1
  /\ \E i \in SiteItems \ Published : since' = [since EXCEPT ![i] = moves + 1]
  /\ UNCHANGED <<view, withdrawn>>

Withdraw ==
  /\ moves < MaxMoves
  /\ moves' = moves + 1
  /\ \E i \in Published :
       since' = [since EXCEPT ![i] = 0] /\ withdrawn' = withdrawn \cup {i}
  /\ UNCHANGED view

-----------------------------------------------------------------------------
(* Requests for lists. *)

Find(at, ids) ==
  /\ view.at = "none"
  /\ view' = [at |-> at, ids |-> ids, shown |-> {}]
  /\ withdrawn' = {}
  /\ UNCHANGED <<since, moves>>

\* Mutant: the list for the home page is not asked for a status.
GetHomeUnfiltered == Find("home", Newest(SiteItems, HomeLimit))

\* get_public_home.
GetHome == Find("home", Newest(Published, HomeLimit))

\* get_related_articles: newest by published_at, and never the article itself.
GetRelated ==
  \E i \in SiteItems :
    LET others == Published \ {i} IN
    Find("related",
         {j \in others : Cardinality({k \in others : since[k] > since[j]}) < RelatedLimit})

\* sitemap_xml: the newest items of any status.
GetSitemap == Find("sitemap", Newest(SiteItems, SitemapLimit))

\* get_by_id for one id; the sitemap alone looks at the status of what it read.
ReadNext ==
  \E i \in view.ids :
    /\ \A k \in view.ids : k <= i
    /\ view' = [view EXCEPT
         !.ids = @ \ {i},
         !.shown = IF view.at # "sitemap" \/ i \in Published THEN @ \cup {Copy(i)} ELSE @]
    /\ UNCHANGED <<since, moves, withdrawn>>

Answer ==
  /\ view.at # "none" /\ view.ids = {}
  /\ view' = NoView
  /\ UNCHANGED <<since, moves, withdrawn>>

-----------------------------------------------------------------------------
(* Requests for one page, and where pages are. *)

\* require_published.
RequirePublished(i) == i \in Published

\* The prefixes the router serves, with the type each looks a slug up in.
PageRoutes == {<<"/p", "post">>, <<"/page", "page">>, <<"/r", "resource_pdf">>}

\* The page at an address, if there is one; a slug is an item's own.
Serves(address) ==
  {i \in SiteItems : address[2] = i /\ <<address[1], KindOf[i]>> \in PageRoutes /\ RequirePublished(i)}

\* get_content_path, which the canonical URL is built from.
ContentPath(i) == <<IF KindOf[i] = "post" THEN "/p" ELSE "/r", i>>

\* The location filter_sitemap_entries writes.
EntryPath(i) ==
  <<CASE KindOf[i] = "post" -> "/p" [] KindOf[i] = "resource" -> "/r" [] OTHER -> "", i>>

\* ssr_post, ssr_page, ssr_resource_pdf; get_public_content looks for a post or a page.
GetPage ==
  \E i \in SiteItems, prefix \in {"/p", "/page", "/r"} :
    /\ view.at = "none"
    /\ i \in Serves(<<prefix, i>>)
    /\ view' = [at |-> "page", ids |-> {}, shown |-> {Copy(i)}]
    /\ withdrawn' = {}
    /\ UNCHANGED <<since, moves>>

SiteNext ==
  Appear \/ Withdraw \/ GetHome \/ GetRelated \/ GetSitemap \/ ReadNext \/ Answer \/ GetPage

SiteSpec == SiteInit /\ [][SiteNext]_siteVars

-----------------------------------------------------------------------------
(* Cache policy of the templates, which no route applies yet; a publish time is *)
(* past, to come or missing. *)

PolicyStatus == {"draft", "scheduled", "published", "archived"}
PolicyDates == {"past", "future", "none"}

\* determine_cache_policy.
PubliclyCached(s, d) == (s = "published" /\ d # "future") \/ (s = "scheduled" /\ d = "past")

\* validate_cache_policy_r2, of a public policy.
ViolatesR2(s, d) ==
  \/ s \in {"draft", "scheduled", "archived"}
  \/ s = "published" /\ d = "future"

\* should_include_in_sitemap and validate_content_visibility, which ask the same.
PubliclyVisible(s, d) == s = "published" /\ d # "future"

-----------------------------------------------------------------------------
(* Properties. *)

SiteTypeOK ==
  /\ since \in [SiteItems -> 0..MaxMoves]
  /\ moves \in 0..MaxMoves
  /\ view \in [at: {"none", "home", "related", "sitemap", "page"}, ids: SUBSET SiteItems,
               shown: SUBSET [item: SiteItems, published: BOOLEAN]]
  /\ withdrawn \subseteq SiteItems

\* R1: no answer holds an item whose status, in the very copy that is shown, is not
\* published, unless the item was withdrawn between the query that found it and the
\* one that read it, on the home page or among related articles.
ShownWasPublished ==
  \A c \in view.shown :
    \/ c.published
    \/ view.at \in {"home", "related"} /\ c.item \in withdrawn

\* Every published post and resource is at its canonical address, and a post in the
\* sitemap at the address given there; what the templates let caches keep is what the
\* site shows, but for a scheduled item whose time has come.
PublishedIsFound ==
  /\ \A i \in Published :
       /\ KindOf[i] # "page" => Serves(ContentPath(i)) = {i}
       /\ KindOf[i] = "post" => Serves(EntryPath(i)) = {i}
  /\ \A s \in PolicyStatus, d \in PolicyDates :
       /\ PubliclyCached(s, d) <=> PubliclyVisible(s, d) \/ <<s, d>> = <<"scheduled", "past">>
       /\ PubliclyCached(s, d) /\ ViolatesR2(s, d) => <<s, d>> = <<"scheduled", "past">>

\* What a visitor is shown was published, and what is published is found.
SiteHonest == ShownWasPublished /\ PublishedIsFound

=============================================================================
