------------------------------ MODULE Sharing ------------------------------
(***************************************************************************)
(* A share link from its making to its count: the sharing component        *)
(* (src/src/components/sharing) behind POST /api/public/share/generate,    *)
(* the visit it leads to, what the attribution service                     *)
(* (src/src/core/services/analytics_attrib.py) takes the visit for, and    *)
(* the way out through src/src/api/routes/outbound.py.                     *)
(*                                                                         *)
(* A query is a function from parameters to values.  Items are renamed and *)
(* withdrawn while links to them are about.                                *)
(***************************************************************************)
EXTENDS Naturals, FiniteSets

CONSTANTS
  TypeOfPiece,  \* the items, a function to their types
  PieceSlugs,   \* slugs
  BadSlugs,     \* the slugs with a character no link takes
  Platforms,    \* what a link is made for
  Targets,      \* URLs a reader leaves for: whether safe, and their queries
  MaxEdits,     \* bound on the changes of items
  MaxShares     \* bound on the links made

ASSUME SharingAssumption ==
  /\ TypeOfPiece \in [DOMAIN TypeOfPiece -> {"post", "page", "resource_pdf"}]
  /\ \E slug \in [DOMAIN TypeOfPiece -> PieceSlugs] :
       \A i, j \in DOMAIN TypeOfPiece : slug[i] = slug[j] => i = j
  /\ BadSlugs \subseteq PieceSlugs
  /\ Platforms \subseteq {"twitter", "linkedin", "facebook", "native"}
  /\ MaxEdits \in Nat /\ MaxShares \in Nat

VARIABLES
  piece,   \* the items: slug, published or not
  edits,   \* changes of items so far
  shared,  \* the links made: for which item and platform, address and query
  arrival, \* the last visit
  leaving  \* the last way out: the event recorded and where the reader was sent

sharingVars == <<piece, edits, shared, arrival, leaving>>

Pieces == DOMAIN TypeOfPiece
NoArrival == [link |-> {}, found |-> {}, query |-> <<>>, from |-> "none",
              source |-> "direct", channel |-> <<"direct", "none">>]
NoLeaving == [event |-> {}, url |-> <<>>]

SharingInit ==
  /\ piece = CHOOSE p \in [Pieces -> [slug: PieceSlugs, live: {FALSE}]] :
                \A i, j \in Pieces : p[i].slug = p[j].slug => i = j
  /\ edits = 0
  /\ shared = {}
  /\ arrival = NoArrival
  /\ leaving = NoLeaving

-----------------------------------------------------------------------------
(* Items change: the content operations, of which a slug or a status is left. *)

EditPiece ==
  /\ edits < MaxEdits
  /\ edits' = edits + 1
  /\ \E i \in Pieces :
       \/ piece' = [piece EXCEPT ![i].live = ~@]
       \/ \E s \in PieceSlugs \ {piece[j].slug : j \in Pieces} : piece' = [piece EXCEPT ![i].slug = s]
  /\ UNCHANGED <<shared, arrival, leaving>>

-----------------------------------------------------------------------------
(* The link. *)

\* add_utm_params: the parameters of the campaign replace those of the URL.
AddUtmParams(query, utm) ==
  [k \in DOMAIN query \cup DOMAIN utm |-> IF k \in DOMAIN utm THEN utm[k] ELSE query[k]]

\* build_content_url, with the prefix the route chooses.
SharedAddress(i) == <<IF TypeOfPiece[i] = "resource_pdf" THEN "/r" ELSE "/p", piece[i].slug>>

\* generate_share_url; nothing asks whether the item is published.
GenerateShareUrl(i, platform) ==
  LET utm == [source |-> platform, medium |-> "social", campaign |-> piece[i].slug] IN
  /\ piece[i].slug \notin BadSlugs
  /\ Cardinality(shared) < MaxShares
  /\ shared' = shared \cup {[of |-> i, platform |-> platform, address |-> SharedAddress(i),
                             query |-> AddUtmParams(<<>>, utm)]}
  /\ UNCHANGED <<piece, edits, arrival, leaving>>

-----------------------------------------------------------------------------
(* What a visit is taken for. *)

Referrers == {"none", "google.com", "linkedin.com", "reddit.com", "example.org"}

\* parse_referrer: the first pattern that is part of the domain; "t.co" stands in the
\* list before "reddit." and is part of both.
SearchEngine(from) == IF from = "google.com" THEN "google" ELSE "none"
SocialNetwork(from) ==
  CASE from = "linkedin.com" -> "linkedin" [] from = "reddit.com" -> "twitter" [] OTHER -> "none"

Param(query, key) == IF key \in DOMAIN query THEN query[key] ELSE "none"

\* Mutant: the referrer is asked before the parameters.
ClassifyByReferrer(query, from) ==
  IF SearchEngine(from) # "none" THEN "organic_search"
  ELSE IF Param(query, "medium") = "social" THEN "social" ELSE "direct"

\* classify_traffic_source: the medium, the source, the referrer.
Classify(query, from) ==
  IF Param(query, "medium") = "social" THEN "social"
  ELSE IF Param(query, "medium") = "newsletter" THEN "email"
  ELSE IF Param(query, "source") \in {"twitter", "linkedin", "facebook"} THEN "social"
  ELSE IF SearchEngine(from) # "none" THEN "organic_search"
  ELSE IF SocialNetwork(from) # "none" THEN "social"
  ELSE IF from # "none" THEN "referral" ELSE "direct"

\* get_channel_name: the referrer names a channel before the parameters do.
Channel(query, from) ==
  LET class == Classify(query, from)
      known == CASE class = "organic_search" -> SearchEngine(from)
                 [] class = "social" -> SocialNetwork(from)
                 [] class = "email" -> Param(query, "campaign")
                 [] class = "referral" -> from
                 [] OTHER -> "none" IN
  <<class, IF known = "none" /\ class \in {"organic_search", "social"}
           THEN Param(query, "source") ELSE known>>

-----------------------------------------------------------------------------
(* The visit. *)

\* ssr_post and ssr_resource_pdf: the slug in its namespace, published.
Found(address) ==
  {i \in Pieces : /\ piece[i].slug = address[2] /\ piece[i].live
                  /\ <<address[1], TypeOfPiece[i]>> \in {<<"/p", "post">>, <<"/r", "resource_pdf">>}}

\* A reader comes by a link that was shared, or by one of another's making; attribute.
Arrive(link, address, query) ==
  \E from \in Referrers :
    /\ arrival' = [link |-> link, found |-> Found(address), query |-> query, from |-> from,
                   source |-> Classify(query, from), channel |-> Channel(query, from)]
    /\ leaving' = NoLeaving
    /\ UNCHANGED <<piece, edits, shared>>

FollowShare == \E s \in shared : Arrive({s}, s.address, s.query)

ArriveOtherwise ==
  \E i \in Pieces, query \in {<<>>, [medium |-> "newsletter", campaign |-> "may"]} :
    Arrive({}, SharedAddress(i), query)

-----------------------------------------------------------------------------
(* The way out: track_outbound_click and track_named_link. *)

\* preserve_utm_params: only what the target does not have is added.
PreserveUtm(url, utm) ==
  [k \in DOMAIN url \cup DOMAIN utm |-> IF k \in DOMAIN url THEN url[k] ELSE utm[k]]

TrackOutbound ==
  \E t \in Targets :
    /\ arrival.found # {}
    /\ t.safe
    /\ leaving' = [event |-> {t}, url |-> PreserveUtm(t.query, arrival.query)]
    /\ UNCHANGED <<piece, edits, shared, arrival>>

SharingNext ==
  \/ EditPiece \/ FollowShare \/ ArriveOtherwise \/ TrackOutbound
  \/ \E i \in Pieces, platform \in Platforms : GenerateShareUrl(i, platform)

SharingSpec == SharingInit /\ [][SharingNext]_sharingVars

-----------------------------------------------------------------------------
(* Properties. *)

SharingTypeOK ==
  /\ \A i \in Pieces : piece[i].slug \in PieceSlugs /\ piece[i].live \in BOOLEAN
  /\ edits \in 0..MaxEdits
  /\ Cardinality(shared) <= MaxShares
  /\ arrival.link \subseteq shared /\ arrival.found \subseteq Pieces /\ arrival.from \in Referrers

\* TA-0070, TA-0071 and TA-0036 to TA-0038, end to end: a link leads to the very post or
\* resource it was made for, as long as that one is published and keeps its slug; whoever
\* comes by it is counted as coming from a social network, wherever the link was found,
\* and for the platform it was made for unless the referrer is a network itself; and on
\* the way out the target keeps its own parameters and gets the others.
ShareArrives ==
  /\ \A s \in shared :
       piece[s.of].live /\ piece[s.of].slug = s.address[2] /\ TypeOfPiece[s.of] # "page" =>
         Found(s.address) = {s.of}
  /\ \A s \in arrival.link :
       /\ arrival.source = "social"
       /\ SocialNetwork(arrival.from) = "none" => arrival.channel[2] = s.platform
  /\ \A t \in leaving.event : \A k \in DOMAIN t.query :
       k \in DOMAIN leaving.url /\ leaving.url[k] = t.query[k]
=============================================================================
