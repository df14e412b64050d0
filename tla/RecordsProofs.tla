---------------------------- MODULE RecordsProofs ---------------------------
(***************************************************************************)
(* Proofs about what the site keeps of its items, its readers and its      *)
(* changes: Sharing, Ingestion, Audit, ContentLifecycle and UnitOfWork,    *)
(* each for every value of its constants.                                  *)
(***************************************************************************)
EXTENDS ContentLifecycle, Sharing, Ingestion, Audit, UnitOfWork, FiniteSetTheorems,
        SequenceTheorems, Induction, TLAPS

LEMMA SubsetCount ==
  ASSUME NEW T, IsFiniteSet(T), NEW S, S \subseteq T
  PROVE  /\ IsFiniteSet(S) /\ Cardinality(S) \in Nat /\ Cardinality(T) \in Nat
         /\ Cardinality(S) <= Cardinality(T)
BY FS_Subset, FS_CardinalityType

-----------------------------------------------------------------------------
(***************************************************************************)
(* Sharing: every number of items, links and visits.                       *)
(***************************************************************************)
Prefix(i) == IF TypeOfPiece[i] = "resource_pdf" THEN "/r" ELSE "/p"
Campaign(s) == [source |-> s.platform, medium |-> "social", campaign |-> s.address[2]]

SlugsInv ==
  /\ piece \in [Pieces -> [slug: PieceSlugs, live: BOOLEAN]]
  /\ \A i, j \in Pieces : piece[i].slug = piece[j].slug => i = j

\* A link has the address its item had, and the parameters of its campaign.
LinkMade(s) ==
  /\ s.of \in Pieces
  /\ s.address[1] = Prefix(s.of)
  /\ s.query = Campaign(s)

SharedInv == \A s \in shared : LinkMade(s)

\* A visit was judged by the parameters of its link.
ArrivalInv ==
  \A s \in arrival.link :
    /\ arrival.source = Classify(Campaign(s), arrival.from)
    /\ arrival.channel = Channel(Campaign(s), arrival.from)

LeavingInv ==
  \A t \in leaving.event : \A k \in DOMAIN t.query :
    k \in DOMAIN leaving.url /\ leaving.url[k] = t.query[k]

SharingInv == SlugsInv /\ SharedInv /\ ArrivalInv /\ LeavingInv

LEMMA CampaignQuery ==
  ASSUME NEW utm, utm = [k \in DOMAIN utm |-> utm[k]]
  PROVE  AddUtmParams(<<>>, utm) = utm
<1>1. DOMAIN <<>> = {}
  OBVIOUS
<1> QED
  BY <1>1 DEF AddUtmParams

LEMMA CampaignJudged ==
  ASSUME NEW s, NEW from
  PROVE  /\ Classify(Campaign(s), from) = "social"
         /\ SocialNetwork(from) = "none" => Channel(Campaign(s), from)[2] = s.platform
<1>1. /\ Param(Campaign(s), "medium") = "social"
      /\ Param(Campaign(s), "source") = s.platform
  BY DEF Param, Campaign
<1>2. Classify(Campaign(s), from) = "social"
  BY <1>1 DEF Classify
<1> QED
  BY <1>1, <1>2 DEF Channel

LEMMA FoundIsIt ==
  ASSUME SharingInv, NEW s \in shared,
         piece[s.of].live, piece[s.of].slug = s.address[2], TypeOfPiece[s.of] # "page"
  PROVE  Found(s.address) = {s.of}
<1>1. s.of \in Pieces /\ s.address[1] = Prefix(s.of)
  BY DEF SharingInv, SharedInv, LinkMade
<1>2. TypeOfPiece[s.of] \in {"post", "resource_pdf"}
  BY <1>1, SharingAssumption DEF Pieces
<1>3. s.of \in Found(s.address)
  BY <1>1, <1>2 DEF Found, Prefix
<1>4. \A i \in Found(s.address) : i = s.of
  BY <1>1 DEF Found, SharingInv, SlugsInv
<1> QED
  BY <1>3, <1>4

LEMMA EditPieceStep ==
  ASSUME SharingInv, EditPiece
  PROVE  SharingInv'
<1>1. UNCHANGED <<shared, arrival, leaving>>
  BY DEF EditPiece
<1>2. SlugsInv'
  <2>1. PICK i \in Pieces :
          \/ piece' = [piece EXCEPT ![i].live = ~@]
          \/ \E s \in PieceSlugs \ {piece[j].slug : j \in Pieces} : piece' = [piece EXCEPT ![i].slug = s]
    BY DEF EditPiece
  <2>2. CASE piece' = [piece EXCEPT ![i].live = ~@]
    BY <2>1, <2>2 DEF SharingInv, SlugsInv
  <2>3. CASE \E s \in PieceSlugs \ {piece[j].slug : j \in Pieces} : piece' = [piece EXCEPT ![i].slug = s]
    BY <2>1, <2>3 DEF SharingInv, SlugsInv
  <2> QED
    BY <2>1, <2>2, <2>3
<1>3. SharedInv' /\ ArrivalInv' /\ LeavingInv'
  BY <1>1 DEF SharingInv, SharedInv, LinkMade, ArrivalInv, LeavingInv, Prefix, Campaign
<1> QED
  BY <1>2, <1>3 DEF SharingInv

LEMMA GenerateShareUrlStep ==
  ASSUME SharingInv, NEW i \in Pieces, NEW platform \in Platforms, GenerateShareUrl(i, platform)
  PROVE  SharingInv'
<1> DEFINE utm == [source |-> platform, medium |-> "social", campaign |-> piece[i].slug]
           new == [of |-> i, platform |-> platform, address |-> SharedAddress(i),
                   query |-> AddUtmParams(<<>>, utm)]
<1>1. shared' = shared \cup {new} /\ UNCHANGED <<piece, edits, arrival, leaving>>
  BY DEF GenerateShareUrl
<1>2. AddUtmParams(<<>>, utm) = utm
  BY CampaignQuery
<1>3. LinkMade(new)
  BY <1>2 DEF LinkMade, SharedAddress, Prefix, Campaign
<1> HIDE DEF new
<1>4. SharedInv'
  BY <1>1, <1>3 DEF SharingInv, SharedInv, LinkMade, Prefix, Campaign
<1>5. SlugsInv' /\ ArrivalInv' /\ LeavingInv'
  BY <1>1 DEF SharingInv, SlugsInv, ArrivalInv, LeavingInv
<1> QED
  BY <1>4, <1>5 DEF SharingInv

LEMMA ArriveStep ==
  ASSUME SharingInv, NEW link, NEW address, NEW query,
         \A s \in link : query = Campaign(s), Arrive(link, address, query)
  PROVE  SharingInv'
<1>1. PICK from \in Referrers :
        arrival' = [link |-> link, found |-> Found(address), query |-> query, from |-> from,
                    source |-> Classify(query, from), channel |-> Channel(query, from)]
  BY DEF Arrive
<1>2. leaving' = NoLeaving /\ UNCHANGED <<piece, edits, shared>>
  BY DEF Arrive
<1>3. /\ arrival'.link = link /\ arrival'.from = from
      /\ arrival'.source = Classify(query, from) /\ arrival'.channel = Channel(query, from)
  BY <1>1
<1>4. ArrivalInv'
  BY <1>3 DEF ArrivalInv
<1>5. SlugsInv' /\ SharedInv' /\ LeavingInv'
  BY <1>2 DEF SharingInv, SlugsInv, SharedInv, LinkMade, Prefix, Campaign, LeavingInv, NoLeaving
<1> QED
  BY <1>4, <1>5 DEF SharingInv

LEMMA TrackOutboundStep ==
  ASSUME SharingInv, TrackOutbound
  PROVE  SharingInv'
<1>1. PICK t \in Targets : leaving' = [event |-> {t}, url |-> PreserveUtm(t.query, arrival.query)]
  BY DEF TrackOutbound
<1>2. UNCHANGED <<piece, edits, shared, arrival>>
  BY DEF TrackOutbound
<1>3. leaving'.event = {t} /\ leaving'.url = PreserveUtm(t.query, arrival.query)
  BY <1>1
<1>4. LeavingInv'
  BY <1>3 DEF LeavingInv, PreserveUtm
<1>5. SlugsInv' /\ SharedInv' /\ ArrivalInv'
  BY <1>2 DEF SharingInv, SlugsInv, SharedInv, LinkMade, Prefix, Campaign, ArrivalInv
<1> QED
  BY <1>4, <1>5 DEF SharingInv

(* The links made are finitely many; with it the types of what is shared.   *)
SharingShape ==
  /\ SharingTypeOK /\ IsFiniteSet(shared)
  /\ piece \in [Pieces -> [slug: PieceSlugs, live: BOOLEAN]]

LEMMA SharingTypesKept ==
  ASSUME SharingShape, [SharingNext]_sharingVars
  PROVE  SharingShape'
<1>1. CASE EditPiece
  <2>1. edits' \in 0..MaxEdits /\ UNCHANGED <<shared, arrival>>
    BY <1>1, SharingAssumption DEF EditPiece, SharingShape, SharingTypeOK
  <2>2. piece' \in [Pieces -> [slug: PieceSlugs, live: BOOLEAN]]
    BY <1>1 DEF EditPiece, SharingShape
  <2> QED
    BY <2>1, <2>2 DEF SharingShape, SharingTypeOK
<1>2. ASSUME NEW i \in Pieces, NEW platform \in Platforms, GenerateShareUrl(i, platform)
      PROVE  SharingShape'
  <2>1. PICK new : /\ shared' = shared \cup {new} /\ UNCHANGED <<piece, edits, arrival>>
                   /\ Cardinality(shared) < MaxShares
    BY <1>2 DEF GenerateShareUrl
  <2>2. IsFiniteSet(shared') /\ Cardinality(shared') <= MaxShares
    <3>1. IsFiniteSet(shared) /\ Cardinality(shared) \in Nat /\ MaxShares \in Nat
      BY FS_CardinalityType, SharingAssumption DEF SharingShape
    <3>2. /\ IsFiniteSet(shared \cup {new})
          /\ Cardinality(shared \cup {new}) \in {Cardinality(shared), Cardinality(shared) + 1}
      BY <3>1, FS_AddElement
    <3>3. shared' = shared \cup {new} /\ Cardinality(shared) < MaxShares
      BY <2>1
    <3>4. Cardinality(shared \cup {new}) <= MaxShares
      BY <3>1, <3>2, <3>3
    <3> QED
      BY <3>2, <3>3, <3>4
  <2> QED
    BY <2>1, <2>2 DEF SharingShape, SharingTypeOK
<1>3. ASSUME NEW made, made \subseteq shared, NEW address, NEW query, Arrive(made, address, query)
      PROVE  SharingShape'
  <2>1. PICK from \in Referrers :
          arrival' = [link |-> made, found |-> Found(address), query |-> query, from |-> from,
                      source |-> Classify(query, from), channel |-> Channel(query, from)]
    BY <1>3 DEF Arrive
  <2>2. arrival'.link = made /\ arrival'.found = Found(address) /\ arrival'.from = from
    BY <2>1
  <2>3. Found(address) \subseteq Pieces /\ UNCHANGED <<piece, edits, shared>>
    BY <1>3 DEF Found, Arrive
  <2> QED
    BY <1>3, <2>2, <2>3 DEF SharingShape, SharingTypeOK
<1>4. CASE TrackOutbound \/ UNCHANGED sharingVars
  BY <1>4 DEF TrackOutbound, sharingVars, SharingShape, SharingTypeOK
<1>5. CASE FollowShare \/ ArriveOtherwise
  BY <1>3, <1>5 DEF FollowShare, ArriveOtherwise
<1> QED
  BY <1>1, <1>2, <1>4, <1>5 DEF SharingNext

\* A share link leads to its item while that is published under its slug, is counted
\* for its platform and loses no parameter on the way out, whatever the items,
\* platforms, slugs and targets.
THEOREM SharingTheorem == SharingSpec => [](SharingTypeOK /\ ShareArrives)
<1>1. SharingInit => SharingInv
  <2> SUFFICES ASSUME SharingInit
               PROVE  SharingInv
    OBVIOUS
  <2> DEFINE Good(p) == \A i, j \in Pieces : p[i].slug = p[j].slug => i = j
  <2>1. PICK slug \in [Pieces -> PieceSlugs] : \A i, j \in Pieces : slug[i] = slug[j] => i = j
    BY SharingAssumption DEF Pieces
  <2>2. LET p == [i \in Pieces |-> [slug |-> slug[i], live |-> FALSE]] IN
        p \in [Pieces -> [slug: PieceSlugs, live: {FALSE}]] /\ Good(p)
    BY <2>1
  <2>3. piece \in [Pieces -> [slug: PieceSlugs, live: {FALSE}]] /\ Good(piece)
    BY <2>2, ZenonT(40) DEF SharingInit
  <2>4. SlugsInv
    BY <2>3 DEF SlugsInv
  <2> QED
    BY <2>4 DEF SharingInit, SharingInv, SharedInv, ArrivalInv, LeavingInv, NoArrival, NoLeaving
<1>2. SharingInv /\ [SharingNext]_sharingVars => SharingInv'
  <2> SUFFICES ASSUME SharingInv, [SharingNext]_sharingVars
               PROVE  SharingInv'
    OBVIOUS
  <2>1. CASE FollowShare
    <3>1. PICK s \in shared : Arrive({s}, s.address, s.query)
      BY <2>1 DEF FollowShare
    <3>2. \A x \in {s} : s.query = Campaign(x)
      BY DEF SharingInv, SharedInv, LinkMade
    <3> QED
      BY <3>1, <3>2, ArriveStep
  <2>2. CASE ArriveOtherwise
    <3>1. PICK i \in Pieces, query \in {<<>>, [medium |-> "newsletter", campaign |-> "may"]} :
            Arrive({}, SharedAddress(i), query)
      BY <2>2 DEF ArriveOtherwise
    <3> QED
      BY <3>1, ArriveStep
  <2>3. CASE UNCHANGED sharingVars
    BY <2>3 DEF sharingVars, SharingInv, SlugsInv, SharedInv, LinkMade, Prefix, Campaign, ArrivalInv, LeavingInv
  <2> QED
    BY <2>1, <2>2, <2>3, EditPieceStep, GenerateShareUrlStep, TrackOutboundStep DEF SharingNext
<1>3. SharingInv => ShareArrives
  <2> SUFFICES ASSUME SharingInv
               PROVE  ShareArrives
    OBVIOUS
  <2>1. \A s \in arrival.link :
          /\ arrival.source = "social"
          /\ SocialNetwork(arrival.from) = "none" => arrival.channel[2] = s.platform
    BY CampaignJudged DEF SharingInv, ArrivalInv
  <2> QED
    BY <2>1, FoundIsIt DEF SharingInv, LeavingInv, ShareArrives
<1>4. SharingInit => SharingShape
  <2> SUFFICES ASSUME SharingInit PROVE SharingShape
    OBVIOUS
  <2>1. SlugsInv
    BY <1>1 DEF SharingInv
  <2>2. IsFiniteSet(shared) /\ Cardinality(shared) <= MaxShares /\ edits \in 0..MaxEdits
    BY FS_EmptySet, SharingAssumption DEF SharingInit
  <2>3. arrival.link \subseteq shared /\ arrival.found \subseteq Pieces /\ arrival.from \in Referrers
    BY DEF SharingInit, NoArrival, Referrers
  <2> QED
    BY <2>1, <2>2, <2>3 DEF SlugsInv, SharingShape, SharingTypeOK
<1>5. SharingShape => SharingTypeOK
  BY DEF SharingShape
<1> QED
  BY <1>1, <1>2, <1>3, <1>4, <1>5, SharingTypesKept, PTL DEF SharingSpec

-----------------------------------------------------------------------------
(***************************************************************************)
(* Ingestion: every set of threads and events, every limit and window.     *)
(***************************************************************************)
\* A thread at work has a request of its own.
PostShape ==
  /\ moment \in Nat /\ posts \in Nat
  /\ post \in [Clients -> [id: Nat, single: BOOLEAN, todo: Seq(EventKind), ok: Seq(BOOLEAN),
                           hits: SUBSET (Nat \X Nat)]]
  /\ \A c \in Clients : /\ IsFiniteSet(post[c].hits) /\ post[c].id <= posts
                        /\ post[c].todo # <<>> => post[c].id # 0
  /\ \A c, d \in Clients : post[c].id = post[d].id /\ post[c].id # 0 => c = d

StoredSound(s) ==
  /\ s.event.type = "page_view" /\ s.event.extra = "none"
  /\ s.stamp - s.at <= MaxAhead /\ s.at - s.stamp <= MaxAge
  /\ s.at \in Nat /\ s.at <= moment
  /\ s.by \in 1..posts /\ s.index \in Nat

StoredInv ==
  /\ IsFiniteSet(stored) /\ \A s \in stored : StoredSound(s)
  /\ \A s, u \in stored : s.by = u.by /\ s.index = u.index => s = u

AnsweredInv ==
  \A c \in Clients : post[c].id # 0 =>
    {i \in DOMAIN post[c].ok : post[c].ok[i]} = {s.index : s \in {s \in stored : s.by = post[c].id}}

\* The limiter of a request has every event of it that was stored within the span.
LimiterInv ==
  \A c \in Clients : \A s \in stored :
    post[c].id # 0 /\ s.by = post[c].id => <<s.index, s.at>> \in post[c].hits \/ s.at <= moment - RateSpan

InSpan(by, at) == {t \in stored : t.by = by /\ t.at \in (at - RateSpan + 1)..at}

RateInv == \A s \in stored : Cardinality(InSpan(s.by, s.at)) <= MaxPerRate

IngestInv == PostShape /\ StoredInv /\ AnsweredInv /\ LimiterInv /\ RateInv

LEMMA InSpanFinite ==
  ASSUME StoredInv, NEW by, NEW at
  PROVE  IsFiniteSet(InSpan(by, at)) /\ Cardinality(InSpan(by, at)) \in Nat
<1>1. InSpan(by, at) \subseteq stored
  BY DEF InSpan
<1> QED
  BY <1>1, FS_Subset, FS_CardinalityType DEF StoredInv

\* What a request has in the span that ends now, its limiter has too.
LEMMA SpanIsKnown ==
  ASSUME IngestInv, NEW c \in Clients, post[c].id # 0
  PROVE  /\ Cardinality(Recent(post[c].hits)) \in Nat
         /\ Cardinality(InSpan(post[c].id, moment)) <= Cardinality(Recent(post[c].hits))
<1> DEFINE S == InSpan(post[c].id, moment)
           T == Recent(post[c].hits)
           f == [s \in S |-> <<s.index, s.at>>]
<1>1. IsFiniteSet(T)
  BY FS_Subset DEF Recent, IngestInv, PostShape
<1>2. ASSUME NEW s \in S
      PROVE  <<s.index, s.at>> \in T
  <2>1. s \in stored /\ s.by = post[c].id /\ s.at \in (moment - RateSpan + 1)..moment
    BY DEF InSpan
  <2>2. moment \in Nat /\ RateSpan \in Nat /\ s.at \in Nat
    BY <2>1, IngestAssumption DEF IngestInv, PostShape, StoredInv, StoredSound
  <2>3. <<s.index, s.at>> \in post[c].hits
    BY <2>1, <2>2 DEF IngestInv, LimiterInv
  <2> QED
    BY <2>1, <2>2, <2>3 DEF Recent
<1>3. \A s, u \in S : <<s.index, s.at>> = <<u.index, u.at>> => s = u
  BY DEF InSpan, IngestInv, StoredInv
<1> HIDE DEF S, T
<1>4. f \in Injection(S, T)
  BY <1>2, <1>3 DEF Injection, IsInjective
<1> HIDE DEF f
<1>5. Cardinality(S) <= Cardinality(T)
  BY <1>1, <1>4, FS_Injection
<1> QED
  BY <1>1, <1>5, FS_CardinalityType DEF S, T

LEMMA BeginStep ==
  ASSUME IngestInv, NEW c \in Clients, NEW single \in BOOLEAN, NEW events \in Seq(EventKind),
         Begin(c, single, events)
  PROVE  IngestInv'
<1> DEFINE new == [id |-> posts + 1, single |-> single, todo |-> events, ok |-> <<>>, hits |-> {}]
<1>1. /\ posts' = posts + 1 /\ moment' = moment /\ stored' = stored /\ post[c].id = 0
      /\ post' = [post EXCEPT ![c] = new]
  BY DEF Begin
<1>2. new \in [id: Nat, single: BOOLEAN, todo: Seq(EventKind), ok: Seq(BOOLEAN), hits: SUBSET (Nat \X Nat)]
  BY DEF IngestInv, PostShape
<1>3. new.id = posts + 1 /\ new.ok = <<>> /\ new.hits = {}
  OBVIOUS
<1> HIDE DEF new
<1>4. \A d \in Clients : post'[d] = IF d = c THEN new ELSE post[d]
  BY <1>1 DEF IngestInv, PostShape
<1>5. PostShape'
  <2>1. post' \in [Clients -> [id: Nat, single: BOOLEAN, todo: Seq(EventKind), ok: Seq(BOOLEAN),
                               hits: SUBSET (Nat \X Nat)]]
    BY <1>1, <1>2 DEF IngestInv, PostShape
  <2>2. \A d \in Clients : post[d].id \in Nat /\ post[d].id <= posts /\ posts \in Nat
    BY DEF IngestInv, PostShape
  <2>3. ASSUME NEW d \in Clients
        PROVE  IsFiniteSet(post'[d].hits) /\ post'[d].id <= posts' /\ (post'[d].todo # <<>> => post'[d].id # 0)
    <3>1. CASE d = c
      <4>1. post'[d].hits = {} /\ post'[d].id = posts' /\ posts' # 0 /\ posts' \in Nat
        BY <3>1, <1>1, <1>3, <1>4, <2>2
      <4> QED
        BY <4>1, FS_EmptySet
    <3>2. CASE d # c
      BY <3>2, <1>1, <1>4, <2>2 DEF IngestInv, PostShape
    <3> QED
      BY <3>1, <3>2
  <2>4. ASSUME NEW a \in Clients, NEW b \in Clients, post'[a].id = post'[b].id, post'[a].id # 0
        PROVE  a = b
    <3>1. CASE a = c \/ b = c
      BY <3>1, <1>3, <1>4, <2>2, <2>4
    <3>2. CASE a # c /\ b # c
      BY <3>2, <1>4, <2>4 DEF IngestInv, PostShape
    <3> QED
      BY <3>1, <3>2
  <2> QED
    BY <1>1, <2>1, <2>3, <2>4 DEF IngestInv, PostShape
<1>6. \A s \in stored : s.by \in 1..posts /\ s.by # posts + 1
  BY DEF IngestInv, PostShape, StoredInv, StoredSound
<1>7. StoredInv'
  BY <1>1 DEF IngestInv, PostShape, StoredInv, StoredSound
<1>8. AnsweredInv'
  <2>1. {i \in DOMAIN <<>> : <<>>[i]} = {}
    OBVIOUS
  <2>2. {s.index : s \in {s \in stored : s.by = posts + 1}} = {}
    BY <1>6
  <2>3. ASSUME NEW d \in Clients, post'[d].id # 0
        PROVE  {i \in DOMAIN post'[d].ok : post'[d].ok[i]} = {s.index : s \in {s \in stored : s.by = post'[d].id}}
    <3>1. CASE d = c
      BY <3>1, <1>3, <1>4, <2>1, <2>2, ZenonT(40)
    <3>2. CASE d # c
      BY <3>2, <2>3, <1>4 DEF IngestInv, AnsweredInv
    <3> QED
      BY <3>1, <3>2
  <2> QED
    BY <2>3, <1>1 DEF AnsweredInv
<1>9. LimiterInv'
  BY <1>1, <1>3, <1>4, <1>6 DEF IngestInv, LimiterInv
<1>10. RateInv'
  BY <1>1 DEF IngestInv, RateInv, InSpan
<1> QED
  BY <1>5, <1>7, <1>8, <1>9, <1>10 DEF IngestInv

LEMMA IngestStep ==
  ASSUME IngestInv, NEW c \in Clients, Ingest(c)
  PROVE  IngestInv'
<1> DEFINE p == post[c]
           e == Head(p.todo)
           within == WithinRate(p.hits)
           ok == within /\ Accepted(e)
           n == Len(p.ok) + 1
           hits == Recent(p.hits) \cup IF within THEN {<<n, moment>>} ELSE {}
           new == [event |-> e, stamp |-> Stamp(e), at |-> moment, by |-> p.id, index |-> n]
           q == [id |-> p.id, single |-> p.single, todo |-> Tail(p.todo), ok |-> Append(p.ok, ok), hits |-> hits]
<1>1. /\ p.todo # <<>> /\ moment' = moment /\ posts' = posts
      /\ post' = [post EXCEPT ![c] = q]
      /\ stored' = IF ok THEN stored \cup {new} ELSE stored
  BY DEF Ingest
<1>2. /\ p.id \in Nat /\ p.single \in BOOLEAN /\ p.todo \in Seq(EventKind) /\ p.ok \in Seq(BOOLEAN)
      /\ p.hits \in SUBSET (Nat \X Nat) /\ IsFiniteSet(p.hits)
      /\ p = [id |-> p.id, single |-> p.single, todo |-> p.todo, ok |-> p.ok, hits |-> p.hits]
      /\ moment \in Nat /\ posts \in Nat /\ p.id <= posts
  BY DEF IngestInv, PostShape
<1>4. n \in Nat \ {0} /\ within \in BOOLEAN /\ ok \in BOOLEAN /\ Tail(p.todo) \in Seq(EventKind)
  BY <1>1, <1>2 DEF WithinRate
<1>5. hits \in SUBSET (Nat \X Nat) /\ IsFiniteSet(hits)
  <2>1. Recent(p.hits) \subseteq p.hits /\ IsFiniteSet(Recent(p.hits))
    BY <1>2, FS_Subset DEF Recent
  <2>2. IsFiniteSet(Recent(p.hits) \cup {<<n, moment>>})
    BY <2>1, FS_AddElement
  <2>3. <<n, moment>> \in Nat \X Nat
    BY <1>2, <1>4
  <2> HIDE DEF within, n
  <2> QED
    BY <1>2, <2>1, <2>2, <2>3
<1>6. p.id # 0 /\ p.id \in 1..posts
  BY <1>1, <1>2 DEF IngestInv, PostShape
<1>7. q \in [id: Nat, single: BOOLEAN, todo: Seq(EventKind), ok: Seq(BOOLEAN), hits: SUBSET (Nat \X Nat)]
  <2>1. Append(p.ok, ok) \in Seq(BOOLEAN)
    BY <1>2, <1>4
  <2> HIDE DEF ok, hits, within, n
  <2> QED
    BY <1>2, <1>4, <1>5, <2>1
<1>8. /\ q.id = p.id /\ q.ok = Append(p.ok, ok) /\ q.hits = hits
  OBVIOUS
<1>9. /\ new.event = e /\ new.stamp = Stamp(e) /\ new.at = moment /\ new.by = p.id /\ new.index = n
  OBVIOUS
<1>10. ok => StoredSound(new)
  <2>1. ok => e.type = "page_view" /\ e.extra = "none"
    BY DEF Accepted, FieldsAllowed
  <2>2. ok => moment - Stamp(e) <= MaxAge /\ Stamp(e) - moment <= MaxAhead
    BY DEF Accepted, TimestampValid
  <2> HIDE DEF ok, new, n, e
  <2> QED
    BY <1>2, <1>4, <1>6, <1>9, <2>1, <2>2 DEF StoredSound
<1>11. \A s \in stored : s.by = p.id => s.index \in 1..Len(p.ok)
  <2>1. {i \in DOMAIN p.ok : p.ok[i]} = {s.index : s \in {s \in stored : s.by = p.id}}
    BY <1>6 DEF IngestInv, AnsweredInv
  <2>2. DOMAIN p.ok = 1..Len(p.ok)
    BY <1>2
  <2> QED
    BY <2>1, <2>2
<1>12. \A h \in p.hits : h[2] > moment - RateSpan => h \in hits
  BY DEF Recent
<1>13. ok => <<n, moment>> \in hits
  OBVIOUS
<1>14. within => Cardinality(Recent(p.hits)) < MaxPerRate
  BY DEF WithinRate
<1> HIDE DEF q, new, hits
<1>15. \A d \in Clients : post'[d] = IF d = c THEN q ELSE post[d]
  BY <1>1 DEF IngestInv, PostShape
<1>16. stored' = (IF ok THEN stored \cup {new} ELSE stored) /\ stored \subseteq stored'
  BY <1>1
<1>17. PostShape'
  <2>1. post' \in [Clients -> [id: Nat, single: BOOLEAN, todo: Seq(EventKind), ok: Seq(BOOLEAN),
                               hits: SUBSET (Nat \X Nat)]]
    BY <1>1, <1>7 DEF IngestInv, PostShape
  <2>2. \A d \in Clients : post'[d].id = post[d].id
    BY <1>8, <1>15
  <2>3. \A d \in Clients : IsFiniteSet(post'[d].hits)
    BY <1>5, <1>8, <1>15 DEF IngestInv, PostShape
  <2>4. \A d \in Clients : post'[d].todo # <<>> => post'[d].id # 0
    BY <1>6, <1>8, <1>15 DEF IngestInv, PostShape
  <2>5. \A d \in Clients : post'[d].id <= posts'
    BY <1>1, <2>2 DEF IngestInv, PostShape
  <2>6. \A a, b \in Clients : post'[a].id = post'[b].id /\ post'[a].id # 0 => a = b
    BY <2>2 DEF IngestInv, PostShape
  <2>7. moment' \in Nat /\ posts' \in Nat
    BY <1>1, <1>2
  <2> QED
    BY <2>1, <2>3, <2>4, <2>5, <2>6, <2>7 DEF PostShape
<1>18. StoredInv'
  <2>1. IsFiniteSet(stored')
    BY <1>16, FS_AddElement DEF IngestInv, StoredInv
  <2>2. \A s \in stored' : StoredSound(s)
    BY <1>10, <1>16 DEF IngestInv, StoredInv
  <2>3. \A s, u \in stored' : s.by = u.by /\ s.index = u.index => s = u
    <3>1. \A s \in stored : s.by = p.id => s.index # n
      BY <1>2, <1>11
    <3> HIDE DEF n
    <3> QED
      BY <1>9, <1>16, <3>1 DEF IngestInv, StoredInv
  <2> QED
    BY <1>1, <2>1, <2>2, <2>3 DEF StoredInv, StoredSound
<1>19. AnsweredInv'
  <2>1. \A d \in Clients : post[d].id # 0 /\ d # c => post[d].id # p.id
    BY DEF IngestInv, PostShape
  <2>2. ASSUME NEW d \in Clients, post'[d].id # 0
        PROVE  {i \in DOMAIN post'[d].ok : post'[d].ok[i]} = {s.index : s \in {s \in stored' : s.by = post'[d].id}}
    <3>1. CASE d # c
      <4>1. post'[d] = post[d] /\ post[d].id # p.id
        BY <3>1, <2>1, <2>2, <1>15
      <4>2. {s \in stored' : s.by = post[d].id} = {s \in stored : s.by = post[d].id}
        BY <4>1, <1>9, <1>16
      <4> QED
        BY <4>1, <4>2, <2>2 DEF IngestInv, AnsweredInv
    <3>2. CASE d = c
      <4>1. {i \in DOMAIN p.ok : p.ok[i]} = {s.index : s \in {s \in stored : s.by = p.id}}
        BY <1>6 DEF IngestInv, AnsweredInv
      <4>2. {s.index : s \in {s \in stored' : s.by = p.id}} =
              {s.index : s \in {s \in stored : s.by = p.id}} \cup IF ok THEN {n} ELSE {}
        <5> HIDE DEF n, ok
        <5> QED
          BY <1>9, <1>16
      <4>3. {i \in DOMAIN Append(p.ok, ok) : Append(p.ok, ok)[i]} =
              {i \in DOMAIN p.ok : p.ok[i]} \cup IF ok THEN {n} ELSE {}
        <5>1. DOMAIN Append(p.ok, ok) = 1..n /\ DOMAIN p.ok = 1..(n - 1)
          BY <1>2, <1>4
        <5>2. Append(p.ok, ok)[n] = ok /\ \A i \in 1..(n - 1) : Append(p.ok, ok)[i] = p.ok[i]
          BY <1>2, <1>4
        <5>3. \A i \in 1..n : i \in 1..(n - 1) \/ i = n
          BY <1>4
        <5>4. n \in 1..n /\ n \notin 1..(n - 1) /\ 1..(n - 1) \subseteq 1..n
          BY <1>4
        <5> HIDE DEF n, ok
        <5> QED
          BY <5>1, <5>2, <5>3, <5>4
      <4>4. post'[d].ok = Append(p.ok, ok) /\ post'[d].id = p.id
        BY <3>2, <1>8, <1>15
      <4> HIDE DEF p, ok, n
      <4> QED
        BY <4>1, <4>2, <4>3, <4>4
    <3> QED
      BY <3>1, <3>2
  <2> QED
    BY <2>2 DEF AnsweredInv
<1>20. LimiterInv'
  <2>1. ASSUME NEW d \in Clients, NEW s \in stored', post'[d].id # 0, s.by = post'[d].id
        PROVE  <<s.index, s.at>> \in post'[d].hits \/ s.at <= moment - RateSpan
    <3>1. CASE s \in stored /\ d # c
      BY <3>1, <2>1, <1>15 DEF IngestInv, LimiterInv
    <3>2. CASE s \in stored /\ d = c
      <4>1. s.by = p.id /\ post'[d].hits = hits
        BY <3>2, <2>1, <1>8, <1>15
      <4>2. <<s.index, s.at>> \in p.hits \/ s.at <= moment - RateSpan
        BY <3>2, <4>1, <1>6 DEF IngestInv, LimiterInv
      <4>3. s.at \in Nat /\ moment \in Nat /\ RateSpan \in Nat
        BY <3>2, <1>2, IngestAssumption DEF IngestInv, StoredInv, StoredSound
      <4> QED
        BY <4>1, <4>2, <4>3, <1>12
    <3>3. CASE s \notin stored
      <4>1. ok /\ s = new
        BY <3>3, <2>1, <1>16
      <4>2. d = c
        BY <4>1, <2>1, <1>6, <1>8, <1>9, <1>15 DEF IngestInv, PostShape
      <4> HIDE DEF n, ok
      <4> QED
        BY <4>1, <4>2, <1>8, <1>9, <1>13, <1>15
    <3> QED
      BY <3>1, <3>2, <3>3
  <2> QED
    BY <2>1, <1>1 DEF LimiterInv
<1>21. RateInv'
  <2>1. ASSUME NEW s \in stored'
        PROVE  Cardinality(InSpan(s.by, s.at)') <= MaxPerRate
    <3>1. InSpan(s.by, s.at)' = {t \in stored' : t.by = s.by /\ t.at \in (s.at - RateSpan + 1)..s.at}
      BY DEF InSpan
    <3>2. RateSpan \in Nat \ {0} /\ MaxPerRate \in Nat \ {0} /\ moment \in Nat
      BY <1>2, IngestAssumption
    <3>3. s.at \in Nat /\ s.at <= moment
      BY <1>1, <1>18 DEF StoredInv, StoredSound
    <3>4. CASE ok /\ s.by = p.id /\ s.at = moment
      <4>1. {t \in stored' : t.by = s.by /\ t.at \in (s.at - RateSpan + 1)..s.at} =
              InSpan(p.id, moment) \cup {new}
        <5>1. moment \in (moment - RateSpan + 1)..moment
          BY <3>2
        <5> QED
          BY <3>4, <5>1, <1>9, <1>16 DEF InSpan
      <4>2. Cardinality(InSpan(p.id, moment) \cup {new}) <= Cardinality(InSpan(p.id, moment)) + 1
        <5>1. IsFiniteSet(InSpan(p.id, moment)) /\ Cardinality(InSpan(p.id, moment)) \in Nat
          BY InSpanFinite DEF IngestInv
        <5>2. Cardinality(InSpan(p.id, moment) \cup {new}) =
                IF new \in InSpan(p.id, moment) THEN Cardinality(InSpan(p.id, moment))
                ELSE Cardinality(InSpan(p.id, moment)) + 1
          BY <5>1, FS_AddElement
        <5> QED
          BY <5>1, <5>2
      <4>3. /\ Cardinality(Recent(p.hits)) \in Nat
            /\ Cardinality(InSpan(p.id, moment)) <= Cardinality(Recent(p.hits))
        BY <1>6, SpanIsKnown
      <4>4. Cardinality(Recent(p.hits)) < MaxPerRate
        BY <3>4, <1>14
      <4>5. /\ Cardinality(InSpan(p.id, moment)) \in Nat
            /\ Cardinality(InSpan(p.id, moment) \cup {new}) \in Nat
        <5>1. IsFiniteSet(InSpan(p.id, moment)) /\ Cardinality(InSpan(p.id, moment)) \in Nat
          BY InSpanFinite DEF IngestInv
        <5>2. IsFiniteSet(InSpan(p.id, moment) \cup {new})
          BY <5>1, FS_AddElement
        <5> QED
          BY <5>1, <5>2, FS_CardinalityType
      <4> QED
        BY <3>1, <3>2, <4>1, <4>2, <4>3, <4>4, <4>5
    <3>5. CASE ~(ok /\ s.by = p.id /\ s.at = moment)
      <4>1. s \in stored
        BY <3>5, <1>9, <1>16
      <4>2. {t \in stored' : t.by = s.by /\ t.at \in (s.at - RateSpan + 1)..s.at} = InSpan(s.by, s.at)
        <5>1. ok => ~(new.by = s.by /\ new.at \in (s.at - RateSpan + 1)..s.at)
          BY <3>2, <3>3, <3>5, <1>9
        <5> HIDE DEF ok
        <5> QED
          BY <5>1, <1>16 DEF InSpan
      <4> QED
        BY <3>1, <4>1, <4>2 DEF IngestInv, RateInv
    <3> QED
      BY <3>4, <3>5
  <2> QED
    BY <2>1 DEF RateInv
<1> QED
  BY <1>17, <1>18, <1>19, <1>20, <1>21 DEF IngestInv

LEMMA ReplyStep ==
  ASSUME IngestInv, NEW c \in Clients, Reply(c)
  PROVE  IngestInv'
<1>1. post' = [post EXCEPT ![c] = NoPost] /\ UNCHANGED <<moment, posts, stored>>
  BY DEF Reply
<1>2. NoPost \in [id: Nat, single: BOOLEAN, todo: Seq(EventKind), ok: Seq(BOOLEAN), hits: SUBSET (Nat \X Nat)]
  BY DEF NoPost
<1>3. NoPost.id = 0 /\ NoPost.hits = {} /\ NoPost.todo = <<>>
  BY DEF NoPost
<1>4. \A d \in Clients : post'[d] = IF d = c THEN NoPost ELSE post[d]
  BY <1>1 DEF IngestInv, PostShape
<1>5. PostShape'
  <2>1. post' \in [Clients -> [id: Nat, single: BOOLEAN, todo: Seq(EventKind), ok: Seq(BOOLEAN),
                               hits: SUBSET (Nat \X Nat)]]
    BY <1>1, <1>2 DEF IngestInv, PostShape
  <2>2. \A d \in Clients : IsFiniteSet(post'[d].hits) /\ post'[d].id <= posts
                            /\ (post'[d].todo # <<>> => post'[d].id # 0)
    <3>1. IsFiniteSet(NoPost.hits) /\ \A d \in Clients : IsFiniteSet(post[d].hits)
      BY <1>3, FS_EmptySet DEF IngestInv, PostShape
    <3>2. \A d \in Clients : post[d].id <= posts /\ (post[d].todo # <<>> => post[d].id # 0)
      BY DEF IngestInv, PostShape
    <3>3. posts \in Nat
      BY DEF IngestInv, PostShape
    <3>4. NoPost.id <= posts /\ NoPost.todo = <<>>
      BY <1>3, <3>3
    <3> QED
      BY <1>4, <3>1, <3>2, <3>4
  <2>3. \A a, b \in Clients : post'[a].id = post'[b].id /\ post'[a].id # 0 => a = b
    BY <1>3, <1>4 DEF IngestInv, PostShape
  <2> QED
    BY <1>1, <2>1, <2>2, <2>3 DEF IngestInv, PostShape
<1>6. StoredInv' /\ RateInv'
  BY <1>1 DEF IngestInv, StoredInv, StoredSound, RateInv, InSpan
<1>7. AnsweredInv' /\ LimiterInv'
  BY <1>1, <1>3, <1>4 DEF IngestInv, AnsweredInv, LimiterInv
<1> QED
  BY <1>5, <1>6, <1>7 DEF IngestInv

\* A request is of a batch's length at most, and its limiter has one entry at most for
\* every event that was answered.
IngestBounds ==
  /\ moment <= MaxMoment /\ posts <= MaxPosts
  /\ \A c \in Clients : /\ Len(post[c].ok) + Len(post[c].todo) <= MaxEvents
                        /\ \A h \in post[c].hits : h[1] \in 1..Len(post[c].ok)
                        /\ \A g, h \in post[c].hits : g[1] = h[1] => g = h
  /\ \A s \in stored : s.event \in EventKind /\ s.index <= MaxEvents /\ s.index # 0

LEMMA IngestTypes == IngestInv /\ IngestBounds => IngestTypeOK
<1> SUFFICES ASSUME IngestInv, IngestBounds PROVE IngestTypeOK
  OBVIOUS
<1>1. ASSUME NEW c \in Clients PROVE Cardinality(post[c].hits) <= MaxEvents
  <2> DEFINE n == Len(post[c].ok)
             f == [h \in post[c].hits |-> h[1]]
  <2>1. /\ post[c].ok \in Seq(BOOLEAN) /\ post[c].todo \in Seq(EventKind) /\ MaxEvents \in Nat
    BY IngestAssumption DEF IngestInv, PostShape
  <2>2. n \in Nat /\ n <= MaxEvents
    <3>1. n \in Nat /\ Len(post[c].todo) \in Nat
      BY <2>1
    <3>2. n + Len(post[c].todo) <= MaxEvents
      BY DEF IngestBounds
    <3> HIDE DEF n
    <3> QED
      BY <2>1, <3>1, <3>2
  <2>3. \A h \in post[c].hits : h[1] \in 1..n
    BY DEF IngestBounds
  <2> HIDE DEF n
  <2>4. f \in Injection(post[c].hits, 1..n)
    BY <2>3 DEF IngestBounds, Injection, IsInjective
  <2> HIDE DEF f
  <2>5. IsFiniteSet(1..n) /\ Cardinality(1..n) = n
    BY <2>2, FS_Interval
  <2>6. Cardinality(post[c].hits) <= n
    BY <2>4, <2>5, FS_Injection
  <2>7. Cardinality(post[c].hits) \in Nat
    BY FS_CardinalityType DEF IngestInv, PostShape
  <2> QED
    BY <2>1, <2>2, <2>6, <2>7
<1>2. \A c \in Clients : Range(post[c].todo) \subseteq EventKind
  BY DEF IngestInv, PostShape, Range
<1>3. \A s \in stored : s.by \in 1..posts /\ s.index \in 1..MaxEvents /\ s.event \in EventKind
  BY IngestAssumption DEF IngestInv, IngestBounds, StoredInv, StoredSound
<1>4. moment \in 0..MaxMoment /\ posts \in 0..MaxPosts /\ \A c \in Clients : post[c].id \in 0..posts
  BY IngestAssumption DEF IngestInv, IngestBounds, PostShape
<1> QED
  BY <1>1, <1>2, <1>3, <1>4 DEF IngestTypeOK

LEMMA BeginBounds ==
  ASSUME IngestInv, IngestBounds, NEW c \in Clients, NEW single, NEW events,
         Len(events) <= MaxEvents, Len(events) \in Nat, Begin(c, single, events)
  PROVE  IngestBounds'
<1> DEFINE new == [id |-> posts + 1, single |-> single, todo |-> events, ok |-> <<>>, hits |-> {}]
<1>1. /\ posts' = posts + 1 /\ posts < MaxPosts /\ moment' = moment /\ stored' = stored
      /\ post' = [post EXCEPT ![c] = new]
  BY DEF Begin
<1>2. new.ok = <<>> /\ new.hits = {} /\ new.todo = events
  OBVIOUS
<1> HIDE DEF new
<1>3. \A d \in Clients : post'[d] = IF d = c THEN new ELSE post[d]
  BY <1>1 DEF IngestInv, PostShape
<1>4. Len(new.ok) + Len(new.todo) <= MaxEvents
  BY <1>2
<1>5. posts' <= MaxPosts
  BY <1>1, IngestAssumption DEF IngestInv, PostShape
<1> QED
  BY <1>1, <1>2, <1>3, <1>4, <1>5 DEF IngestBounds

LEMMA IngestBoundsKept ==
  ASSUME IngestInv, IngestBounds, [IngestNext]_ingestVars
  PROVE  IngestBounds'
<1>c. MaxEvents \in Nat \ {0} /\ MaxMoment \in Nat /\ Offered \subseteq EventKind
  BY IngestAssumption
<1>1. ASSUME NEW c \in Clients, IngestEvent(c)
      PROVE  IngestBounds'
  <2>1. PICK e \in Offered : Begin(c, TRUE, <<WithoutNull(e)>>)
    BY <1>1 DEF IngestEvent
  <2> DEFINE events == <<WithoutNull(e)>>
  <2>2. Len(events) = 1
    OBVIOUS
  <2>3. Begin(c, TRUE, events)
    BY <2>1
  <2> HIDE DEF events
  <2>4. Len(events) <= MaxEvents /\ Len(events) \in Nat
    BY <1>c, <2>2
  <2> QED
    BY <2>3, <2>4, BeginBounds
<1>2. ASSUME NEW c \in Clients, IngestBatch(c)
      PROVE  IngestBounds'
  <2>1. PICK n \in 1..MaxEvents : \E events \in [1..n -> Offered] : Begin(c, FALSE, events)
    BY <1>2 DEF IngestBatch
  <2>2. PICK events \in [1..n -> Offered] : Begin(c, FALSE, events)
    BY <2>1
  <2>3. Len(events) = n /\ n \in Nat /\ n <= MaxEvents
    BY <1>c, <2>2
  <2> QED
    BY <2>2, <2>3, BeginBounds
<1>3. ASSUME NEW c \in Clients, Ingest(c)
      PROVE  IngestBounds'
  <2> DEFINE p == post[c]
             n == Len(p.ok) + 1
  <2>1. PICK ok, hits, new, q :
          /\ p.todo # <<>> /\ UNCHANGED <<moment, posts>>
          /\ post' = [post EXCEPT ![c] = q]
          /\ q = [id |-> p.id, single |-> p.single, todo |-> Tail(p.todo), ok |-> Append(p.ok, ok),
                  hits |-> hits]
          /\ hits \in {Recent(p.hits), Recent(p.hits) \cup {<<n, moment>>}}
          /\ stored' \in {stored, stored \cup {new}}
          /\ new.event = Head(p.todo) /\ new.index = n
    <3> DEFINE within == WithinRate(p.hits)
               ok == within /\ Accepted(Head(p.todo))
               hits == Recent(p.hits) \cup IF within THEN {<<n, moment>>} ELSE {}
               new == [event |-> Head(p.todo), stamp |-> Stamp(Head(p.todo)), at |-> moment,
                       by |-> p.id, index |-> n]
               q == [id |-> p.id, single |-> p.single, todo |-> Tail(p.todo), ok |-> Append(p.ok, ok),
                     hits |-> hits]
    <3>1. /\ p.todo # <<>> /\ UNCHANGED <<moment, posts>>
          /\ post' = [post EXCEPT ![c] = q] /\ stored' \in {stored, stored \cup {new}}
      BY <1>3 DEF Ingest
    <3>2. hits \in {Recent(p.hits), Recent(p.hits) \cup {<<n, moment>>}}
      OBVIOUS
    <3>3. new.event = Head(p.todo) /\ new.index = n
      OBVIOUS
    <3>4. q = [id |-> p.id, single |-> p.single, todo |-> Tail(p.todo), ok |-> Append(p.ok, ok),
               hits |-> hits]
      OBVIOUS
    <3> HIDE DEF ok, hits, new, q
    <3> QED
      BY <3>1, <3>2, <3>3, <3>4
  <2>2. p.todo \in Seq(EventKind) /\ p.ok \in Seq(BOOLEAN) /\ Len(p.ok) + Len(p.todo) <= MaxEvents
    BY DEF IngestInv, PostShape, IngestBounds
  <2>3. /\ Len(p.ok) \in Nat /\ Len(p.todo) \in Nat \ {0} /\ n \in 1..MaxEvents /\ n - 1 = Len(p.ok)
        /\ Len(Tail(p.todo)) = Len(p.todo) - 1 /\ Head(p.todo) \in EventKind
    <3>1. p.todo \in Seq(EventKind) /\ p.todo # <<>>
      BY <2>1, <2>2
    <3>2. /\ Len(p.todo) \in Nat \ {0} /\ Len(Tail(p.todo)) = Len(p.todo) - 1
          /\ Head(p.todo) \in EventKind
      BY <3>1
    <3> DEFINE a == Len(p.ok)
               b == Len(p.todo)
    <3>3. a \in Nat
      BY <2>2
    <3>4. a + b <= MaxEvents /\ MaxEvents \in Nat
      BY <1>c, <2>2
    <3>5. b \in Nat \ {0} /\ Len(Tail(p.todo)) = b - 1
      BY <3>2
    <3> HIDE DEF a, b
    <3>6. a + 1 \in 1..MaxEvents /\ (a + 1) - 1 = a
      BY <3>3, <3>4, <3>5
    <3> QED
      BY <3>2, <3>3, <3>6 DEF a, b
  <2>4. Len(Append(p.ok, ok)) = n
    BY <2>2
  <2>5. q.todo = Tail(p.todo) /\ q.ok = Append(p.ok, ok) /\ q.hits = hits
    BY <2>1
  <2>6. \A d \in Clients : post'[d] = IF d = c THEN q ELSE post[d]
    BY <2>1 DEF IngestInv, PostShape
  <2>7. /\ \A h \in p.hits : h[1] \in 1..Len(p.ok)
        /\ \A g, h \in p.hits : g[1] = h[1] => g = h
    BY DEF IngestBounds
  <2>8. Recent(p.hits) \subseteq p.hits /\ \A h \in hits : h \in p.hits \/ h = <<n, moment>>
    BY <2>1 DEF Recent
  <2>x. n \in Nat \ {0} /\ n = Len(p.ok) + 1 /\ Len(p.ok) \in Nat
    BY <2>3
  <2>9. \A h \in hits : h[1] \in 1..n
    <3> HIDE DEF n, p
    <3> QED
      BY <2>x, <2>7, <2>8
  <2>10. \A g, h \in hits : g[1] = h[1] => g = h
    <3> HIDE DEF n, p
    <3>1. \A h \in p.hits : h[1] # n
      BY <2>x, <2>7
    <3> QED
      BY <3>1, <2>7, <2>8
  <2>11. Len(q.ok) + Len(q.todo) <= MaxEvents
    <3>1. Len(q.ok) = n /\ Len(q.todo) = Len(p.todo) - 1
      BY <2>3, <2>4, <2>5
    <3>2. Len(p.ok) + Len(p.todo) <= MaxEvents /\ Len(p.todo) \in Nat /\ MaxEvents \in Nat
      BY <1>c, <2>2, <2>3
    <3> DEFINE a == Len(p.ok)
               b == Len(p.todo)
               x == Len(q.ok)
               y == Len(q.todo)
    <3>3. a \in Nat /\ a + b <= MaxEvents /\ b \in Nat /\ y = b - 1
      BY <2>x, <3>1, <3>2
    <3>4. x = a + 1
      BY <3>1
    <3>5. MaxEvents \in Nat
      BY <3>2
    <3> HIDE DEF n, p, a, b, x, y
    <3>6. x + y <= MaxEvents
      BY <3>3, <3>4, <3>5
    <3> QED
      BY <3>6 DEF x, y
  <2>12. \A s \in stored' : s.event \in EventKind /\ s.index <= MaxEvents /\ s.index # 0
    BY <2>1, <2>3 DEF IngestBounds
  <2> HIDE DEF n
  <2>13. ASSUME NEW d \in Clients
         PROVE  /\ Len(post'[d].ok) + Len(post'[d].todo) <= MaxEvents
                /\ \A h \in post'[d].hits : h[1] \in 1..Len(post'[d].ok)
                /\ \A g, h \in post'[d].hits : g[1] = h[1] => g = h
    <3>1. CASE d = c
      <4>1. post'[d] = q /\ q.hits = hits /\ Len(q.ok) = n
        BY <3>1, <2>4, <2>5, <2>6
      <4> QED
        BY <4>1, <2>9, <2>10, <2>11
    <3>2. CASE d # c
      <4>1. post'[d] = post[d]
        BY <3>2, <2>6
      <4> QED
        BY <4>1 DEF IngestBounds
    <3> QED
      BY <3>1, <3>2
  <2> QED
    BY <2>1, <2>12, <2>13 DEF IngestBounds
<1>4. ASSUME NEW c \in Clients, Reply(c)
      PROVE  IngestBounds'
  <2>1. post' = [post EXCEPT ![c] = NoPost] /\ UNCHANGED <<moment, posts, stored>>
    BY <1>4 DEF Reply
  <2>2. \A d \in Clients : post'[d] = IF d = c THEN NoPost ELSE post[d]
    BY <2>1 DEF IngestInv, PostShape
  <2>3. NoPost.ok = <<>> /\ NoPost.todo = <<>> /\ NoPost.hits = {} /\ Len(<<>>) + Len(<<>>) <= MaxEvents
    BY <1>c DEF NoPost
  <2> QED
    BY <2>1, <2>2, <2>3 DEF IngestBounds
<1>5. CASE PassTime
  <2>1. moment' <= MaxMoment /\ UNCHANGED <<posts, post, stored>>
    BY <1>5, <1>c DEF PassTime, IngestInv, PostShape
  <2> QED
    BY <2>1 DEF IngestBounds
<1>6. CASE UNCHANGED ingestVars
  BY <1>6 DEF ingestVars, IngestBounds
<1> QED
  BY <1>1, <1>2, <1>3, <1>4, <1>5, <1>6 DEF IngestNext

\* What is stored passed the checks, is stored once and exactly when its answer says so,
\* and no span has more of a request than the limit, for every set of events and limits.
THEOREM IngestTheorem == IngestSpec => [](IngestTypeOK /\ IngestHonest)
<1>1. IngestInit => IngestInv
  <2> SUFFICES ASSUME IngestInit
               PROVE  IngestInv
    OBVIOUS
  <2>1. NoPost \in [id: Nat, single: BOOLEAN, todo: Seq(EventKind), ok: Seq(BOOLEAN), hits: SUBSET (Nat \X Nat)]
    BY DEF NoPost
  <2>2. PostShape
    BY <2>1, FS_EmptySet DEF IngestInit, PostShape, NoPost
  <2> QED
    BY <2>2, FS_EmptySet DEF IngestInit, IngestInv, StoredInv, AnsweredInv, LimiterInv, RateInv, NoPost
<1>2. IngestInv /\ [IngestNext]_ingestVars => IngestInv'
  <2> SUFFICES ASSUME IngestInv, [IngestNext]_ingestVars
               PROVE  IngestInv'
    OBVIOUS
  <2>1. ASSUME NEW c \in Clients, IngestEvent(c)
        PROVE  IngestInv'
    <3>1. PICK e \in Offered : Begin(c, TRUE, <<WithoutNull(e)>>)
      BY <2>1 DEF IngestEvent
    <3>2. WithoutNull(e) \in EventKind
      BY IngestAssumption DEF WithoutNull, EventKind
    <3>3. <<WithoutNull(e)>> \in Seq(EventKind)
      BY <3>2
    <3> QED
      BY <3>1, <3>3, BeginStep
  <2>2. ASSUME NEW c \in Clients, IngestBatch(c)
        PROVE  IngestInv'
    <3>1. PICK n \in 1..MaxEvents : \E events \in [1..n -> Offered] : Begin(c, FALSE, events)
      BY <2>2 DEF IngestBatch
    <3>2. PICK events \in [1..n -> Offered] : Begin(c, FALSE, events)
      BY <3>1
    <3>3. n \in Nat /\ Offered \subseteq EventKind
      BY IngestAssumption
    <3>4. events \in Seq(EventKind)
      BY <3>3
    <3> QED
      BY <3>2, <3>4, BeginStep
  <2>3. CASE PassTime
    <3>1. moment' = moment + 1 /\ UNCHANGED <<posts, post, stored>> /\ moment \in Nat
      BY <2>3 DEF PassTime, IngestInv, PostShape
    <3>2. PostShape' /\ StoredInv'
      BY <3>1 DEF IngestInv, PostShape, StoredInv, StoredSound
    <3>3. AnsweredInv' /\ RateInv'
      BY <3>1 DEF IngestInv, AnsweredInv, RateInv, InSpan
    <3>4. \A s \in stored : s.at \in Nat /\ RateSpan \in Nat
      BY IngestAssumption DEF IngestInv, StoredInv, StoredSound
    <3>5. LimiterInv'
      BY <3>1, <3>4, IngestAssumption DEF IngestInv, LimiterInv
    <3> QED
      BY <3>2, <3>3, <3>5 DEF IngestInv
  <2>4. CASE UNCHANGED ingestVars
    BY <2>4 DEF ingestVars, IngestInv, PostShape, StoredInv, StoredSound, AnsweredInv, LimiterInv, RateInv, InSpan
  <2> QED
    BY <2>1, <2>2, <2>3, <2>4, IngestStep, ReplyStep DEF IngestNext
<1>3. IngestInv => IngestHonest
  BY DEF IngestInv, StoredInv, StoredSound, AnsweredInv, RateInv, InSpan, IngestHonest
<1>4. IngestInit => IngestBounds
  BY IngestAssumption DEF IngestInit, IngestBounds, NoPost
<1> QED
  BY <1>1, <1>2, <1>3, <1>4, IngestTypes, IngestBoundsKept, PTL DEF IngestSpec

-----------------------------------------------------------------------------
(***************************************************************************)
(* Audit: every set of threads and hooks, every limit of a page.           *)
(***************************************************************************)
\* The entries that stand before e, and those a summary from start on is about.
Ahead(set, e) == {f \in set : Before(f, e)}
Since == {e \in log : e.stamp >= summary.start}
CountedAs(kind, todo) ==
  {e \in Since : <<kind, e.hook[IF kind = "action" THEN 1 ELSE 2]>> \in todo}
Passed(kind, todo) == Since \ CountedAs(kind, todo)

AllParts == Parts("action") \cup Parts("type") \cup Parts("total")

Entry(e) == e.stamp \in Nat /\ e.order \in Nat /\ e.hook \in HooksUsed

AuditShape ==
  /\ IsFiniteSet(log) /\ \A e \in log : Entry(e)
  /\ latest \in Nat
  /\ \A t \in Loggers : unsaved[t] # NoEntry => unsaved[t].stamp \in Nat /\ unsaved[t].hook \in HooksUsed
  /\ walk \in [on: BOOLEAN, type: {"any", "content"}, offset: Nat, seen: SUBSET log,
               first: SUBSET log, total: {0, 1}]
  /\ summary \in [at: {"none", "action", "type", "total", "done"}, todo: SUBSET AllParts,
                  start: Nat, action: Nat, type: Nat, total: Nat]

\* An entry of the first page's log is either seen or stands behind all pages turned.
WalkInv ==
  /\ ~walk.on => walk.offset = 0 /\ walk.seen = {} /\ walk.first = {} /\ walk.total = 0
  /\ walk.first \subseteq OfType(walk.type)
  /\ \A e \in walk.first :
       e \in walk.seen \/ Cardinality(Ahead(OfType(walk.type), e)) >= walk.offset

\* What a part of the summary has counted is still there for the parts after it.
SummaryInv ==
  /\ summary.at = "action" =>
       /\ summary.todo \subseteq Parts("action")
       /\ summary.action <= Cardinality(Passed("action", summary.todo))
       /\ summary.type = 0 /\ summary.total = 0 /\ summary.todo # {}
  /\ summary.at = "type" =>
       /\ summary.todo \subseteq Parts("type") /\ summary.todo # {}
       /\ summary.action <= summary.type + Cardinality(CountedAs("type", summary.todo))
       /\ summary.type <= Cardinality(Passed("type", summary.todo))
       /\ summary.total = 0
  /\ summary.at = "total" =>
       /\ summary.todo = {<<"total", "all">>} /\ summary.total = 0
       /\ summary.action <= summary.type /\ summary.type <= Cardinality(Since)
  /\ summary.at = "done" => summary.action <= summary.type /\ summary.type <= summary.total

AuditInv == AuditShape /\ WalkInv /\ SummaryInv

LEMMA DisjointCount ==
  ASSUME NEW S, NEW T, IsFiniteSet(S), IsFiniteSet(T), S \cap T = {}
  PROVE  Cardinality(S \cup T) = Cardinality(S) + Cardinality(T)
<1>1. Cardinality(S \cap T) = 0
  BY FS_EmptySet
<1>2. Cardinality(S \cup T) = Cardinality(S) + Cardinality(T) - Cardinality(S \cap T)
  BY FS_Union
<1>3. Cardinality(S) \in Nat /\ Cardinality(T) \in Nat
  BY FS_CardinalityType
<1> QED
  BY <1>1, <1>2, <1>3

LEMMA RecentFinite ==
  ASSUME AuditShape
  PROVE  /\ IsFiniteSet(Since) /\ Cardinality(Since) \in Nat
         /\ \A kind, todo :
              /\ IsFiniteSet(CountedAs(kind, todo)) /\ Cardinality(CountedAs(kind, todo)) \in Nat
              /\ IsFiniteSet(Passed(kind, todo)) /\ Cardinality(Passed(kind, todo)) \in Nat
              /\ Cardinality(CountedAs(kind, todo)) <= Cardinality(Since)
              /\ Cardinality(Passed(kind, todo)) <= Cardinality(Since)
<1>1. IsFiniteSet(log) /\ Since \subseteq log
  BY DEF AuditShape, Since
<1>2. IsFiniteSet(Since)
  BY <1>1, SubsetCount
<1>3. \A kind, todo : CountedAs(kind, todo) \subseteq Since /\ Passed(kind, todo) \subseteq Since
  BY DEF CountedAs, Passed
<1> HIDE DEF CountedAs, Passed, Since
<1> QED
  BY <1>2, <1>3, SubsetCount

\* A part is counted once: it leaves what is to be counted for what was passed.
LEMMA PartMoves ==
  ASSUME AuditShape, NEW kind, NEW todo, NEW p \in todo
  PROVE  /\ Cardinality(CountedAs(kind, todo)) =
              Cardinality(CountedAs(kind, todo \ {p})) + Cardinality(CountedAs(kind, {p}))
         /\ Cardinality(Passed(kind, todo \ {p})) =
              Cardinality(Passed(kind, todo)) + Cardinality(CountedAs(kind, {p}))
<1>1. /\ CountedAs(kind, todo) = CountedAs(kind, todo \ {p}) \cup CountedAs(kind, {p})
      /\ CountedAs(kind, todo \ {p}) \cap CountedAs(kind, {p}) = {}
      /\ Passed(kind, todo \ {p}) = Passed(kind, todo) \cup CountedAs(kind, {p})
      /\ Passed(kind, todo) \cap CountedAs(kind, {p}) = {}
  BY DEF CountedAs, Passed
<1> QED
  BY <1>1, RecentFinite, DisjointCount

LEMMA CountedIsPart ==
  ASSUME NEW kind \in {"action", "type"}, NEW x
  PROVE  Counted(<<kind, x>>) = Cardinality(CountedAs(kind, {<<kind, x>>}))
<1>1. {e \in log : /\ e.stamp >= summary.start
                   /\ <<kind, x>> \in {<<"action", e.hook[1]>>, <<"type", e.hook[2]>>, <<"total", "all">>}}
      = CountedAs(kind, {<<kind, x>>})
  BY DEF CountedAs, Since
<1> QED
  BY <1>1 DEF Counted

LEMMA CountedIsTotal == Counted(<<"total", "all">>) = Cardinality(Since)
<1>1. {e \in log : /\ e.stamp >= summary.start
                   /\ <<"total", "all">> \in {<<"action", e.hook[1]>>, <<"type", e.hook[2]>>, <<"total", "all">>}}
      = Since
  BY DEF Since
<1> QED
  BY <1>1 DEF Counted

LEMMA PartsFacts ==
  /\ Parts("action") = {<<"action", h[1]>> : h \in HooksUsed}
  /\ Parts("type") = {<<"type", h[2]>> : h \in HooksUsed}
  /\ Parts("total") = {<<"total", "all">>}
  /\ Parts("action") # {} /\ Parts("type") # {}
  /\ \A kind \in {"action", "type", "total"} : Parts(kind) \subseteq AllParts
<1>1. Parts("action") = {<<"action", h[1]>> : h \in HooksUsed}
  BY DEF Parts
<1>2. Parts("type") = {<<"type", h[2]>> : h \in HooksUsed}
  BY DEF Parts
<1>3. Parts("total") = {<<"total", "all">>}
  BY DEF Parts
<1>4. HooksUsed # {}
  BY AuditAssumption
<1>5. \A kind \in {"action", "type", "total"} : Parts(kind) \subseteq AllParts
  BY Zenon DEF AllParts
<1>6. Parts("action") # {}
  BY <1>1, <1>4
<1>7. Parts("type") # {}
  BY <1>2, <1>4
<1> QED
  BY <1>1, <1>2, <1>3, <1>5, <1>6, <1>7

LEMMA AllTypesCounted ==
  ASSUME AuditShape
  PROVE  CountedAs("type", Parts("type")) = Since
BY PartsFacts DEF AuditShape, Entry, CountedAs, Since

LEMMA NothingCounted == CountedAs("type", {}) = {} /\ Passed("type", Parts("type")) \subseteq Since
BY DEF CountedAs, Passed

\* A longer log has no page earlier.
LEMMA SaveEntryStep ==
  ASSUME AuditInv, NEW t \in Loggers, SaveEntry(t)
  PROVE  AuditInv'
<1> DEFINE e == [stamp |-> unsaved[t].stamp, hook |-> unsaved[t].hook, order |-> Cardinality(log) + 1]
<1>1. /\ log' = log \cup {e} /\ unsaved' = [unsaved EXCEPT ![t] = NoEntry]
      /\ UNCHANGED <<latest, walk, summary>> /\ unsaved[t] # NoEntry
  BY DEF SaveEntry, Writing
<1>2. Entry(e)
  BY <1>1, FS_CardinalityType DEF AuditInv, AuditShape, Entry
<1>3. IsFiniteSet(log') /\ log \subseteq log'
  BY <1>1, FS_AddElement DEF AuditInv, AuditShape
<1>4. AuditShape'
  <2>1. \A d \in log' : Entry(d)
    BY <1>1, <1>2 DEF AuditInv, AuditShape
  <2>2. (\A a \in Loggers : unsaved[a] # NoEntry => unsaved[a].stamp \in Nat /\ unsaved[a].hook \in HooksUsed)'
    BY <1>1 DEF AuditInv, AuditShape
  <2>3. walk' \in [on: BOOLEAN, type: {"any", "content"}, offset: Nat, seen: SUBSET log',
                   first: SUBSET log', total: {0, 1}]
    BY <1>1, <1>3 DEF AuditInv, AuditShape
  <2> QED
    BY <1>1, <1>3, <2>1, <2>2, <2>3 DEF AuditInv, AuditShape, Entry
<1>5. WalkInv'
  <2>1. OfType(walk.type) \subseteq OfType(walk.type)'
    BY <1>1 DEF OfType
  <2>2. IsFiniteSet(OfType(walk.type)')
    BY <1>1, <1>3, FS_Subset DEF OfType
  <2>3. \A d : Ahead(OfType(walk.type), d) \subseteq Ahead(OfType(walk.type), d)'
    BY <2>1 DEF Ahead, Before
  <2>4. \A d : Ahead(OfType(walk.type), d)' \subseteq OfType(walk.type)'
    BY DEF Ahead
  <2>5. \A d : IsFiniteSet(Ahead(OfType(walk.type), d)')
    BY <2>2, <2>4, FS_Subset
  <2>6. ASSUME NEW d
        PROVE  /\ Cardinality(Ahead(OfType(walk.type), d)) \in Nat
               /\ Cardinality(Ahead(OfType(walk.type), d)') \in Nat
               /\ Cardinality(Ahead(OfType(walk.type), d)) <= Cardinality(Ahead(OfType(walk.type), d)')
    BY <2>3, <2>5, SubsetCount
  <2>7. walk' = walk /\ walk.offset \in Nat
    BY <1>1 DEF AuditInv, AuditShape
  <2> HIDE DEF Ahead, OfType
  <2>8. \A d \in walk.first : d \in walk.seen \/ Cardinality(Ahead(OfType(walk.type), d)') >= walk.offset
    BY <2>6, <2>7 DEF AuditInv, WalkInv
  <2> QED
    BY <2>1, <2>7, <2>8 DEF AuditInv, WalkInv
<1>6. SummaryInv'
  <2>1. Since \subseteq Since' /\ summary' = summary
    BY <1>1 DEF Since
  <2>2. \A kind, todo : /\ CountedAs(kind, todo) \subseteq CountedAs(kind, todo)'
                        /\ Passed(kind, todo) \subseteq Passed(kind, todo)'
    BY <2>1 DEF CountedAs, Passed
  <2>3. /\ IsFiniteSet(Since')
        /\ \A kind, todo : IsFiniteSet(CountedAs(kind, todo)') /\ IsFiniteSet(Passed(kind, todo)')
    <3>1. IsFiniteSet(Since')
      BY <1>3, FS_Subset DEF Since
    <3>2. \A kind, todo : CountedAs(kind, todo)' \subseteq Since' /\ Passed(kind, todo)' \subseteq Since'
      BY DEF CountedAs, Passed
    <3> QED
      BY <3>1, <3>2, FS_Subset
  <2>4. /\ Cardinality(Since) \in Nat /\ Cardinality(Since') \in Nat
        /\ Cardinality(Since) <= Cardinality(Since')
    BY <2>1, <2>3, SubsetCount
  <2>5. ASSUME NEW kind, NEW todo
        PROVE  /\ Cardinality(CountedAs(kind, todo)) \in Nat /\ Cardinality(CountedAs(kind, todo)') \in Nat
               /\ Cardinality(CountedAs(kind, todo)) <= Cardinality(CountedAs(kind, todo)')
               /\ Cardinality(Passed(kind, todo)) \in Nat /\ Cardinality(Passed(kind, todo)') \in Nat
               /\ Cardinality(Passed(kind, todo)) <= Cardinality(Passed(kind, todo)')
    BY <2>2, <2>3, SubsetCount
  <2>6. summary.action \in Nat /\ summary.type \in Nat /\ summary.total \in Nat
    BY DEF AuditInv, AuditShape
  <2> HIDE DEF Since, CountedAs, Passed
  <2>7. summary.at = "action" => summary.action <= Cardinality(Passed("action", summary.todo)')
    BY <2>1, <2>5, <2>6 DEF AuditInv, SummaryInv
  <2>8. summary.at = "type" =>
          /\ summary.action <= summary.type + Cardinality(CountedAs("type", summary.todo)')
          /\ summary.type <= Cardinality(Passed("type", summary.todo)')
    BY <2>1, <2>5, <2>6 DEF AuditInv, SummaryInv
  <2>9. summary.at = "total" => summary.type <= Cardinality(Since')
    BY <2>1, <2>4, <2>6 DEF AuditInv, SummaryInv
  <2> QED
    BY <2>1, <2>7, <2>8, <2>9 DEF AuditInv, SummaryInv, Parts
<1> QED
  BY <1>4, <1>5, <1>6 DEF AuditInv

LEMMA LogActionStep ==
  ASSUME AuditInv, NEW t \in Loggers, LogAction(t)
  PROVE  AuditInv'
<1>1. PICK h \in HooksUsed : unsaved' = [unsaved EXCEPT ![t] = [stamp |-> latest', hook |-> h]]
  BY DEF LogAction
<1>2. latest' \in Nat /\ UNCHANGED <<log, walk, summary>>
  BY DEF LogAction, AuditInv, AuditShape
<1>3. AuditShape'
  BY <1>1, <1>2 DEF AuditInv, AuditShape, Entry
<1>4. WalkInv'
  BY <1>2 DEF AuditInv, WalkInv, OfType, Ahead, Before
<1>5. SummaryInv'
  BY <1>2 DEF AuditInv, SummaryInv, Passed, CountedAs, Since, Parts
<1> QED
  BY <1>3, <1>4, <1>5 DEF AuditInv

\* Turning a page: what the page shows is what stood where the page begins.
LEMMA TurnPageStep ==
  ASSUME AuditInv, TurnPage
  PROVE  AuditInv'
<1>1. PICK type \in {"any", "content"} :
        /\ walk.total = 0 /\ (walk.on => walk.type = type)
        /\ walk' = [on |-> TRUE, type |-> type, offset |-> walk.offset + PageLimit, total |-> 1,
                    seen |-> walk.seen \cup Page(OfType(type), walk.offset),
                    first |-> IF walk.on THEN walk.first ELSE OfType(type)]
        /\ UNCHANGED <<log, latest, unsaved, summary>>
  BY DEF TurnPage
<1> DEFINE set == OfType(type)
           first == IF walk.on THEN walk.first ELSE set
<1>2. set \subseteq log /\ Page(set, walk.offset) \subseteq set /\ first \subseteq set
  BY <1>1 DEF AuditInv, WalkInv, OfType, Page
<1>3. walk.offset \in Nat /\ PageLimit \in Nat \ {0} /\ walk.seen \subseteq log
  BY AuditAssumption DEF AuditInv, AuditShape
<1>4. IsFiniteSet(set) /\ \A e : Ahead(set, e) \subseteq set
  BY <1>2, FS_Subset DEF AuditInv, AuditShape, Ahead
<1> HIDE DEF set
<1>5. \A e : Cardinality(Ahead(set, e)) \in Nat
  BY <1>4, SubsetCount
<1>6. ASSUME NEW e \in first
      PROVE  e \in walk.seen \cup Page(set, walk.offset)
               \/ Cardinality(Ahead(set, e)) >= walk.offset + PageLimit
  <2>1. e \in walk.seen \/ Cardinality(Ahead(set, e)) >= walk.offset
    <3>1. CASE walk.on
      BY <3>1, <1>1 DEF AuditInv, WalkInv, set
    <3>2. CASE ~walk.on
      BY <3>2, <1>3, <1>5 DEF AuditInv, WalkInv
    <3> QED
      BY <3>1, <3>2
  <2>2. CASE Cardinality(Ahead(set, e)) \in walk.offset..(walk.offset + PageLimit - 1)
    BY <2>2, <1>2 DEF Page, Ahead
  <2> QED
    BY <2>1, <2>2, <1>3, <1>5
<1>7. AuditShape'
  <2>1. walk' \in [on: BOOLEAN, type: {"any", "content"}, offset: Nat, seen: SUBSET log,
                   first: SUBSET log, total: {0, 1}]
    <3>1. walk.seen \cup Page(set, walk.offset) \subseteq log /\ first \subseteq log
      BY <1>2, <1>3
    <3> HIDE DEF first
    <3> QED
      BY <3>1, <1>1, <1>3 DEF set, first
  <2> QED
    BY <1>1, <2>1 DEF AuditInv, AuditShape, Entry
<1>8. WalkInv'
  <2>1. /\ walk'.on /\ walk'.type = type /\ walk'.offset = walk.offset + PageLimit
        /\ walk'.seen = walk.seen \cup Page(set, walk.offset) /\ walk'.first = first
    BY <1>1 DEF set
  <2>4. OfType(walk.type)' = set /\ \A e : Ahead(OfType(walk.type), e)' = Ahead(set, e)
    <3>1. log' = log
      BY <1>1
    <3>2. OfType(walk.type)' = set
      BY <2>1, <3>1 DEF set, OfType
    <3> QED
      BY <3>2 DEF Ahead, Before
  <2> HIDE DEF first
  <2> QED
    BY <2>1, <2>4, <1>2, <1>6 DEF WalkInv
<1>9. SummaryInv'
  BY <1>1 DEF AuditInv, SummaryInv, Passed, CountedAs, Since, Parts
<1> QED
  BY <1>7, <1>8, <1>9 DEF AuditInv

LEMMA CountPageStep ==
  ASSUME AuditInv, CountPage
  PROVE  AuditInv'
<1>1. UNCHANGED <<log, latest, unsaved, summary>> /\ (walk' = [walk EXCEPT !.total = 0] \/ walk' = NoWalk)
  BY DEF CountPage
<1>2. AuditShape'
  <2>1. NoWalk \in [on: BOOLEAN, type: {"any", "content"}, offset: Nat, seen: SUBSET log,
                     first: SUBSET log, total: {0, 1}]
    BY DEF NoWalk
  <2>2. [walk EXCEPT !.total = 0] \in [on: BOOLEAN, type: {"any", "content"}, offset: Nat, seen: SUBSET log,
                     first: SUBSET log, total: {0, 1}]
    BY DEF AuditInv, AuditShape
  <2> QED
    BY <1>1, <2>1, <2>2 DEF AuditInv, AuditShape, Entry
<1>3. WalkInv'
  <2>1. CASE walk' = [walk EXCEPT !.total = 0]
    <3>1. /\ walk'.on = walk.on /\ walk'.type = walk.type /\ walk'.offset = walk.offset
          /\ walk'.seen = walk.seen /\ walk'.first = walk.first /\ walk'.total = 0
      BY <2>1 DEF AuditInv, AuditShape
    <3> QED
      BY <3>1, <1>1 DEF AuditInv, WalkInv, OfType, Ahead, Before
  <2>2. CASE walk' = NoWalk
    BY <2>2 DEF WalkInv, NoWalk
  <2> QED
    BY <1>1, <2>1, <2>2
<1>4. SummaryInv'
  BY <1>1 DEF AuditInv, SummaryInv, Passed, CountedAs, Since, Parts
<1> QED
  BY <1>2, <1>3, <1>4 DEF AuditInv

LEMMA BeginSummaryStep ==
  ASSUME AuditInv, BeginSummary
  PROVE  AuditInv'
<1>1. PICK start \in 0..latest :
        summary' = [NoSummary EXCEPT !.at = "action", !.todo = Parts("action"), !.start = start]
  BY DEF BeginSummary
<1>2. UNCHANGED <<log, latest, unsaved, walk>>
  BY DEF BeginSummary
<1>3. summary' = [at |-> "action", todo |-> Parts("action"), start |-> start,
                  action |-> 0, type |-> 0, total |-> 0]
  BY <1>1 DEF NoSummary
<1>4. start \in Nat
  BY DEF AuditInv, AuditShape
<1>5. AuditShape'
  BY <1>2, <1>3, <1>4, PartsFacts DEF AuditInv, AuditShape, Entry
<1>6. WalkInv'
  BY <1>2 DEF AuditInv, WalkInv, OfType, Ahead, Before
<1>7. SummaryInv'
  <2>1. Cardinality(Passed("action", summary.todo)') \in Nat
    <3>1. Passed("action", summary.todo)' \subseteq log' /\ IsFiniteSet(log')
      BY <1>5 DEF Passed, Since, AuditShape
    <3> QED
      BY <3>1, SubsetCount
  <2> QED
    BY <1>3, <2>1, PartsFacts DEF SummaryInv, Parts
<1> QED
  BY <1>5, <1>6, <1>7 DEF AuditInv

LEMMA CountOneStep ==
  ASSUME AuditInv, CountOne
  PROVE  AuditInv'
<1> DEFINE part == CHOOSE part \in summary.todo : TRUE
           todo == summary.todo \ {part}
           n == Counted(part)
<1>1. /\ UNCHANGED <<log, latest, unsaved, walk>>
      /\ summary.at \in {"action", "type", "total"}
      /\ summary' = [summary EXCEPT ![summary.at] = @ + n,
                       !.at = IF todo # {} THEN @ ELSE After[summary.at],
                       !.todo = IF todo # {} \/ After[summary.at] = "done" THEN todo ELSE Parts(After[summary.at])]
  BY DEF CountOne, After
<1>2. summary.todo # {} /\ summary.todo \subseteq Parts(summary.at)
  BY <1>1, PartsFacts DEF AuditInv, SummaryInv
<1>3. part \in summary.todo
  BY <1>2
<1>4. n \in Nat
  <2>1. IsFiniteSet(log)
    BY DEF AuditInv, AuditShape
  <2>2. \A S : S \subseteq log => Cardinality(S) \in Nat
    BY <2>1, SubsetCount
  <2>3. {e \in log : /\ e.stamp >= summary.start
                     /\ part \in {<<"action", e.hook[1]>>, <<"type", e.hook[2]>>, <<"total", "all">>}} \subseteq log
    OBVIOUS
  <2> HIDE DEF part
  <2> QED
    BY <2>2, <2>3 DEF Counted
<1> HIDE DEF part, n
<1>5. /\ summary.at \in {"none", "action", "type", "total", "done"}
      /\ summary.todo \subseteq AllParts /\ summary.start \in Nat
      /\ summary.action \in Nat /\ summary.type \in Nat /\ summary.total \in Nat
      /\ summary = [at |-> summary.at, todo |-> summary.todo, start |-> summary.start,
                    action |-> summary.action, type |-> summary.type, total |-> summary.total]
  BY DEF AuditInv, AuditShape
<1>6. WalkInv'
  BY <1>1 DEF AuditInv, WalkInv, OfType, Ahead, Before
<1>7. /\ After["action"] = "type" /\ After["type"] = "total" /\ After["total"] = "done"
  BY DEF After
<1>8. todo \subseteq AllParts
  BY <1>5
<1>9. AuditShape => /\ Cardinality(Since) \in Nat
                    /\ Cardinality(Passed(summary.at, todo)) <= Cardinality(Since)
  BY RecentFinite
<1>10. /\ Since' = { e \in log : e.stamp >= summary'.start }
       /\ log' = log
  BY <1>1 DEF Since
<1>11. ASSUME NEW at \in {"action", "type", "total", "done"}, NEW left \in SUBSET AllParts,
              NEW action \in Nat, NEW type \in Nat, NEW total \in Nat,
              summary' = [at |-> at, todo |-> left, start |-> summary.start,
                          action |-> action, type |-> type, total |-> total]
       PROVE  /\ AuditShape'
              /\ summary'.at = at /\ summary'.todo = left /\ summary'.action = action
              /\ summary'.type = type /\ summary'.total = total
              /\ Since' = Since
              /\ \A kind, some : CountedAs(kind, some)' = CountedAs(kind, some)
              /\ \A kind, some : Passed(kind, some)' = Passed(kind, some)
  <2>1. summary' \in [at: {"none", "action", "type", "total", "done"}, todo: SUBSET AllParts,
                      start: Nat, action: Nat, type: Nat, total: Nat]
    BY <1>5, <1>11
  <2>2. AuditShape'
    BY <1>1, <2>1 DEF AuditInv, AuditShape, Entry
  <2>3. summary'.start = summary.start
    BY <1>11
  <2>4. Since' = Since
    BY <2>3, <1>10 DEF Since
  <2>5. \A kind, some : CountedAs(kind, some)' = CountedAs(kind, some)
    BY <2>4 DEF CountedAs
  <2>6. \A kind, some : Passed(kind, some)' = Passed(kind, some)
    BY <2>4, <2>5 DEF Passed
  <2> QED
    BY <2>2, <2>4, <2>5, <2>6, <1>11
<1>12. ASSUME NEW kind \in {"action", "type"}, summary.at = kind
       PROVE  /\ Cardinality(Passed(kind, todo)) = Cardinality(Passed(kind, summary.todo)) + n
              /\ Cardinality(CountedAs(kind, summary.todo)) = Cardinality(CountedAs(kind, todo)) + n
              /\ \A k, some : Cardinality(Passed(k, some)) \in Nat /\ Cardinality(CountedAs(k, some)) \in Nat
  <2>1. PICK x : part = <<kind, x>>
    BY <1>2, <1>3, <1>12, PartsFacts
  <2>2. n = Cardinality(CountedAs(kind, {part}))
    BY <2>1, CountedIsPart DEF n
  <2>3. AuditShape
    BY DEF AuditInv
  <2>4. Cardinality(CountedAs(kind, {part})) \in Nat
    BY <1>4, <2>2
  <2>5. \A k, some : Cardinality(Passed(k, some)) \in Nat /\ Cardinality(CountedAs(k, some)) \in Nat
    BY <2>3, RecentFinite
  <2>6. part \in summary.todo
    BY <1>3
  <2>7. /\ Cardinality(CountedAs(kind, summary.todo))
             = Cardinality(CountedAs(kind, todo)) + Cardinality(CountedAs(kind, {part}))
        /\ Cardinality(Passed(kind, todo))
             = Cardinality(Passed(kind, summary.todo)) + Cardinality(CountedAs(kind, {part}))
    BY <2>3, <2>6, PartMoves
  <2>8. /\ Cardinality(Passed(kind, todo)) = Cardinality(Passed(kind, summary.todo)) + n
        /\ Cardinality(CountedAs(kind, summary.todo)) = Cardinality(CountedAs(kind, todo)) + n
    BY <2>2, <2>7
  <2> QED
    BY <2>5, <2>8
<1>13. Cardinality(Since) \in Nat /\ Cardinality(Passed(summary.at, todo)) <= Cardinality(Since)
  BY <1>9 DEF AuditInv
<1>14. CASE summary.at = "action"
  <2>1. CASE todo # {}
    <3>1. summary' = [at |-> "action", todo |-> todo, start |-> summary.start,
                      action |-> summary.action + n, type |-> summary.type, total |-> summary.total]
      BY <1>1, <1>5, <1>14, <2>1
    <3>2. summary.action + n <= Cardinality(Passed("action", todo))
      BY <1>4, <1>5, <1>12, <1>14 DEF AuditInv, SummaryInv
    <3>3. AuditShape' /\ SummaryInv'
      BY <3>1, <3>2, <2>1, <1>2, <1>4, <1>5, <1>8, <1>11, <1>14 DEF AuditInv, SummaryInv, Parts
    <3> QED
      BY <3>3, <1>6 DEF AuditInv
  <2>2. CASE todo = {}
    <3>1. summary' = [at |-> "type", todo |-> Parts("type"), start |-> summary.start,
                      action |-> summary.action + n, type |-> summary.type, total |-> summary.total]
      BY <1>1, <1>5, <1>7, <1>14, <2>2
    <3>2. summary.action + n <= Cardinality(Passed("action", todo))
      BY <1>4, <1>5, <1>12, <1>14 DEF AuditInv, SummaryInv
    <3>3. summary.action + n <= Cardinality(Since)
      BY <3>2, <1>4, <1>5, <1>12, <1>13, <1>14
    <3>4. CountedAs("type", Parts("type")) = Since /\ Cardinality(Passed("type", Parts("type"))) \in Nat
      BY AllTypesCounted, RecentFinite DEF AuditInv
    <3>5. summary.type = 0 /\ summary.total = 0
      BY <1>14 DEF AuditInv, SummaryInv
    <3>6. Parts("type") \subseteq AllParts /\ Parts("type") # {} /\ Parts("type")' = Parts("type")
      BY PartsFacts DEF Parts
    <3>7. AuditShape' /\ SummaryInv'
      BY <3>1, <3>3, <3>4, <3>5, <3>6, <1>4, <1>5, <1>11, <1>13 DEF SummaryInv
    <3> QED
      BY <3>7, <1>6 DEF AuditInv
  <2> QED
    BY <2>1, <2>2
<1>15. CASE summary.at = "type"
  <2>1. /\ summary.action <= (summary.type + n) + Cardinality(CountedAs("type", todo))
        /\ summary.type + n <= Cardinality(Passed("type", todo))
        /\ summary.type + n <= Cardinality(Since)
    BY <1>4, <1>5, <1>12, <1>13, <1>15 DEF AuditInv, SummaryInv
  <2>2. CASE todo # {}
    <3>1. summary' = [at |-> "type", todo |-> todo, start |-> summary.start,
                      action |-> summary.action, type |-> summary.type + n, total |-> summary.total]
      BY <1>1, <1>5, <1>15, <2>2
    <3>2. AuditShape' /\ SummaryInv'
      BY <3>1, <2>1, <2>2, <1>2, <1>4, <1>5, <1>8, <1>11, <1>15 DEF AuditInv, SummaryInv, Parts
    <3> QED
      BY <3>2, <1>6 DEF AuditInv
  <2>3. CASE todo = {}
    <3>1. summary' = [at |-> "total", todo |-> Parts("total"), start |-> summary.start,
                      action |-> summary.action, type |-> summary.type + n, total |-> summary.total]
      BY <1>1, <1>5, <1>7, <1>15, <2>3
    <3>2. summary.action <= summary.type + n
      <4>1. Cardinality(CountedAs("type", todo)) = 0
        BY <2>3, NothingCounted, FS_EmptySet
      <4> QED
        BY <4>1, <2>1, <1>4, <1>5
    <3>3. summary.total = 0
      BY <1>15 DEF AuditInv, SummaryInv
    <3>4. Parts("total") = {<<"total", "all">>} /\ Parts("total") \subseteq AllParts
      BY PartsFacts
    <3>5. AuditShape' /\ SummaryInv'
      BY <3>1, <3>2, <3>3, <3>4, <2>1, <1>4, <1>5, <1>11 DEF SummaryInv
    <3> QED
      BY <3>5, <1>6 DEF AuditInv
  <2> QED
    BY <2>2, <2>3
<1>16. CASE summary.at = "total"
  <2>1. part = <<"total", "all">> /\ todo = {} /\ summary.total = 0
    BY <1>3, <1>16 DEF AuditInv, SummaryInv
  <2>2. n = Cardinality(Since)
    BY <2>1, CountedIsTotal DEF n
  <2>3. summary' = [at |-> "done", todo |-> todo, start |-> summary.start,
                    action |-> summary.action, type |-> summary.type, total |-> summary.total + n]
    BY <1>1, <1>5, <1>7, <1>16, <2>1
  <2>4. summary.action <= summary.type /\ summary.type <= summary.total + n
    BY <2>1, <2>2, <1>4, <1>5, <1>16 DEF AuditInv, SummaryInv
  <2>5. AuditShape' /\ SummaryInv'
    BY <2>3, <2>4, <1>4, <1>5, <1>8, <1>11 DEF SummaryInv
  <2> QED
    BY <2>5, <1>6 DEF AuditInv
<1> QED
  BY <1>1, <1>14, <1>15, <1>16

(* The entries are numbered as they are saved and no time is further on    *)
(* than the entries begun; with it the types of the log.                   *)
AuditBounds ==
  /\ AuditTypeOK
  /\ IsFiniteSet(log) /\ IsFiniteSet(Writing)
  /\ Cardinality(log) + Cardinality(Writing) <= MaxEntries
  /\ latest <= Cardinality(log) + Cardinality(Writing)
  /\ \A e \in log : e.order <= Cardinality(log)
  /\ unsaved = [t \in Loggers |-> unsaved[t]]
  /\ \A t \in Writing : unsaved[t].stamp \in 0..latest

LEMMA AuditBoundsKept ==
  ASSUME AuditInv, AuditBounds, [AuditNext]_auditVars
  PROVE  AuditBounds'
<1>c. MaxEntries \in Nat /\ HooksUsed \subseteq HookCalls
  BY AuditAssumption
<1>n. Cardinality(log) \in Nat /\ Cardinality(Writing) \in Nat /\ latest \in Nat
  BY FS_CardinalityType DEF AuditBounds, AuditTypeOK
<1>1. ASSUME NEW t \in Loggers, LogAction(t)
      PROVE  AuditBounds'
  <2>1. PICK h \in HooksUsed : unsaved' = [unsaved EXCEPT ![t] = [stamp |-> latest', hook |-> h]]
    BY <1>1 DEF LogAction
  <2> DEFINE new == [stamp |-> latest', hook |-> h]
  <2>2. new # NoEntry /\ new.stamp = latest' /\ new.hook = h /\ h \in HookCalls
    <3>1. latest' \in Nat
      BY <1>1, <1>n DEF LogAction
    <3> QED
      BY <1>c, <3>1 DEF NoEntry
  <2> HIDE DEF new
  <2>3. /\ unsaved' = [u \in Loggers |-> unsaved'[u]] /\ unsaved'[t] = new
        /\ \A u \in Loggers \ {t} : unsaved'[u] = unsaved[u]
    BY <2>1 DEF new, AuditBounds
  <2>4. /\ t \notin Writing /\ Cardinality(log) + Cardinality(Writing) < MaxEntries
        /\ latest' \in {latest, latest + 1} /\ UNCHANGED <<log, walk, summary>>
    BY <1>1 DEF LogAction
  <2>5. Writing' = Writing \cup {t}
    BY <2>2, <2>3 DEF Writing
  <2>6. IsFiniteSet(Writing') /\ Cardinality(Writing') = Cardinality(Writing) + 1
    BY <2>4, <2>5, FS_AddElement DEF AuditBounds
  <2>7. latest' \in 0..MaxEntries /\ latest' <= Cardinality(log) + Cardinality(Writing')
    BY <1>c, <1>n, <2>4, <2>6 DEF AuditBounds
  <2>8. \A u \in Writing' : unsaved'[u].stamp \in 0..latest'
    <3>1. latest' \in Nat /\ latest <= latest'
      BY <1>n, <2>4
    <3>2. \A u \in Writing : u # t /\ unsaved'[u] = unsaved[u] /\ unsaved[u].stamp \in 0..latest
      BY <2>3, <2>4 DEF AuditBounds, Writing
    <3>3. \A u \in Writing : unsaved'[u].stamp \in 0..latest'
      BY <1>n, <3>1, <3>2
    <3>4. unsaved'[t].stamp \in 0..latest'
      BY <2>2, <2>3, <3>1
    <3> QED
      BY <2>5, <3>3, <3>4
  <2>9. \A u \in Loggers : unsaved'[u] = NoEntry \/ unsaved'[u].hook \in HookCalls
    BY <2>2, <2>3 DEF AuditBounds, AuditTypeOK
  <2>10. AuditTypeOK'
    BY <2>4, <2>7, <2>9 DEF AuditBounds, AuditTypeOK
  <2>11. Cardinality(log') + Cardinality(Writing') <= MaxEntries
    BY <1>c, <1>n, <2>4, <2>6
  <2> QED
    BY <2>3, <2>4, <2>6, <2>7, <2>8, <2>10, <2>11 DEF AuditBounds
<1>2. ASSUME NEW t \in Loggers, SaveEntry(t)
      PROVE  AuditBounds'
  <2> DEFINE new == [stamp |-> unsaved[t].stamp, hook |-> unsaved[t].hook, order |-> Cardinality(log) + 1]
  <2>1. /\ t \in Writing /\ log' = log \cup {new} /\ unsaved' = [unsaved EXCEPT ![t] = NoEntry]
        /\ UNCHANGED <<latest, walk, summary>>
    BY <1>2 DEF SaveEntry
  <2>2. new.order = Cardinality(log) + 1 /\ new.stamp = unsaved[t].stamp /\ new.hook = unsaved[t].hook
    OBVIOUS
  <2>3. unsaved[t].stamp \in 0..latest /\ unsaved[t].hook \in HookCalls
    BY <2>1 DEF AuditBounds, AuditTypeOK, Writing
  <2>4. /\ unsaved' = [u \in Loggers |-> unsaved'[u]] /\ unsaved'[t] = NoEntry
        /\ \A u \in Loggers \ {t} : unsaved'[u] = unsaved[u]
    BY <2>1 DEF AuditBounds
  <2>5. Writing' = Writing \ {t}
    BY <2>4 DEF Writing
  <2>6. IsFiniteSet(Writing') /\ Cardinality(Writing') = Cardinality(Writing) - 1
    BY <2>1, <2>5, FS_RemoveElement DEF AuditBounds
  <2>7. new \notin log
    BY <1>n, <2>2 DEF AuditBounds
  <2>8. IsFiniteSet(log') /\ Cardinality(log') = Cardinality(log) + 1
    <3> HIDE DEF new
    <3> QED
      BY <2>1, <2>7, FS_AddElement DEF AuditBounds
  <2>9. Cardinality(Writing') \in Nat
    BY <2>6, FS_CardinalityType
  <2>10. /\ Cardinality(log) + 1 \in 1..MaxEntries
         /\ Cardinality(log') + Cardinality(Writing') = Cardinality(log) + Cardinality(Writing)
    BY <1>c, <1>n, <2>6, <2>8, <2>9 DEF AuditBounds
  <2>11. unsaved[t].stamp \in 0..MaxEntries
    BY <1>c, <2>3 DEF AuditBounds, AuditTypeOK
  <2>12. new \in [stamp: 0..MaxEntries, hook: HookCalls, order: 1..MaxEntries]
    <3> DEFINE a == unsaved[t].stamp
               b == unsaved[t].hook
               n == Cardinality(log) + 1
    <3>1. a \in 0..MaxEntries /\ b \in HookCalls /\ n \in 1..MaxEntries
      BY <2>3, <2>10, <2>11
    <3> HIDE DEF a, b, n
    <3>2. [stamp |-> a, hook |-> b, order |-> n] \in [stamp: 0..MaxEntries, hook: HookCalls, order: 1..MaxEntries]
      BY <3>1
    <3> QED
      BY <3>2 DEF a, b, n
  <2> HIDE DEF new
  <2>13. AuditTypeOK'
    <3>1. \A u \in Loggers : unsaved'[u] = NoEntry \/ unsaved'[u].hook \in HookCalls
      BY <2>4 DEF AuditBounds, AuditTypeOK
    <3> QED
      BY <2>1, <2>12, <3>1 DEF AuditBounds, AuditTypeOK
  <2>14. \A e \in log' : e.order <= Cardinality(log')
    <3>1. \A e \in log : e.order \in Nat /\ e.order <= Cardinality(log)
      BY <1>c DEF AuditBounds, AuditTypeOK
    <3> QED
      BY <1>n, <2>1, <2>2, <2>8, <3>1
  <2>15. \A u \in Writing' : unsaved'[u].stamp \in 0..latest'
    BY <2>1, <2>4, <2>5 DEF AuditBounds
  <2>16. /\ Cardinality(log') + Cardinality(Writing') <= MaxEntries
         /\ latest' <= Cardinality(log') + Cardinality(Writing')
    BY <2>1, <2>10 DEF AuditBounds
  <2> QED
    BY <2>4, <2>6, <2>8, <2>13, <2>14, <2>15, <2>16 DEF AuditBounds
<1>3. ASSUME UNCHANGED <<log, latest, unsaved>>,
             walk'.seen \subseteq log, walk'.first \subseteq log,
             summary'.at \in {"none", "done"} \cup DOMAIN After
      PROVE  AuditBounds'
  BY <1>3 DEF AuditBounds, AuditTypeOK, Writing
<1>4. CASE TurnPage
  <2>1. PICK type \in {"any", "content"} :
          walk' = [on |-> TRUE, type |-> type, offset |-> walk.offset + PageLimit, total |-> 1,
                   seen |-> walk.seen \cup Page(OfType(type), walk.offset),
                   first |-> IF walk.on THEN walk.first ELSE OfType(type)]
    BY <1>4 DEF TurnPage
  <2>2. OfType(type) \subseteq log /\ Page(OfType(type), walk.offset) \subseteq OfType(type)
    BY DEF OfType, Page
  <2>3. /\ walk'.seen = walk.seen \cup Page(OfType(type), walk.offset)
        /\ walk'.first \in {walk.first, OfType(type)}
    BY <2>1
  <2>4. UNCHANGED <<log, latest, unsaved, summary>>
    BY <1>4 DEF TurnPage
  <2> QED
    BY <1>3, <2>2, <2>3, <2>4 DEF AuditBounds, AuditTypeOK
<1>5. CASE CountPage
  <2>1. walk' \in {[walk EXCEPT !.total = 0], NoWalk} /\ UNCHANGED <<log, latest, unsaved, summary>>
    BY <1>5 DEF CountPage
  <2>2. walk'.seen \in {walk.seen, {}} /\ walk'.first \in {walk.first, {}}
    BY <2>1 DEF NoWalk, AuditInv, AuditShape
  <2> QED
    BY <1>3, <2>1, <2>2 DEF AuditBounds, AuditTypeOK
<1>6. CASE BeginSummary
  <2>1. summary'.at = "action" /\ UNCHANGED <<log, latest, unsaved, walk>>
    BY <1>6 DEF BeginSummary, NoSummary
  <2> QED
    BY <1>3, <2>1 DEF AuditBounds, AuditTypeOK, After
<1>7. CASE CountOne
  <2>1. PICK n, todo, more :
          /\ summary' = [summary EXCEPT ![summary.at] = n,
                           !.at = IF todo # {} THEN @ ELSE After[summary.at], !.todo = more]
          /\ summary.at \in DOMAIN After /\ UNCHANGED <<log, latest, unsaved, walk>>
    BY <1>7 DEF CountOne
  <2>2. /\ DOMAIN After = {"action", "type", "total"}
        /\ After["action"] = "type" /\ After["type"] = "total" /\ After["total"] = "done"
    BY DEF After
  <2>3. summary'.at \in {summary.at, After[summary.at]}
    <3>1. DOMAIN summary = {"at", "todo", "start", "action", "type", "total"}
      BY DEF AuditInv, AuditShape
    <3>2. summary.at # "at" /\ summary.at # "todo"
      BY <2>1, <2>2
    <3> QED
      BY <2>1, <3>1, <3>2
  <2>4. summary'.at \in {"none", "done"} \cup DOMAIN After
    BY <2>1, <2>2, <2>3
  <2> QED
    BY <1>3, <2>1, <2>4 DEF AuditBounds, AuditTypeOK
<1>8. CASE ShowSummary
  <2>1. summary'.at = "none" /\ UNCHANGED <<log, latest, unsaved, walk>>
    BY <1>8 DEF ShowSummary, NoSummary
  <2> QED
    BY <1>3, <2>1 DEF AuditBounds, AuditTypeOK
<1>9. CASE UNCHANGED auditVars
  BY <1>3, <1>9 DEF auditVars, AuditBounds, AuditTypeOK
<1> QED
  BY <1>1, <1>2, <1>4, <1>5, <1>6, <1>7, <1>8, <1>9 DEF AuditNext

\* Whoever turns the pages to the end has seen all that was there at the first page,
\* and the parts of a summary add up, for every set of threads, page size and bound.
THEOREM AuditTheorem == AuditSpec => [](AuditTypeOK /\ AuditComplete)
<1>1. AuditInit => AuditInv
  <2> SUFFICES ASSUME AuditInit
               PROVE  AuditInv
    OBVIOUS
  <2>1. IsFiniteSet({})
    BY FS_EmptySet
  <2>2. AuditShape
    BY <2>1 DEF AuditInit, AuditShape, Entry, NoWalk, NoSummary
  <2>3. WalkInv
    BY DEF AuditInit, WalkInv, NoWalk, OfType
  <2>4. SummaryInv
    BY DEF AuditInit, SummaryInv, NoSummary
  <2> QED
    BY <2>2, <2>3, <2>4 DEF AuditInv
<1>2. AuditInv /\ [AuditNext]_auditVars => AuditInv'
  <2> SUFFICES ASSUME AuditInv, [AuditNext]_auditVars
               PROVE  AuditInv'
    OBVIOUS
  <2>1. CASE ShowSummary
    <3>1. /\ UNCHANGED <<log, latest, unsaved, walk>> /\ summary' = NoSummary
      BY <2>1 DEF ShowSummary
    <3>2. AuditShape'
      BY <3>1 DEF AuditInv, AuditShape, Entry, NoSummary
    <3>3. WalkInv' /\ SummaryInv'
      BY <3>1 DEF AuditInv, WalkInv, OfType, Ahead, Before, SummaryInv, NoSummary
    <3> QED
      BY <3>2, <3>3 DEF AuditInv
  <2>2. CASE UNCHANGED auditVars
    <3>1. /\ log' = log /\ latest' = latest /\ unsaved' = unsaved /\ walk' = walk /\ summary' = summary
      BY <2>2 DEF auditVars
    <3> QED
      BY <3>1 DEF AuditInv, AuditShape, Entry, WalkInv, OfType, Ahead, Before, SummaryInv, Passed, CountedAs,
                  Since, Parts
  <2> QED
    BY <2>1, <2>2, LogActionStep, SaveEntryStep, TurnPageStep, CountPageStep, BeginSummaryStep, CountOneStep
       DEF AuditNext
<1>3. AuditInv => AuditComplete
  <2> SUFFICES ASSUME AuditInv
               PROVE  AuditComplete
    OBVIOUS
  <2>1. ASSUME walk.total = 1, walk.offset >= Cardinality(OfType(walk.type)), NEW e \in walk.first
        PROVE  e \in walk.seen
    <3> DEFINE set == OfType(walk.type)
    <3>1. IsFiniteSet(set) /\ e \in set
      BY FS_Subset DEF OfType, AuditInv, AuditShape, WalkInv
    <3>2. e.stamp \in Nat /\ e.order \in Nat
      BY <3>1 DEF OfType, AuditInv, AuditShape, Entry
    <3>3. Ahead(set, e) \subseteq set \ {e}
      BY <3>2 DEF Ahead, Before
    <3> HIDE DEF set
    <3>4. IsFiniteSet(set \ {e}) /\ Cardinality(set \ {e}) = Cardinality(set) - 1
      BY <3>1, FS_RemoveElement
    <3>5. Cardinality(Ahead(set, e)) <= Cardinality(set \ {e}) /\ Cardinality(Ahead(set, e)) \in Nat
      BY <3>3, <3>4, SubsetCount
    <3>6. Cardinality(set) \in Nat /\ walk.offset \in Nat
      BY <3>1, FS_CardinalityType DEF AuditInv, AuditShape
    <3>7. Cardinality(Ahead(set, e)) < walk.offset
      BY <2>1, <3>4, <3>5, <3>6 DEF set
    <3> QED
      BY <3>5, <3>6, <3>7 DEF AuditInv, WalkInv, set
  <2> QED
    BY <2>1 DEF AuditInv, SummaryInv, AuditComplete
<1>4. AuditInit => AuditBounds
  <2> SUFFICES ASSUME AuditInit PROVE AuditBounds
    OBVIOUS
  <2>1. log = {} /\ Writing = {} /\ latest = 0 /\ unsaved = [t \in Loggers |-> unsaved[t]]
    BY DEF AuditInit, Writing
  <2>2. IsFiniteSet({}) /\ Cardinality({}) = 0 /\ MaxEntries \in Nat
    BY FS_EmptySet, AuditAssumption
  <2>3. AuditTypeOK
    BY <2>2 DEF AuditInit, AuditTypeOK, NoWalk, NoSummary
  <2> QED
    BY <2>1, <2>2, <2>3 DEF AuditBounds
<1>5. AuditBounds => AuditTypeOK
  BY DEF AuditBounds
<1> QED
  BY <1>1, <1>2, <1>3, <1>4, <1>5, AuditBoundsKept, PTL DEF AuditSpec

-----------------------------------------------------------------------------
(***************************************************************************)
(* ContentLifecycle: every number of items, every set of slugs, types and  *)
(* requests, and every grace period and listing limit.                     *)
(***************************************************************************)
(* The inductive invariant. *)

\* The moves of LegalMoves that a copy may make by itself.
LegalSave(from, to) ==
  \/ from = to
  \/ <<from, to>> \in Transitions
  \/ from = "absent" /\ to = "draft"

\* Ids not handed out name no row.
CreatedInv == \A i \in Items : Exists(i) => i <= created

\* What a request is about to do is legal for the row, unless the row changed
\* after the request read it.
RequestInv(r) ==
  LET i == request[r].item IN
  request[r].op # "none" =>
    /\ i <= created
    /\ <<r, i>> \notin outdated =>
         /\ request[r].op = "save" => LegalSave(items[i].status, request[r].copy.status)
         /\ request[r].op = "delete" => items[i].status \in {"draft", "scheduled"}

\* What was listed is still due, unless the row changed after the listing.
DueInv ==
  \A i \in due.todo :
    /\ i <= created
    /\ <<DueJob, i>> \notin outdated => due.copy[i] = items[i] /\ Due(i)

ContentInv ==
  TypeOK /\ CreatedInv /\ DueInv /\ \A r \in Requests : RequestInv(r)

-----------------------------------------------------------------------------
(* The values the actions write. *)

LEMMA NoRowType ==
  NoRow \in Row /\ NoRow.status = "absent"
<1>1. (CHOOSE t \in Types : TRUE) \in Types /\ (CHOOSE s \in Slugs : TRUE) \in Slugs
  BY ItemAssumption
<1>2. 0 \in 0..MaxTime
  BY BoundAssumption
<1> QED
  BY <1>1, <1>2 DEF NoRow, Row, Status

LEMMA NoRequestType ==
  /\ NoRequest \in [op: {"none", "save", "delete"}, item: Items, copy: Row]
  /\ NoRequest.op = "none"
<1>1. 1 \in Items
  BY ItemAssumption DEF Items
<1> QED
  BY <1>1, NoRowType DEF NoRequest

\* Both status machines keep a row a row, and move it legally.
LEMMA MovedType ==
  ASSUME NEW row \in Row, NEW to \in Status, NEW at \in 0..MaxTime,
         CanTransition(row.status, to)
  PROVE  Moved(row, to, at) \in Row /\ LegalSave(row.status, Moved(row, to, at).status)
<1>1. 0 \in 0..MaxTime /\ to \in {"draft", "scheduled", "published"}
  BY BoundAssumption DEF CanTransition, Transitions, Status
<1>2. CASE to = "scheduled"
  BY <1>2 DEF Moved, Row, Status, LegalSave, CanTransition
<1>3. CASE to = "published"
  BY <1>1, <1>3 DEF Moved, Row, Status, LegalSave, CanTransition
<1>4. CASE to = "draft"
  <2> DEFINE at0 == IF row.status = "scheduled" THEN 0 ELSE row.publishAt
  <2>1. at0 \in 0..MaxTime
    BY <1>1 DEF Row
  <2>2. Moved(row, to, at) = [row EXCEPT !.status = to, !.publishAt = at0]
    BY <1>4 DEF Moved
  <2> HIDE DEF at0
  <2> QED
    BY <1>4, <2>1, <2>2 DEF Row, Status, LegalSave, CanTransition
<1> QED
  BY <1>1, <1>2, <1>3, <1>4

LEMMA DomainMovedType ==
  ASSUME NEW row \in Row, NEW to \in Status
  PROVE  /\ DomainMoved(row, to) \in Row /\ DomainMoved(row, to).status = to
         /\ DomainCanMove(row, to) => LegalSave(row.status, to)
<1>1. (to = "published") \in BOOLEAN
  OBVIOUS
<1>2. DomainMoved(row, to) \in Row /\ DomainMoved(row, to).status = to
  BY <1>1 DEF DomainMoved, Row
<1> QED
  BY <1>2 DEF DomainCanMove, CanTransition, LegalSave

-----------------------------------------------------------------------------
(* Steps that only read. *)

LEMMA ReadEffect ==
  ASSUME TypeOK, NEW r \in Requests, NEW op \in {"save", "delete"}, NEW i \in Items,
         NEW copy \in Row, Read(r, op, i, copy),
         created' \in 0..N, requests' \in 0..MaxRequests
  PROVE  /\ TypeOK' /\ UNCHANGED <<now, items, due, outdated>>
         /\ request'[r] = [op |-> op, item |-> i, copy |-> copy]
         /\ \A q \in Requests \ {r} : request'[q] = request[q]
BY DEF Read, TypeOK

\* A request that read what it may do keeps the invariant.
LEMMA ReadStep ==
  ASSUME ContentInv, NEW r \in Requests, NEW op \in {"save", "delete"}, NEW i \in Items,
         NEW copy \in Row, Read(r, op, i, copy),
         created' \in 0..N, requests' \in 0..MaxRequests,
         created <= created', i <= created',
         op = "save" => LegalSave(items[i].status, copy.status),
         op = "delete" => items[i].status \in {"draft", "scheduled"}
  PROVE  ContentInv' /\ UNCHANGED <<items, due>>
<1>0. TypeOK /\ created \in Nat /\ created' \in Nat /\ \A k \in Items : k \in Nat
  BY DEF ContentInv, TypeOK, Items
<1>1. /\ TypeOK' /\ UNCHANGED <<now, items, due, outdated>>
      /\ request'[r] = [op |-> op, item |-> i, copy |-> copy]
      /\ \A q \in Requests \ {r} : request'[q] = request[q]
  BY <1>0, ReadEffect
<1>2. CreatedInv'
  BY <1>0, <1>1 DEF ContentInv, CreatedInv, Exists
<1>3. DueInv'
  BY <1>0, <1>1 DEF ContentInv, DueInv, Due, Scheduled, TypeOK
<1>4. ASSUME NEW q \in Requests PROVE RequestInv(q)'
  <2>1. CASE q = r
    BY <1>1, <2>1 DEF RequestInv
  <2>2. CASE q # r
    <3>1. RequestInv(q) /\ request[q].item \in Nat
      BY <1>0 DEF ContentInv, TypeOK
    <3> QED
      BY <1>0, <1>1, <2>2, <3>1 DEF RequestInv
  <2> QED
    BY <2>1, <2>2
<1> QED
  BY <1>1, <1>2, <1>3, <1>4 DEF ContentInv

LEMMA ReadItemStep ==
  ASSUME ContentInv, NEW r \in Requests, NEW op \in {"save", "delete"}, NEW i \in Items,
         NEW copy \in Row, ReadItem(r, op, i, copy),
         op = "save" => LegalSave(items[i].status, copy.status),
         op = "delete" => items[i].status \in {"draft", "scheduled"}
  PROVE  ContentInv' /\ UNCHANGED <<items, due>>
<1>1. created' = created /\ created \in 0..N /\ created <= created /\ i <= created
  BY DEF ReadItem, ContentInv, TypeOK, CreatedInv
<1>2. requests' \in 0..MaxRequests /\ Read(r, op, i, copy)
  BY BoundAssumption DEF ReadItem, ContentInv, TypeOK
<1> QED
  BY <1>1, <1>2, ReadStep

\* Every operation of a request up to its write.
LEMMA RequestReadStep ==
  ASSUME ContentInv, NEW r \in Requests,
         \/ Create(r) \/ Update(r) \/ Transition(r) \/ PublishNow(r)
         \/ Schedule(r) \/ Unpublish(r) \/ DeleteCheck(r)
  PROVE  ContentInv' /\ UNCHANGED <<items, due>>
<1>0. /\ TypeOK /\ created \in 0..N /\ requests \in 0..MaxRequests
      /\ \A i \in Items : items[i] \in Row
      /\ {"draft", "scheduled", "published"} \subseteq Status
  BY DEF ContentInv, TypeOK, Status
<1>1. CASE Create(r)
  <2>1. PICK t \in Types, s \in Slugs :
          LET i == created + 1 IN
          /\ i \in Items /\ created' = i
          /\ Read(r, "save", i, [NoRow EXCEPT !.status = "draft", !.type = t, !.slug = s])
          /\ UNCHANGED requests
    BY <1>1 DEF Create
  <2> DEFINE row == [NoRow EXCEPT !.status = "draft", !.type = t, !.slug = s]
  <2>2. row \in Row /\ row.status = "draft"
    BY <1>0, NoRowType DEF Row
  <2> HIDE DEF row
  <2>3. created' = created + 1 /\ created' \in Items /\ Read(r, "save", created', row)
        /\ UNCHANGED requests
    BY <2>1 DEF row
  <2>4. items[created'].status = "absent"
    BY <1>0, <2>3 DEF ContentInv, CreatedInv, Exists, Items
  <2>5. created <= created' /\ created' <= created' /\ created' \in 0..N
    BY <1>0, <2>3 DEF Items
  <2>6. LegalSave(items[created'].status, row.status)
    BY <2>2, <2>4 DEF LegalSave
  <2> QED
    BY <1>0, <2>2, <2>3, <2>5, <2>6, ReadStep
<1>2. CASE Update(r)
  <2>1. PICK i \in Items, s \in Slugs, at \in 0..MaxTime :
          ReadItem(r, "save", i, [items[i] EXCEPT !.slug = s, !.publishAt = at])
    BY <1>2 DEF Update
  <2> DEFINE row == [items[i] EXCEPT !.slug = s, !.publishAt = at]
  <2>2. row \in Row /\ row.status = items[i].status
    BY <1>0 DEF Row
  <2> HIDE DEF row
  <2>3. ReadItem(r, "save", i, row)
    BY <2>1 DEF row
  <2> QED
    BY <2>2, <2>3, ReadItemStep DEF LegalSave
<1>3. CASE Transition(r)
  BY <1>0, <1>3, MovedType, ReadItemStep DEF Transition
<1>4. CASE PublishNow(r)
  BY <1>0, <1>4, DomainMovedType, ReadItemStep DEF PublishNow
<1>5. CASE Schedule(r)
  <2>1. PICK i \in Items, at \in 0..MaxTime :
          LET row == [items[i] EXCEPT !.publishAt = at] IN
          /\ DomainCanMove(row, "scheduled")
          /\ ReadItem(r, "save", i, DomainMoved(row, "scheduled"))
    BY <1>5 DEF Schedule
  <2> DEFINE row == [items[i] EXCEPT !.publishAt = at]
  <2>2. row \in Row /\ row.status = items[i].status
    BY <1>0 DEF Row
  <2> HIDE DEF row
  <2>3. DomainCanMove(row, "scheduled") /\ ReadItem(r, "save", i, DomainMoved(row, "scheduled"))
    BY <2>1 DEF row
  <2> QED
    BY <1>0, <2>2, <2>3, DomainMovedType, ReadItemStep
<1>6. CASE Unpublish(r)
  BY <1>0, <1>6, DomainMovedType, ReadItemStep DEF Unpublish
<1>7. CASE DeleteCheck(r)
  <2>1. PICK i \in Items : items[i].status # "published" /\ ReadItem(r, "delete", i, items[i])
    BY <1>7 DEF DeleteCheck
  <2>2. items[i].status \in {"draft", "scheduled"}
    BY <1>0, <2>1 DEF ReadItem, Exists, Row, Status
  <2> QED
    BY <1>0, <2>1, <2>2, ReadItemStep
<1> QED
  BY <1>1, <1>2, <1>3, <1>4, <1>5, <1>6, <1>7

-----------------------------------------------------------------------------
(* Steps that write, or fail to. *)

\* Process p is done with item i, and nobody has begun anything.
Finishes(p, i) ==
  /\ UNCHANGED <<now, created>>
  /\ \A r \in Requests : request'[r] = request[r] \/ (p = r /\ request'[r].op = "none")
  /\ p \in Requests => request'[p].op = "none"
  /\ due'.todo \subseteq due.todo
  /\ \A k \in due'.todo : due'.copy[k] = due.copy[k]
  /\ p = DueJob => i \notin due'.todo

\* A write of item i makes every other copy of it out of date, so that the
\* invariant asks nothing of these copies any more.
LEMMA WriteStep ==
  ASSUME ContentInv, TypeOK', NEW p \in Processes, NEW i \in Items,
         i <= created, \A k \in Items \ {i} : items'[k] = items[k],
         Outdate(p, i), Finishes(p, i)
  PROVE  ContentInv'
<1>0. TypeOK
  BY DEF ContentInv
<1>1. CreatedInv'
  BY DEF ContentInv, CreatedInv, Exists, Finishes
<1>2. \A q \in Processes, k \in Items :
        /\ k # i => (<<q, k>> \in outdated' <=> <<q, k>> \in outdated)
        /\ q # p /\ Holds(q, i) => <<q, i>> \in outdated'
  BY DEF Outdate
<1>3. DueInv'
  <2> SUFFICES ASSUME NEW k \in due'.todo
               PROVE  /\ k <= created'
                      /\ <<DueJob, k>> \notin outdated' => due'.copy[k] = items'[k] /\ Due(k)'
    BY DEF DueInv
  <2>1. k \in due.todo /\ k \in Items /\ k <= created' /\ DueJob \in Processes
    BY <1>0 DEF ContentInv, DueInv, Finishes, TypeOK, Processes
  <2>2. CASE k = i
    <3>1. p # DueJob /\ Holds(DueJob, i)
      BY <2>1, <2>2 DEF Finishes, Holds
    <3> QED
      BY <1>2, <2>1, <2>2, <3>1
  <2>3. CASE k # i
    <3>1. items'[k] = items[k] /\ now' = now /\ due'.copy[k] = due.copy[k]
      BY <2>1, <2>3 DEF Finishes
    <3>2. Due(k)' <=> Due(k)
      BY <2>1, <3>1 DEF Due, Scheduled
    <3> QED
      BY <1>2, <2>1, <2>3, <3>1, <3>2 DEF ContentInv, DueInv
  <2> QED
    BY <2>2, <2>3
<1>4. ASSUME NEW r \in Requests PROVE RequestInv(r)'
  <2>0. RequestInv(r) /\ r \in Processes /\ r # DueJob /\ request[r].item \in Items
    BY <1>0, ProcessAssumption DEF ContentInv, Processes, TypeOK
  <2>1. CASE request'[r].op = "none"
    BY <2>1 DEF RequestInv
  <2>2. CASE request'[r].op # "none"
    <3>1. request'[r] = request[r] /\ p # r /\ created' = created
      BY <2>2 DEF Finishes
    <3>2. CASE request[r].item = i
      BY <1>2, <2>0, <2>2, <3>1, <3>2 DEF RequestInv, Holds
    <3>3. CASE request[r].item # i
      BY <1>2, <2>0, <2>2, <3>1, <3>3 DEF RequestInv
    <3> QED
      BY <3>2, <3>3
  <2> QED
    BY <2>1, <2>2
<1> QED
  BY <1>1, <1>3, <1>4 DEF ContentInv

\* A write that the UNIQUE constraint refused.
LEMMA RefusedStep ==
  ASSUME ContentInv, TypeOK', NEW p \in Processes, NEW i \in Items,
         UNCHANGED items, Finishes(p, i),
         \A q \in Processes \ {p}, k \in Items : <<q, k>> \in outdated' <=> <<q, k>> \in outdated,
         p = DueJob => due'.todo = {}
  PROVE  ContentInv'
<1>0. TypeOK
  BY DEF ContentInv
<1>1. CreatedInv'
  BY DEF ContentInv, CreatedInv, Exists, Finishes
<1>2. DueInv'
  <2> SUFFICES ASSUME NEW k \in due'.todo
               PROVE  /\ k <= created'
                      /\ <<DueJob, k>> \notin outdated' => due'.copy[k] = items'[k] /\ Due(k)'
    BY DEF DueInv
  <2>1. k \in due.todo /\ k \in Items /\ DueJob \in Processes \ {p}
    BY <1>0 DEF Finishes, TypeOK, Processes
  <2>2. due'.copy[k] = due.copy[k] /\ UNCHANGED <<now, created>> /\ (Due(k)' <=> Due(k))
    BY DEF Finishes, Due, Scheduled
  <2> QED
    BY <2>1, <2>2 DEF ContentInv, DueInv
<1>3. ASSUME NEW r \in Requests PROVE RequestInv(r)'
  <2>0. RequestInv(r) /\ r \in Processes /\ request[r].item \in Items
    BY <1>0 DEF ContentInv, Processes, TypeOK
  <2>1. CASE request'[r].op = "none"
    BY <2>1 DEF RequestInv
  <2>2. CASE request'[r].op # "none"
    <3>1. request'[r] = request[r] /\ p # r /\ created' = created
      BY <2>2 DEF Finishes
    <3> QED
      BY <2>0, <2>2, <3>1 DEF RequestInv
  <2> QED
    BY <2>1, <2>2
<1> QED
  BY <1>1, <1>2, <1>3 DEF ContentInv

\* What a step may do to the items: the bodies of LegalMoves and PublishedOnTime.
LegalStep ==
  \A i \in Items :
    LET from == items[i].status  to == items'[i].status IN
    \/ from = to
    \/ <<from, to>> \in Transitions
    \/ from = "absent" /\ to = "draft"
    \/ from \in {"draft", "scheduled"} /\ to = "absent"
    \/ StaleWrite(i)

OnTimeStep == \A i \in due.todo : i \notin due'.todo => Due(i) \/ StaleWrite(i)

\* A write from an outdated copy takes it off the record.
LEMMA OutdatedGone ==
  ASSUME NEW p \in Processes, NEW i \in Items, Outdate(p, i), <<p, i>> \in outdated
  PROVE  StaleWrite(i)
BY DEF Outdate, StaleWrite

LEMMA OutdateType ==
  ASSUME TypeOK, NEW p \in Processes, NEW i \in Items, Outdate(p, i)
  PROVE  outdated' \subseteq Processes \X Items
BY DEF Outdate, TypeOK

\* The write of a request.
LEMMA SaveCopyStep ==
  ASSUME ContentInv, NEW r \in Requests, SaveCopy(r)
  PROVE  ContentInv' /\ LegalStep /\ UNCHANGED due
<1> DEFINE i == request[r].item
           row == request[r].copy
<1>0. /\ TypeOK /\ RequestInv(r) /\ r \in Processes /\ r # DueJob /\ i \in Items /\ row \in Row
      /\ UNCHANGED <<now, created, requests, due>> /\ request[r].op = "save" /\ i <= created
  BY ProcessAssumption DEF ContentInv, TypeOK, Processes, SaveCopy, RequestInv
<1>1. /\ request' \in [Requests -> [op: {"none", "save", "delete"}, item: Items, copy: Row]]
      /\ Finishes(r, i)
  BY <1>0, NoRequestType DEF SaveCopy, Finishes, TypeOK
<1>2. CASE Collides(i, row)
  <2>1. UNCHANGED items /\ outdated' = outdated \ {<<r, i>>}
    BY <1>2 DEF SaveCopy, Save
  <2>2. TypeOK'
    BY <1>0, <1>1, <2>1 DEF TypeOK
  <2>3. \A q \in Processes \ {r}, k \in Items : <<q, k>> \in outdated' <=> <<q, k>> \in outdated
    BY <2>1
  <2> QED
    BY <1>0, <1>1, <2>1, <2>2, <2>3, RefusedStep DEF LegalStep
<1>3. CASE ~Collides(i, row)
  <2>1. items' = [items EXCEPT ![i] = row] /\ Outdate(r, i)
    BY <1>3 DEF SaveCopy, Save
  <2>2. /\ items' \in [Items -> Row] /\ items'[i] = row
        /\ \A k \in Items \ {i} : items'[k] = items[k]
    BY <1>0, <2>1 DEF TypeOK
  <2>3. TypeOK'
    BY <1>0, <1>1, <2>1, <2>2, OutdateType DEF TypeOK
  <2>4. LegalStep
    BY <1>0, <2>1, <2>2, OutdatedGone DEF LegalStep, RequestInv, LegalSave
  <2> QED
    BY <1>0, <1>1, <2>1, <2>2, <2>3, <2>4, WriteStep
<1> QED
  BY <1>2, <1>3

\* The deletion of a request.
LEMMA DeleteRowStep ==
  ASSUME ContentInv, NEW r \in Requests, DeleteRow(r)
  PROVE  ContentInv' /\ LegalStep /\ UNCHANGED due
<1> DEFINE i == request[r].item
<1>0. /\ TypeOK /\ RequestInv(r) /\ r \in Processes /\ r # DueJob /\ i \in Items
      /\ UNCHANGED <<now, created, requests, due>> /\ request[r].op = "delete" /\ i <= created
      /\ items' = [items EXCEPT ![i] = NoRow] /\ Outdate(r, i)
  BY ProcessAssumption DEF ContentInv, TypeOK, Processes, DeleteRow, RequestInv
<1>1. /\ request' \in [Requests -> [op: {"none", "save", "delete"}, item: Items, copy: Row]]
      /\ Finishes(r, i)
  BY <1>0, NoRequestType DEF DeleteRow, Finishes, TypeOK
<1>2. /\ items' \in [Items -> Row] /\ items'[i].status = "absent"
      /\ \A k \in Items \ {i} : items'[k] = items[k]
  BY <1>0, NoRowType DEF TypeOK
<1>3. TypeOK'
  BY <1>0, <1>1, <1>2, OutdateType DEF TypeOK
<1>4. LegalStep
  BY <1>0, <1>2, OutdatedGone DEF LegalStep, RequestInv
<1> QED
  BY <1>0, <1>1, <1>2, <1>3, <1>4, WriteStep

-----------------------------------------------------------------------------
(* run_process_due. *)

LEMMA ListDueStep ==
  ASSUME ContentInv, ListDue
  PROVE  ContentInv' /\ LegalStep /\ OnTimeStep
<1> DEFINE todo == {i \in Listed : Due(i)}
           copy == [i \in Items |-> IF i \in todo THEN items[i] ELSE NoRow]
<1>0. /\ TypeOK /\ due.todo = {} /\ due' = [todo |-> todo, copy |-> copy]
      /\ UNCHANGED <<now, items, created, requests, request, outdated>>
  BY DEF ContentInv, ListDue
<1>1. todo \subseteq Items /\ \A i \in todo : i <= created /\ Due(i)
  BY DEF Listed, Scheduled, ContentInv, CreatedInv, Exists
<1>2. copy \in [Items -> Row]
  BY <1>0, NoRowType DEF TypeOK
<1>3. TypeOK'
  BY <1>0, <1>1, <1>2 DEF TypeOK
<1>4. DueInv'
  BY <1>0, <1>1 DEF DueInv, Due, Scheduled
<1>5. CreatedInv' /\ \A r \in Requests : RequestInv(r)'
  BY <1>0 DEF ContentInv, CreatedInv, Exists, RequestInv
<1> QED
  BY <1>0, <1>3, <1>4, <1>5 DEF ContentInv, LegalStep, OnTimeStep

LEMMA PublishDueStep ==
  ASSUME ContentInv, PublishDue
  PROVE  ContentInv' /\ LegalStep /\ OnTimeStep
<1>0. /\ TypeOK /\ DueJob \in Processes /\ DueJob \notin Requests /\ "published" \in Status
      /\ UNCHANGED <<now, created, requests, request>>
  BY ProcessAssumption DEF ContentInv, Processes, PublishDue, Status
<1>1. PICK i \in due.todo :
        \/ /\ ~Collides(i, due.copy[i])
           /\ Save(DueJob, i, DomainMoved(due.copy[i], "published"))
           /\ due' = [todo |-> due.todo \ {i}, copy |-> [due.copy EXCEPT ![i] = NoRow]]
        \/ /\ Collides(i, due.copy[i])
           /\ due' = [todo |-> {}, copy |-> [k \in Items |-> NoRow]]
           /\ outdated' = {e \in outdated : e[1] # DueJob}
           /\ UNCHANGED items
  BY DEF PublishDue
<1>2. /\ i \in Items /\ due.copy[i] \in Row /\ i <= created
      /\ <<DueJob, i>> \notin outdated => due.copy[i] = items[i] /\ Due(i)
      /\ \A k \in due.todo : k \in Items /\ (<<DueJob, k>> \notin outdated => Due(k))
  BY <1>0, <1>1 DEF ContentInv, DueInv, TypeOK
<1>3. due' \in [todo: SUBSET Items, copy: [Items -> Row]] /\ Finishes(DueJob, i)
  <2>1. CASE due' = [todo |-> {}, copy |-> [k \in Items |-> NoRow]]
    BY <1>0, <2>1, NoRowType DEF Finishes
  <2>2. CASE due' = [todo |-> due.todo \ {i}, copy |-> [due.copy EXCEPT ![i] = NoRow]]
    BY <1>0, <1>2, <2>2, NoRowType DEF Finishes, TypeOK
  <2> QED
    BY <1>1, <2>1, <2>2
<1>4. CASE Collides(i, due.copy[i])
  <2>0. /\ UNCHANGED items /\ outdated' = {e \in outdated : e[1] # DueJob} /\ due'.todo = {}
    BY <1>1, <1>4
  <2>1. TypeOK'
    BY <1>0, <1>3, <2>0 DEF TypeOK
  <2>2. \A q \in Processes \ {DueJob}, k \in Items : <<q, k>> \in outdated' <=> <<q, k>> \in outdated
    BY <2>0
  <2>3. ContentInv'
    BY <1>0, <1>2, <1>3, <2>0, <2>1, <2>2, RefusedStep
  <2>4. ASSUME NEW k \in due.todo, <<DueJob, k>> \in outdated PROVE StaleWrite(k)
    BY <1>0, <2>0, <2>4 DEF StaleWrite
  <2>5. OnTimeStep
    BY <1>2, <2>4 DEF OnTimeStep
  <2> QED
    BY <2>0, <2>3, <2>5 DEF LegalStep
<1>5. CASE ~Collides(i, due.copy[i])
  <2> DEFINE row == DomainMoved(due.copy[i], "published")
  <2>0. row \in Row /\ row.status = "published" /\ Save(DueJob, i, row)
        /\ due'.todo = due.todo \ {i}
    BY <1>0, <1>1, <1>2, <1>5, DomainMovedType
  <2>1. row.slug = due.copy[i].slug
    BY <1>2 DEF DomainMoved, Row
  <2> HIDE DEF row
  <2>2. ~Collides(i, row)
    BY <1>5, <2>1 DEF Collides
  <2>3. items' = [items EXCEPT ![i] = row] /\ Outdate(DueJob, i)
    BY <2>0, <2>2 DEF Save
  <2>4. /\ items' \in [Items -> Row] /\ items'[i].status = "published"
        /\ \A k \in Items \ {i} : items'[k] = items[k]
    BY <1>0, <1>2, <2>0, <2>3 DEF TypeOK
  <2>5. TypeOK'
    BY <1>0, <1>2, <1>3, <2>3, <2>4, OutdateType DEF TypeOK
  <2>6. ContentInv'
    BY <1>0, <1>2, <1>3, <2>3, <2>4, <2>5, WriteStep
  <2>7. <<DueJob, i>> \in outdated => StaleWrite(i)
    BY <1>0, <1>2, <2>3, OutdatedGone
  <2>8. Due(i) => items[i].status = "scheduled"
    BY DEF Due, Scheduled
  <2>9. LegalStep
    BY <1>2, <2>4, <2>7, <2>8 DEF LegalStep, Transitions
  <2>10. OnTimeStep
    BY <1>2, <2>0, <2>7 DEF OnTimeStep
  <2> QED
    BY <2>6, <2>9, <2>10
<1> QED
  BY <1>4, <1>5

LEMMA ContentStep ==
  ASSUME ContentInv, [Next]_vars
  PROVE  ContentInv' /\ LegalStep /\ OnTimeStep
<1>1. ASSUME UNCHANGED <<items, created, requests, request, due, outdated>>,
             now' \in 0..MaxTime, now <= now'
      PROVE  ContentInv' /\ LegalStep /\ OnTimeStep
  <2>0. TypeOK /\ now \in Nat /\ now' \in Nat
    BY <1>1, BoundAssumption DEF ContentInv, TypeOK
  <2>1. TypeOK' /\ CreatedInv' /\ \A r \in Requests : RequestInv(r)'
    BY <1>1 DEF ContentInv, TypeOK, CreatedInv, Exists, RequestInv
  <2>2. \A i \in due.todo : Due(i) => Due(i)'
    <3>1. \A i \in Items : items[i].publishAt \in Nat
      BY <2>0, BoundAssumption DEF TypeOK, Row
    <3> QED
      BY <1>1, <2>0, <3>1 DEF Due, Scheduled
  <2>3. DueInv'
    BY <1>1, <2>2 DEF ContentInv, DueInv
  <2> QED
    BY <1>1, <2>1, <2>3 DEF ContentInv, LegalStep, OnTimeStep
<1>2. CASE UNCHANGED vars
  <2>1. now' \in 0..MaxTime /\ now <= now'
    BY <1>2, BoundAssumption DEF vars, ContentInv, TypeOK
  <2> QED
    BY <1>1, <1>2, <2>1 DEF vars
<1>3. CASE Tick
  <2>1. now' \in 0..MaxTime /\ now <= now'
    BY <1>3, BoundAssumption DEF Tick, ContentInv, TypeOK
  <2> QED
    BY <1>1, <1>3, <2>1 DEF Tick
<1>4. ASSUME UNCHANGED due PROVE OnTimeStep
  BY <1>4 DEF OnTimeStep
<1>5. ASSUME NEW r \in Requests, RequestNext(r) PROVE ContentInv' /\ LegalStep /\ UNCHANGED due
  <2>1. CASE SaveCopy(r)
    BY <2>1, SaveCopyStep
  <2>2. CASE DeleteRow(r)
    BY <2>2, DeleteRowStep
  <2>3. CASE ~SaveCopy(r) /\ ~DeleteRow(r)
    <3>1. ContentInv' /\ UNCHANGED <<items, due>>
      BY <1>5, <2>3, RequestReadStep DEF RequestNext
    <3> QED
      BY <3>1 DEF LegalStep
  <2> QED
    BY <2>1, <2>2, <2>3
<1> QED
  BY <1>2, <1>3, <1>4, <1>5, ListDueStep, PublishDueStep DEF Next

LEMMA ContentInit ==
  ASSUME Init PROVE ContentInv
<1>1. TypeOK
  BY NoRowType, NoRequestType, BoundAssumption, ItemAssumption DEF Init, TypeOK
<1> QED
  BY <1>1, NoRowType, NoRequestType
     DEF Init, ContentInv, CreatedInv, Exists, DueInv, RequestInv

-----------------------------------------------------------------------------
(* The theorem. *)

\* The invariant holds in all behaviours.
LEMMA ContentInvHolds == Init /\ [][Next]_vars => []ContentInv
<1>1. Init => ContentInv
  BY ContentInit
<1>2. ContentInv /\ [Next]_vars => ContentInv'
  BY ContentStep
<1> QED
  BY <1>1, <1>2, PTL

\* Fairness is not needed for what no step may do.
LEMMA ContentMoves == Init /\ [][Next]_vars => []TypeOK /\ StatusSafe
<1>1. Init /\ [][Next]_vars => [][LegalStep]_vars
  BY ContentStep, ContentInvHolds, PTL
<1>2. Init /\ [][Next]_vars => [][OnTimeStep]_vars
  BY ContentStep, ContentInvHolds, PTL
<1>3. Init /\ [][Next]_vars => LegalMoves
  BY <1>1 DEF LegalMoves, LegalStep
<1>4. Init /\ [][Next]_vars => PublishedOnTime
  BY <1>2 DEF PublishedOnTime, OnTimeStep
<1>5. ContentInv => TypeOK
  BY DEF ContentInv
<1>6. Init /\ [][Next]_vars => []TypeOK
  BY <1>5, ContentInvHolds, PTL
<1> QED
  BY <1>3, <1>4, <1>6 DEF StatusSafe

\* ContentComponent and PublishComponent over one table: the status of an item
\* moves along the status machine, it is published by run_process_due only when
\* its time has come, and a published item is not deleted, however many requests
\* cross, unless an operation writes from a copy that another one outdated.
THEOREM StatusTheorem == Spec => []TypeOK /\ StatusSafe
BY ContentMoves DEF Spec

-----------------------------------------------------------------------------
(***************************************************************************)
(* The unit of work: any number of units, any calls, any number of them.   *)
(***************************************************************************)

(* Databases, and what statements and lists of statements make of them. *)

DB == [row : [Keys -> 0..MaxCalls], parts : [PartKeys -> 0..MaxCalls], latest : SUBSET Versions]

Whats == {"put", "insert", "insert_latest", "remove", "clear_parts", "add_parts", "clear_latest",
          "mark_latest"}
Statement == {s \in [what : Whats, key : Keys, n : 0..MaxCalls] :
                /\ s.what \in {"clear_parts", "add_parts"} => s.key \in PartKeys
                /\ s.what \in {"insert_latest", "mark_latest"} => s.key \in Versions}
Lists == Seq(Statement)

LEMMA DBFacts ==
  ASSUME NEW db \in DB
  PROVE  /\ db.row \in [Keys -> 0..MaxCalls] /\ db.parts \in [PartKeys -> 0..MaxCalls]
         /\ db.latest \in SUBSET Versions
BY DEF DB

\* What a statement leaves alone, and what it sets.
RowAfter(db, s) == IF s.what \in {"put", "insert", "insert_latest"} THEN [db.row EXCEPT ![s.key] = s.n]
                   ELSE IF s.what = "remove" THEN [db.row EXCEPT ![s.key] = 0]
                   ELSE db.row
PartAfter(db, s, k) == IF s.what \in {"remove", "clear_parts"} /\ s.key = k THEN 0
                       ELSE IF s.what = "add_parts" /\ s.key = k THEN s.n
                       ELSE db.parts[k]

LEMMA PerformedFacts ==
  ASSUME NEW db \in DB, NEW s \in Statement
  PROVE  /\ Performed(db, s) \in DB
         /\ Performed(db, s).row = RowAfter(db, s)
         /\ \A k \in PartKeys : Performed(db, s).parts[k] = PartAfter(db, s, k)
<1>1. /\ s.what \in Whats /\ s.key \in Keys /\ s.n \in 0..MaxCalls /\ 0 \in 0..MaxCalls
      /\ s.what \in {"clear_parts", "add_parts"} => s.key \in PartKeys
      /\ s.what \in {"insert_latest", "mark_latest"} => s.key \in Versions
  <2>1. s \in [what : Whats, key : Keys, n : 0..MaxCalls]
    BY DEF Statement
  <2>2. s.what \in Whats /\ s.key \in Keys /\ s.n \in 0..MaxCalls
    BY <2>1
  <2>3. /\ s.what \in {"clear_parts", "add_parts"} => s.key \in PartKeys
        /\ s.what \in {"insert_latest", "mark_latest"} => s.key \in Versions
    BY DEF Statement
  <2> QED
    <3>1. 0 \in 0..MaxCalls
      BY UnitAssumption
    <3> QED
      BY <2>2, <2>3, <3>1
<1>2. /\ db.row \in [Keys -> 0..MaxCalls] /\ db.parts \in [PartKeys -> 0..MaxCalls]
      /\ db.latest \in SUBSET Versions
  BY DBFacts
<1>3. [db.row EXCEPT ![s.key] = s.n] \in [Keys -> 0..MaxCalls]
      /\ [db.row EXCEPT ![s.key] = 0] \in [Keys -> 0..MaxCalls]
  BY <1>1, <1>2
<1>4. db = [row |-> db.row, parts |-> db.parts, latest |-> db.latest]
  BY DEF DB
<1>5. ASSUME NEW r \in [Keys -> 0..MaxCalls], NEW p \in [PartKeys -> 0..MaxCalls],
             NEW l \in SUBSET Versions, Performed(db, s) = [row |-> r, parts |-> p, latest |-> l],
             r = RowAfter(db, s), \A k \in PartKeys : p[k] = PartAfter(db, s, k)
      PROVE  /\ Performed(db, s) \in DB
             /\ Performed(db, s).row = RowAfter(db, s)
             /\ \A k \in PartKeys : Performed(db, s).parts[k] = PartAfter(db, s, k)
  BY <1>5 DEF DB
<1>6. CASE s.what \in {"put", "insert"}
  <2>1. Performed(db, s) = [db EXCEPT !.row[s.key] = s.n]
    BY <1>6 DEF Performed
  <2>2. Performed(db, s) = [row |-> [db.row EXCEPT ![s.key] = s.n], parts |-> db.parts, latest |-> db.latest]
    BY <1>4, <2>1
  <2>5. [db.row EXCEPT ![s.key] = s.n] = RowAfter(db, s)
    BY <1>6 DEF RowAfter
  <2>6. \A k \in PartKeys : db.parts[k] = PartAfter(db, s, k)
    BY <1>6, <2>2 DEF PartAfter
  <2> QED
    BY <1>2, <1>3, <1>5, <2>2, <2>5, <2>6
<1>7. CASE s.what = "insert_latest"
  <2>1. Performed(db, s) = [db EXCEPT !.row[s.key] = s.n, !.latest = @ \union {s.key}]
    BY <1>7 DEF Performed
  <2>2. Performed(db, s) = [row |-> [db.row EXCEPT ![s.key] = s.n], parts |-> db.parts,
                            latest |-> db.latest \union {s.key}]
    BY <1>4, <2>1
  <2>3. db.latest \union {s.key} \in SUBSET Versions
    BY <1>1, <1>2, <1>7
  <2>5. [db.row EXCEPT ![s.key] = s.n] = RowAfter(db, s)
    BY <1>7 DEF RowAfter
  <2>6. \A k \in PartKeys : db.parts[k] = PartAfter(db, s, k)
    BY <1>7, <2>2, <2>3 DEF PartAfter
  <2> QED
    BY <1>2, <1>3, <1>5, <2>2, <2>3, <2>5, <2>6
<1>8. CASE s.what = "remove"
  <2> DEFINE p == [k \in PartKeys |-> IF k = s.key THEN 0 ELSE db.parts[k]]
  <2>1. Performed(db, s) = [db EXCEPT !.row[s.key] = 0, !.parts = p]
    BY <1>8 DEF Performed
  <2>2. p \in [PartKeys -> 0..MaxCalls]
    BY <1>1, <1>2
  <2>3. Performed(db, s) = [row |-> [db.row EXCEPT ![s.key] = 0], parts |-> p, latest |-> db.latest]
    <3> HIDE DEF p
    <3> QED
      BY <1>4, <2>1
  <2>4. \A k \in PartKeys : p[k] = IF s.key = k THEN 0 ELSE db.parts[k]
    OBVIOUS
  <2> HIDE DEF p
  <2>5. [db.row EXCEPT ![s.key] = 0] = RowAfter(db, s)
    BY <1>8 DEF RowAfter
  <2>6. \A k \in PartKeys : p[k] = PartAfter(db, s, k)
    BY <1>8, <2>2, <2>3, <2>4 DEF PartAfter
  <2> QED
    BY <1>2, <1>3, <1>5, <2>2, <2>3, <2>4, <2>5, <2>6
<1>9. CASE s.what = "clear_parts"
  <2>1. Performed(db, s) = [db EXCEPT !.parts[s.key] = 0]
    BY <1>9 DEF Performed
  <2>2. Performed(db, s) = [row |-> db.row, parts |-> [db.parts EXCEPT ![s.key] = 0], latest |-> db.latest]
    BY <1>4, <2>1
  <2>3. [db.parts EXCEPT ![s.key] = 0] \in [PartKeys -> 0..MaxCalls]
        /\ \A k \in PartKeys : [db.parts EXCEPT ![s.key] = 0][k] = IF s.key = k THEN 0 ELSE db.parts[k]
    BY <1>1, <1>2, <1>9
  <2>5. db.row = RowAfter(db, s)
    BY <1>9 DEF RowAfter
  <2>6. \A k \in PartKeys : [db.parts EXCEPT ![s.key] = 0][k] = PartAfter(db, s, k)
    BY <1>9, <2>2, <2>3 DEF PartAfter
  <2> QED
    BY <1>2, <1>3, <1>5, <2>2, <2>3, <2>5, <2>6
<1>10. CASE s.what = "add_parts"
  <2>1. Performed(db, s) = [db EXCEPT !.parts[s.key] = s.n]
    BY <1>10 DEF Performed
  <2>2. Performed(db, s) = [row |-> db.row, parts |-> [db.parts EXCEPT ![s.key] = s.n], latest |-> db.latest]
    BY <1>4, <2>1
  <2>3. [db.parts EXCEPT ![s.key] = s.n] \in [PartKeys -> 0..MaxCalls]
        /\ \A k \in PartKeys : [db.parts EXCEPT ![s.key] = s.n][k] = IF s.key = k THEN s.n ELSE db.parts[k]
    BY <1>1, <1>2, <1>10
  <2>5. db.row = RowAfter(db, s)
    BY <1>10 DEF RowAfter
  <2>6. \A k \in PartKeys : [db.parts EXCEPT ![s.key] = s.n][k] = PartAfter(db, s, k)
    BY <1>10, <2>2, <2>3 DEF PartAfter
  <2> QED
    BY <1>2, <1>3, <1>5, <2>2, <2>3, <2>5, <2>6
<1>11. CASE s.what = "clear_latest"
  <2>1. Performed(db, s) = [db EXCEPT !.latest = {}]
    BY <1>11 DEF Performed
  <2>2. Performed(db, s) = [row |-> db.row, parts |-> db.parts, latest |-> {}]
    BY <1>4, <2>1
  <2>5. db.row = RowAfter(db, s)
    BY <1>11 DEF RowAfter
  <2>6. \A k \in PartKeys : db.parts[k] = PartAfter(db, s, k)
    BY <1>11, <2>2 DEF PartAfter
  <2> QED
    BY <1>2, <1>3, <1>5, <2>2, <2>5, <2>6
<1>12. CASE s.what = "mark_latest"
  <2> DEFINE l == db.latest \union {v \in Versions : v = s.key /\ db.row[v] # 0}
  <2>1. Performed(db, s) = [db EXCEPT !.latest = l]
    BY <1>12 DEF Performed
  <2>2. l \in SUBSET Versions
    BY <1>2
  <2> HIDE DEF l
  <2>3. Performed(db, s) = [row |-> db.row, parts |-> db.parts, latest |-> l]
    BY <1>4, <2>1
  <2>5. db.row = RowAfter(db, s)
    BY <1>12 DEF RowAfter
  <2>6. \A k \in PartKeys : db.parts[k] = PartAfter(db, s, k)
    BY <1>12, <2>2, <2>3 DEF PartAfter
  <2> QED
    BY <1>2, <1>3, <1>5, <2>2, <2>3, <2>5, <2>6
<1> QED
  BY <1>1, <1>6, <1>7, <1>8, <1>9, <1>10, <1>11, <1>12 DEF Whats

Steps(list) == [n \in 1..Len(list) |-> [d \in DB |-> Performed(d, list[n])]]

LEMMA StepsFacts ==
  ASSUME NEW list \in Lists
  PROVE  /\ Len(list) \in Nat /\ DOMAIN list = 1..Len(list)
         /\ \A n \in 1..Len(list) : list[n] \in Statement
         /\ Steps(list) \in [1..Len(list) -> [DB -> DB]]
         /\ \A n \in 1..Len(list), d \in DB : Steps(list)[n][d] = Performed(d, list[n])
<1>1. Len(list) \in Nat /\ DOMAIN list = 1..Len(list) /\ \A n \in 1..Len(list) : list[n] \in Statement
  BY LenProperties, ElementOfSeq DEF Lists
<1>2. \A n \in 1..Len(list) : [d \in DB |-> Performed(d, list[n])] \in [DB -> DB]
  BY <1>1, PerformedFacts
<1> QED
  BY <1>1, <1>2 DEF Steps

\* The databases between the statements of a list.
LEMMA ResultWalk ==
  ASSUME NEW db \in DB, NEW list \in Lists
  PROVE  \E at : Walk(at, DB, Steps(list), db, Len(list)) /\ Result(db, list) = at[Len(list)]
<1> DEFINE k == Len(list)
           f == Steps(list)
           good(at) == at = [n \in 0..k |-> IF n = 0 THEN db ELSE Performed(at[n - 1], list[n])]
<1>1. k \in Nat /\ f \in [1..k -> [DB -> DB]] /\ \A n \in 1..k, d \in DB : f[n][d] = Performed(d, list[n])
  BY StepsFacts
<1>1a. \A n \in 1..k : list[n] \in Statement
  BY StepsFacts
<1> HIDE DEF f
<1>2. PICK h : Walk(h, DB, f, db, k)
  <2> HIDE DEF k
  <2> QED
    BY <1>1, WalkExists
<1>3. h \in [0..k -> DB] /\ h[0] = db /\ \A n \in 1..k : h[n] = f[n][h[n - 1]]
  BY <1>2 DEF Walk
<1> HIDE DEF k
<1>4. good(h)
  <2> DEFINE g == [n \in 0..k |-> IF n = 0 THEN db ELSE Performed(h[n - 1], list[n])]
  <2>1. ASSUME NEW n \in 0..k PROVE h[n] = g[n]
    <3>1. CASE n = 0
      BY <1>3, <3>1
    <3>2. CASE n # 0
      <4>1. n \in 1..k /\ n - 1 \in 0..k
        BY <1>1, <3>2
      <4> QED
        BY <1>1, <1>3, <3>2, <4>1
    <3> QED
      BY <3>1, <3>2
  <2>2. DOMAIN g = 0..k /\ g = [n \in 0..k |-> g[n]]
    OBVIOUS
  <2> HIDE DEF g
  <2>3. h = g
    BY <1>3, <2>1, <2>2
  <2> QED
    BY <2>3 DEF g
<1> DEFINE at == CHOOSE w : good(w)
<1>5. Result(db, list) = at[k]
  BY DEF Result, k
<1>6. good(at)
  <2> HIDE DEF good
  <2> QED
    BY <1>4
<1>7. at = [n \in 0..k |-> IF n = 0 THEN db ELSE Performed(at[n - 1], list[n])]
  BY <1>6
<1> HIDE DEF at
<1> DEFINE T == {n \in Nat : n > k \/ at[n] \in DB}
<1>8. 0 \in T
  <2>1. 0 \in 0..k
    BY <1>1
  <2> QED
    BY <1>7, <2>1
<1>9. ASSUME NEW n \in Nat, n \in T PROVE n + 1 \in T
  <2>s. n + 1 \in Nat /\ (n + 1 > k \/ n + 1 <= k)
    BY <1>1
  <2>1. SUFFICES ASSUME n + 1 <= k PROVE at[n + 1] \in DB
    BY <2>s
  <2>2. n + 1 \in 0..k /\ n + 1 \in 1..k /\ n + 1 # 0 /\ (n + 1) - 1 = n /\ at[n] \in DB
    BY <1>1, <1>9, <2>1
  <2>3. at[n + 1] = Performed(at[n], list[n + 1])
    BY <1>7, <2>2
  <2> QED
    BY <1>1a, <2>2, <2>3, PerformedFacts
<1> HIDE DEF T
<1>10. Nat \subseteq T
  BY <1>8, <1>9, AllNumbers
<1>11. \A n \in 0..k : at[n] \in DB
  BY <1>1, <1>10 DEF T
<1>12. at \in [0..k -> DB] /\ at[0] = db
  BY <1>1, <1>7, <1>11
<1>13. ASSUME NEW n \in 1..k PROVE at[n] = f[n][at[n - 1]]
  <2>1. n \in 0..k /\ n # 0 /\ n - 1 \in 0..k
    BY <1>1
  <2>2. at[n] = Performed(at[n - 1], list[n])
    BY <1>7, <2>1
  <2> QED
    BY <1>1, <1>11, <2>1, <2>2
<1>14. Walk(at, DB, f, db, k)
  BY <1>12, <1>13 DEF Walk
<1> QED
  BY <1>5, <1>14 DEF f, k

LEMMA ResultNone ==
  ASSUME NEW db \in DB
  PROVE  Result(db, <<>>) = db
<1>1. <<>> \in Lists /\ Len(<<>>) = 0
  BY EmptySeq DEF Lists
<1>2. PICK at : Walk(at, DB, Steps(<<>>), db, Len(<<>>)) /\ Result(db, <<>>) = at[Len(<<>>)]
  BY <1>1, ResultWalk
<1> QED
  BY <1>1, <1>2 DEF Walk

LEMMA ResultType ==
  ASSUME NEW db \in DB, NEW list \in Lists
  PROVE  Result(db, list) \in DB
<1>1. PICK at : Walk(at, DB, Steps(list), db, Len(list)) /\ Result(db, list) = at[Len(list)]
  BY ResultWalk
<1>2. Len(list) \in 0..Len(list)
  BY StepsFacts
<1> QED
  BY <1>1, <1>2 DEF Walk

\* One list, and then another.
LEMMA ResultJoin ==
  ASSUME NEW db \in DB, NEW s \in Lists, NEW t \in Lists
  PROVE  s \o t \in Lists /\ Result(db, s \o t) = Result(Result(db, s), t)
<1> DEFINE st == s \o t
           m == Len(s)
           n == Len(t)
<1>1. /\ st \in Lists /\ Len(st) = m + n
      /\ \A i \in 1..(m + n) : st[i] = IF i <= m THEN s[i] ELSE t[i - m]
  BY ConcatProperties DEF Lists
<1>2. m \in Nat /\ n \in Nat
  BY StepsFacts
<1>3. Result(db, s) \in DB
  BY ResultType
<1>4. PICK j : Walk(j, DB, Steps(s), db, m) /\ Result(db, s) = j[m]
  BY ResultWalk
<1>5. PICK i : Walk(i, DB, Steps(t), Result(db, s), n) /\ Result(Result(db, s), t) = i[n]
  BY <1>3, ResultWalk
<1>6. PICK h : Walk(h, DB, Steps(st), db, m + n) /\ Result(db, st) = h[m + n]
  <2> HIDE DEF st, m, n
  <2> QED
    BY <1>1, ResultWalk
<1> HIDE DEF st
<1>7. \A x \in 1..m : x \in 1..(m + n) /\ x <= m
  BY <1>2
<1>8. \A x \in 1..n : m + x \in 1..(m + n) /\ ~(m + x <= m) /\ (m + x) - m = x
  BY <1>2
<1>9. SameSteps(Steps(st), Steps(s), m)
  <2>1. \A x \in 1..m : Steps(s)[x] = [d \in DB |-> Performed(d, s[x])]
    BY DEF Steps
  <2>2. \A x \in 1..m : Steps(st)[x] = [d \in DB |-> Performed(d, st[x])]
    BY <1>1, <1>7 DEF Steps
  <2>3. \A x \in 1..m : st[x] = s[x]
    BY <1>1, <1>7
  <2> QED
    BY <2>1, <2>2, <2>3 DEF SameSteps
<1> HIDE DEF m, n
<1>10. h[m] = Result(db, s)
  <2>1. \A x \in 0..m : j[x] = h[x]
    <3>1. m \in 0..(m + n) /\ m + n \in Nat
      BY <1>2
    <3> QED
      BY <1>4, <1>6, <1>9, <3>1, WalkOnly
  <2>2. m \in 0..m
    BY <1>2
  <2> QED
    BY <1>4, <2>1, <2>2
<1> DEFINE g == [x \in 0..n |-> h[m + x]]
<1>11. Walk(g, DB, Steps(t), Result(db, s), n)
  <2>1. h \in [0..(m + n) -> DB] /\ \A x \in 1..(m + n) : h[x] = Steps(st)[x][h[x - 1]]
    BY <1>6 DEF Walk
  <2>2. \A x \in 0..n : m + x \in 0..(m + n)
    BY <1>2
  <2>3. g \in [0..n -> DB]
    BY <2>1, <2>2
  <2>4. g[0] = Result(db, s)
    <3>1. 0 \in 0..n /\ m + 0 = m
      BY <1>2
    <3> QED
      BY <1>10, <3>1
  <2>5. ASSUME NEW x \in 1..n PROVE g[x] = Steps(t)[x][g[x - 1]]
    <3>1. x \in 0..n /\ x - 1 \in 0..n /\ (m + x) - 1 = m + (x - 1)
      BY <1>2
    <3>2. g[x] = h[m + x] /\ g[x - 1] = h[m + (x - 1)] /\ g[x - 1] \in DB
      BY <2>3, <3>1
    <3> HIDE DEF g
    <3>3. h[m + x] = Steps(st)[m + x][g[x - 1]]
      BY <1>8, <2>1, <3>1, <3>2
    <3>4. st[m + x] = t[x]
      BY <1>1, <1>8
    <3>5. Steps(st)[m + x][g[x - 1]] = Performed(g[x - 1], st[m + x])
      <4>1. m + x \in 1..Len(st)
        BY <1>1, <1>8
      <4> QED
        BY <1>1, <3>2, <4>1, StepsFacts
    <3>6. Steps(t)[x][g[x - 1]] = Performed(g[x - 1], t[x])
      BY <3>2, StepsFacts DEF n
    <3> QED
      BY <3>2, <3>3, <3>4, <3>5, <3>6
  <2> HIDE DEF g
  <2> QED
    BY <2>3, <2>4, <2>5 DEF Walk
<1>12. \A x \in 0..n : g[x] = i[x]
  <2> HIDE DEF g
  <2>1. SameSteps(Steps(t), Steps(t), n) /\ n \in 0..n
    BY <1>2 DEF SameSteps
  <2> QED
    BY <1>2, <1>3, <1>5, <1>11, <2>1, WalkOnly
<1>13. g[n] = h[m + n] /\ n \in 0..n
  BY <1>2
<1>14. Result(db, st) = Result(Result(db, s), t)
  BY <1>5, <1>6, <1>12, <1>13
<1> QED
  BY <1>1, <1>14 DEF st

LEMMA ResultOne ==
  ASSUME NEW db \in DB, NEW e \in Statement
  PROVE  <<e>> \in Lists /\ Result(db, <<e>>) = Performed(db, e)
<1>1. <<e>> \in Lists /\ Len(<<e>>) = 1 /\ <<e>>[1] = e
  BY DEF Lists
<1>2. PICK list : list = <<e>>
  OBVIOUS
<1>3. list \in Lists /\ Len(list) = 1 /\ list[1] = e
  BY <1>1, <1>2
<1>4. PICK at : Walk(at, DB, Steps(list), db, Len(list)) /\ Result(db, list) = at[Len(list)]
  BY <1>3, ResultWalk
<1>5. at[0] = db /\ at[1] = Steps(list)[1][at[1 - 1]]
  BY <1>3, <1>4 DEF Walk
<1>6. Steps(list)[1][db] = Performed(db, e)
  BY <1>3, StepsFacts
<1> QED
  BY <1>1, <1>2, <1>3, <1>4, <1>5, <1>6

LEMMA ResultHead ==
  ASSUME NEW db \in DB, NEW s \in Lists, s # <<>>
  PROVE  /\ Head(s) \in Statement /\ Tail(s) \in Lists /\ Len(Tail(s)) = Len(s) - 1
         /\ Performed(db, Head(s)) \in DB
         /\ Result(Performed(db, Head(s)), Tail(s)) = Result(db, s)
<1>1. /\ Head(s) \in Statement /\ Tail(s) \in Lists /\ Len(Tail(s)) = Len(s) - 1
      /\ \A i \in 1..Len(Tail(s)) : Tail(s)[i] = s[i + 1]
  BY HeadTailProperties DEF Lists
<1>2. Len(s) \in Nat /\ s[1] = Head(s) /\ Len(s) # 0
  BY EmptySeq, LenProperties DEF Lists
<1>3. <<Head(s)>> \in Lists /\ Result(db, <<Head(s)>>) = Performed(db, Head(s))
  BY <1>1, ResultOne
<1>4. PICK one : one = <<Head(s)>>
  OBVIOUS
<1>5. one \in Lists /\ Len(one) = 1 /\ one[1] = Head(s)
  BY <1>3, <1>4
<1>6. PICK rest : rest = Tail(s)
  OBVIOUS
<1>7. rest \in Lists /\ Len(rest) = Len(s) - 1 /\ \A i \in 1..Len(rest) : rest[i] = s[i + 1]
  BY <1>1, <1>6
<1>8. /\ one \o rest \in Lists /\ Len(one \o rest) = 1 + Len(rest)
      /\ \A i \in 1..(1 + Len(rest)) : (one \o rest)[i] = IF i <= 1 THEN one[i] ELSE rest[i - 1]
  <2>1. /\ one \o rest \in Lists /\ Len(one \o rest) = Len(one) + Len(rest)
        /\ \A i \in 1..(Len(one) + Len(rest)) :
             (one \o rest)[i] = IF i <= Len(one) THEN one[i] ELSE rest[i - Len(one)]
    <3>1. one \in Seq(Statement) /\ rest \in Seq(Statement)
      BY <1>5, <1>7 DEF Lists
    <3>2. one \o rest \in Seq(Statement)
      BY <3>1, ConcatProperties
    <3>3. /\ Len(one \o rest) = Len(one) + Len(rest)
          /\ \A i \in 1..(Len(one) + Len(rest)) :
               (one \o rest)[i] = IF i <= Len(one) THEN one[i] ELSE rest[i - Len(one)]
      BY <3>1, ConcatProperties
    <3> QED
      BY <3>2, <3>3 DEF Lists
  <2> QED
    BY <1>5, <2>1
<1>9. s = one \o rest
  <2>1. Len(one \o rest) = Len(s)
    BY <1>2, <1>7, <1>8
  <2>2. ASSUME NEW i \in 1..Len(s) PROVE s[i] = (one \o rest)[i]
    <3>1. CASE i = 1
      BY <1>2, <1>5, <1>7, <1>8, <3>1
    <3>2. CASE i # 1
      <4>1. i - 1 \in 1..Len(rest) /\ (i - 1) + 1 = i /\ ~(i <= 1) /\ i \in 1..(1 + Len(rest))
        BY <1>2, <1>7, <3>2
      <4> QED
        BY <1>7, <1>8, <4>1
    <3> QED
      BY <3>1, <3>2
  <2> QED
    BY <1>8, <2>1, <2>2, SeqEqual DEF Lists
<1>10. Result(db, one \o rest) = Result(Result(db, one), rest)
  BY <1>5, <1>7, ResultJoin
<1> QED
  BY <1>1, <1>3, <1>4, <1>6, <1>9, <1>10, PerformedFacts


-----------------------------------------------------------------------------
(* A call as a whole leaves to every item and user the parts of its row. *)

Whole(db) == \A k \in PartKeys : db.parts[k] = db.row[k]
KeepsWhole(list) == \A db \in DB : Whole(db) => Whole(Result(db, list))
Good(list) == list \in Lists /\ list # <<>> /\ KeepsWhole(list)

\* A statement that touches no item and no user, or leaves a row and its parts alike.
Harmless(s) ==
  s.key \notin PartKeys \/ s.what \notin {"put", "insert", "insert_latest", "clear_parts", "add_parts"}

LEMMA ShortLists ==
  ASSUME NEW s \in Statement, NEW t \in Statement
  PROVE  /\ <<s>> \in Lists /\ <<s>> # <<>>
         /\ <<s, t>> \in Lists /\ <<s, t>> # <<>> /\ Head(<<s, t>>) = s /\ Tail(<<s, t>>) = <<t>>
<1>1. <<s>> \in Lists /\ <<s, t>> \in Lists
  BY DEF Lists
<1>2. Len(<<s>>) = 1 /\ Len(<<s, t>>) = 2 /\ Len(<<>>) = 0
  OBVIOUS
<1>3. Head(<<s, t>>) = s
  OBVIOUS
<1>4. Tail(<<s, t>>) = <<t>>
  OBVIOUS
<1>5. <<s>> # <<>> /\ <<s, t>> # <<>>
  BY <1>2
<1> QED
  BY <1>1, <1>3, <1>4, <1>5

LEMMA ApartWhole ==
  ASSUME NEW db \in DB, Whole(db), NEW s \in Statement, Harmless(s)
  PROVE  Whole(Performed(db, s))
<1>1. s.key \in Keys /\ s.what \in Whats
  <2>1. s \in [what : Whats, key : Keys, n : 0..MaxCalls]
    BY DEF Statement
  <2> QED
    BY <2>1
<1>2. /\ Performed(db, s).row = RowAfter(db, s)
      /\ \A k \in PartKeys : Performed(db, s).parts[k] = PartAfter(db, s, k)
      /\ db.row \in [Keys -> 0..MaxCalls] /\ PartKeys \subseteq Keys
  BY PerformedFacts, DBFacts DEF PartKeys, Keys
<1>3. ASSUME NEW k \in PartKeys PROVE RowAfter(db, s)[k] = PartAfter(db, s, k)
  <2>1. db.row[k] = db.parts[k]
    BY DEF Whole
  <2>2. CASE s.key = k
    <3>1. s.what \notin {"put", "insert", "insert_latest", "clear_parts", "add_parts"}
      BY <2>2 DEF Harmless
    <3>2. CASE s.what = "remove"
      BY <1>2, <2>2, <3>2 DEF RowAfter, PartAfter
    <3>3. CASE s.what # "remove"
      BY <2>1, <3>1, <3>3 DEF RowAfter, PartAfter
    <3> QED
      BY <3>2, <3>3
  <2>3. CASE s.key # k
    BY <1>2, <2>1, <2>3 DEF RowAfter, PartAfter
  <2> QED
    BY <2>2, <2>3
<1> QED
  BY <1>2, <1>3 DEF Whole

LEMMA GoodOne ==
  ASSUME NEW s \in Statement, Harmless(s)
  PROVE  Good(<<s>>)
<1>1. <<s>> \in Lists /\ <<s>> # <<>>
  BY ShortLists
<1>2. \A db \in DB : Whole(db) => Whole(Result(db, <<s>>))
  BY ApartWhole, ResultOne
<1> QED
  BY <1>1, <1>2 DEF Good, KeepsWhole

LEMMA GoodTwo ==
  ASSUME NEW s \in Statement, NEW t \in Statement, Harmless(s), Harmless(t)
  PROVE  Good(<<s, t>>)
<1>1. <<s, t>> \in Lists /\ <<s, t>> # <<>> /\ Head(<<s, t>>) = s /\ Tail(<<s, t>>) = <<t>>
  BY ShortLists
<1>2. PICK list : list = <<s, t>>
  OBVIOUS
<1>3. ASSUME NEW db \in DB, Whole(db) PROVE Whole(Result(db, list))
  <2>1. list \in Lists /\ list # <<>> /\ Head(list) = s /\ Tail(list) = <<t>>
    BY <1>1, <1>2
  <2>2. Performed(db, s) \in DB /\ Result(db, list) = Result(Performed(db, s), <<t>>)
    BY <2>1, ResultHead
  <2>3. Whole(Performed(db, s))
    BY <1>3, ApartWhole
  <2>4. Result(Performed(db, s), <<t>>) = Performed(Performed(db, s), t)
    BY <2>2, ResultOne
  <2>5. Whole(Performed(Performed(db, s), t))
    BY <2>2, <2>3, ApartWhole
  <2> QED
    BY <2>2, <2>4, <2>5
<1> QED
  BY <1>1, <1>2, <1>3 DEF Good, KeepsWhole

\* A row and its parts, written anew.
LEMMA GoodSave ==
  ASSUME NEW k \in PartKeys, NEW n \in 0..MaxCalls
  PROVE  Good(<<Do("put", k, n), Do("clear_parts", k, n), Do("add_parts", k, n)>>)
<1>1. PICK a : a = Do("put", k, n)
  OBVIOUS
<1>2. PICK b : b = Do("clear_parts", k, n)
  OBVIOUS
<1>3. PICK c : c = Do("add_parts", k, n)
  OBVIOUS
<1>4. /\ a.what = "put" /\ b.what = "clear_parts" /\ c.what = "add_parts"
      /\ a.key = k /\ b.key = k /\ c.key = k /\ a.n = n /\ b.n = n /\ c.n = n
  BY <1>1, <1>2, <1>3 DEF Do
<1>5. k \in Keys
  BY DEF PartKeys, Keys
<1>6. a \in Statement /\ b \in Statement /\ c \in Statement
  <2>1. /\ a \in [what : Whats, key : Keys, n : 0..MaxCalls]
        /\ b \in [what : Whats, key : Keys, n : 0..MaxCalls]
        /\ c \in [what : Whats, key : Keys, n : 0..MaxCalls]
    BY <1>1, <1>2, <1>3, <1>5 DEF Do, Whats
  <2> QED
    BY <1>4, <2>1 DEF Statement
<1>7. PICK list : list = <<a, b, c>>
  OBVIOUS
<1>8. /\ list \in Lists /\ list # <<>> /\ Head(list) = a /\ Tail(list) = <<b, c>>
  BY <1>6, <1>7 DEF Lists
<1>9. PICK last : last = <<b, c>>
  OBVIOUS
<1>10. /\ last \in Lists /\ last # <<>> /\ Head(last) = b /\ Tail(last) = <<c>>
  BY <1>6, <1>9 DEF Lists
<1>11. ASSUME NEW db \in DB, Whole(db) PROVE Whole(Result(db, list))
  <2>1. PICK da : da = Performed(db, a)
    OBVIOUS
  <2>2. PICK d2 : d2 = Performed(da, b)
    OBVIOUS
  <2>3. PICK dc : dc = Performed(d2, c)
    OBVIOUS
  <2>4. da \in DB /\ d2 \in DB /\ dc \in DB
    BY <1>6, <2>1, <2>2, <2>3, PerformedFacts
  <2>5. Result(db, list) = Result(da, last)
    BY <1>8, <1>9, <2>1, ResultHead
  <2>6. Result(da, last) = Result(d2, <<c>>)
    BY <1>10, <2>2, <2>4, ResultHead
  <2>7. Result(d2, <<c>>) = dc
    BY <1>6, <2>3, <2>4, ResultOne
  <2>8. /\ da.row = [db.row EXCEPT ![k] = n] /\ \A x \in PartKeys : da.parts[x] = db.parts[x]
    <3>1. da.row = RowAfter(db, a) /\ \A x \in PartKeys : da.parts[x] = PartAfter(db, a, x)
      BY <1>6, <2>1, PerformedFacts
    <3>2. RowAfter(db, a) = [db.row EXCEPT ![k] = n] /\ \A x \in PartKeys : PartAfter(db, a, x) = db.parts[x]
      BY <1>4 DEF RowAfter, PartAfter
    <3> QED
      BY <3>1, <3>2
  <2>9. d2.row = da.row /\ \A x \in PartKeys : x # k => d2.parts[x] = da.parts[x]
    <3>1. d2.row = RowAfter(da, b) /\ \A x \in PartKeys : d2.parts[x] = PartAfter(da, b, x)
      BY <1>6, <2>2, <2>4, PerformedFacts
    <3>2. RowAfter(da, b) = da.row /\ \A x \in PartKeys : x # k => PartAfter(da, b, x) = da.parts[x]
      BY <1>4 DEF RowAfter, PartAfter
    <3> QED
      BY <3>1, <3>2
  <2>10. dc.row = d2.row /\ dc.parts[k] = n /\ \A x \in PartKeys : x # k => dc.parts[x] = d2.parts[x]
    <3>1. dc.row = RowAfter(d2, c) /\ \A x \in PartKeys : dc.parts[x] = PartAfter(d2, c, x)
      BY <1>6, <2>3, <2>4, PerformedFacts
    <3>2. RowAfter(d2, c) = d2.row /\ PartAfter(d2, c, k) = n
          /\ \A x \in PartKeys : x # k => PartAfter(d2, c, x) = d2.parts[x]
      BY <1>4 DEF RowAfter, PartAfter
    <3> QED
      BY <3>1, <3>2
  <2>11. db.row \in [Keys -> 0..MaxCalls] /\ PartKeys \subseteq Keys
    BY DBFacts DEF PartKeys, Keys
  <2>12. Whole(dc)
    BY <1>11, <2>8, <2>9, <2>10, <2>11 DEF Whole
  <2> QED
    BY <2>5, <2>6, <2>7, <2>12
<1>12. Good(list)
  BY <1>8, <1>11 DEF Good, KeepsWhole
<1> QED
  BY <1>1, <1>2, <1>3, <1>7, <1>12

Fits(what, key) == /\ what \in {"clear_parts", "add_parts"} => key \in PartKeys
                   /\ what \in {"insert_latest", "mark_latest"} => key \in Versions

LEMMA StatementOf ==
  ASSUME NEW what \in Whats, NEW key \in Keys, NEW n \in 0..MaxCalls, Fits(what, key)
  PROVE  Do(what, key, n) \in Statement /\ Do(what, key, n).key = key /\ Do(what, key, n).what = what
<1>1. PICK s : s = Do(what, key, n)
  OBVIOUS
<1>2. s.key = key /\ s.what = what /\ s \in [what : Whats, key : Keys, n : 0..MaxCalls]
  BY <1>1 DEF Do
<1>3. s \in Statement
  BY <1>2 DEF Statement, Fits
<1> QED
  BY <1>1, <1>2, <1>3

LEMMA CallGood ==
  ASSUME NEW c \in CallsThere, NEW n \in 0..MaxCalls
  PROVE  Good(Statements(c, n)) /\ c.repo \in Repos
<1>k. /\ {"settings", "item", "user", "asset", "redirect", "event"} \subseteq Keys /\ Versions \subseteq Keys
      /\ \A k \in {"settings", "asset", "redirect", "event"} : k \notin PartKeys
      /\ \A v \in Versions : v \notin PartKeys
      /\ "item" \in PartKeys /\ "user" \in PartKeys
  BY DEF Keys, PartKeys, Versions
<1>1. ASSUME NEW k \in {"settings", "asset", "redirect"} PROVE Good(<<Do("put", k, n)>>)
  <2>1. "put" \in Whats /\ Fits("put", k)
    BY DEF Whats, Fits
  <2>2. k \in Keys /\ k \notin PartKeys
    BY <1>k
  <2>3. Do("put", k, n) \in Statement /\ Do("put", k, n).key = k
    BY <2>1, <2>2, StatementOf
  <2> QED
    BY <2>2, <2>3, GoodOne DEF Harmless
<1>2. ASSUME NEW k \in {"item", "asset", "redirect"} PROVE Good(<<Do("remove", k, n)>>)
  <2>1. /\ "remove" \in Whats /\ Fits("remove", k)
        /\ "remove" \notin {"put", "insert", "insert_latest", "clear_parts", "add_parts"}
    BY DEF Whats, Fits
  <2>2. k \in Keys
    BY <1>k
  <2>3. Do("remove", k, n) \in Statement /\ Do("remove", k, n).what = "remove"
    BY <2>1, <2>2, StatementOf
  <2> QED
    BY <2>1, <2>3, GoodOne DEF Harmless
<1>3. Good(<<Do("insert", "event", n)>>)
  <2>1. "insert" \in Whats /\ Fits("insert", "event") /\ "event" \in Keys /\ "event" \notin PartKeys
    BY <1>k DEF Whats, Fits
  <2>2. Do("insert", "event", n) \in Statement /\ Do("insert", "event", n).key = "event"
    BY <2>1, StatementOf
  <2> QED
    BY <2>1, <2>2, GoodOne DEF Harmless
<1>4. ASSUME NEW v \in Versions PROVE Good(<<Do("insert_latest", v, n)>>)
  <2>1. "insert_latest" \in Whats /\ Fits("insert_latest", v) /\ v \in Keys /\ v \notin PartKeys
    BY <1>k DEF Whats, Fits
  <2>2. Do("insert_latest", v, n) \in Statement /\ Do("insert_latest", v, n).key = v
    BY <2>1, StatementOf
  <2> QED
    BY <2>1, <2>2, GoodOne DEF Harmless
<1>5. ASSUME NEW v \in Versions PROVE Good(<<Do("clear_latest", v, n), Do("mark_latest", v, n)>>)
  <2>1. /\ "clear_latest" \in Whats /\ Fits("clear_latest", v)
        /\ "mark_latest" \in Whats /\ Fits("mark_latest", v)
        /\ v \in Keys /\ v \notin PartKeys
    BY <1>k DEF Whats, Fits
  <2>2. Do("clear_latest", v, n) \in Statement /\ Do("clear_latest", v, n).key = v
    BY <2>1, StatementOf
  <2>3. Do("mark_latest", v, n) \in Statement /\ Do("mark_latest", v, n).key = v
    BY <2>1, StatementOf
  <2> QED
    BY <2>1, <2>2, <2>3, GoodTwo DEF Harmless
<1>6. CASE c \in [repo : {"settings", "content", "assets", "users", "redirects"}, of : {"save"}, at : {"none"}]
  <2>1. c.repo \in {"settings", "content", "assets", "users", "redirects"} /\ c.of = "save"
    BY <1>6
  <2>2. Statements(c, n) \in {SaveSettings(n), SaveContent(n), SaveAsset(n), SaveUser(n), SaveRedirect(n)}
    BY <2>1 DEF Statements
  <2>3. Good(SaveSettings(n)) /\ Good(SaveAsset(n)) /\ Good(SaveRedirect(n))
    BY <1>1 DEF SaveSettings, SaveAsset, SaveRedirect
  <2>4. Good(SaveContent(n)) /\ Good(SaveUser(n))
    BY <1>k, GoodSave DEF SaveContent, SaveUser
  <2> QED
    BY <2>1, <2>2, <2>3, <2>4 DEF Repos
<1>7. CASE c \in [repo : {"content", "assets", "redirects"}, of : {"delete"}, at : {"none"}]
  <2>1. c.repo \in {"content", "assets", "redirects"} /\ c.of = "delete"
    BY <1>7
  <2>2. Statements(c, n) \in {DeleteContent(n), DeleteAsset(n), DeleteRedirect(n)}
    BY <2>1 DEF Statements
  <2>3. Good(DeleteContent(n)) /\ Good(DeleteAsset(n)) /\ Good(DeleteRedirect(n))
    BY <1>2 DEF DeleteContent, DeleteAsset, DeleteRedirect
  <2> QED
    BY <2>1, <2>2, <2>3 DEF Repos
<1>8. CASE c \in [repo : {"audit_log"}, of : {"append"}, at : {"none"}]
  <2>1. c.repo = "audit_log" /\ c.of = "append"
    BY <1>8
  <2>2. Statements(c, n) = AppendEvent(n)
    BY <2>1 DEF Statements
  <2> QED
    BY <1>3, <2>1, <2>2 DEF Repos, AppendEvent
<1>9. CASE c \in [repo : {"asset_versions"}, of : {"save", "set_latest"}, at : Versions]
  <2>1. c.repo = "asset_versions" /\ c.of \in {"save", "set_latest"} /\ c.at \in Versions
    BY <1>9
  <2>2. Statements(c, n) \in {SaveVersion(c.at, n), SetLatest(c.at, n)}
    BY <2>1 DEF Statements
  <2>3. Good(SaveVersion(c.at, n)) /\ Good(SetLatest(c.at, n))
    BY <1>4, <1>5, <2>1 DEF SaveVersion, SetLatest
  <2> QED
    BY <2>1, <2>2, <2>3 DEF Repos
<1> QED
  BY <1>6, <1>7, <1>8, <1>9 DEF CallsThere


-----------------------------------------------------------------------------
(* The invariant.  Its parts speak of one unit x, of thread u, and of the   *)
(* lock l, the database d, and the database w of the connection that has    *)
(* the lock.                                                                *)

UnitViews == [at : {"none", "torn"}]
           \union [at : {"row", "crossed"}, key : PartKeys, row : 0..MaxCalls]
Bindings == {"none", "own", "unit", "closed"}
AUnit == [inside : BOOLEAN, bound : [Repos -> Bindings], on : {"own", "unit", "closed"},
          call : Lists, todo : Lists, raised : BOOLEAN, done : Lists, view : UnitViews]
Locks == {NoLock} \union (Units \X {"unit", "own"})

\* A call under way is one of the repositories', with a rest of it to do; a unit outside its
\* block has done nothing and has no connection.
UnitOK(x) ==
  /\ x.call = <<>> => x.todo = <<>> /\ ~x.raised
  /\ x.raised => x.inside
  /\ Len(x.todo) <= Len(x.call)
  /\ x.call # <<>> => Good(x.call)
  /\ ~x.inside => x.done = <<>> /\ (x.call # <<>> => x.on # "unit")
  /\ ~x.inside => \A r \in Repos : x.bound[r] # "unit"

\* The connection of a unit has the lock: it reads what the unit has done, and of a call
\* under way what is not still to do.
UnitHolds(x, d, w) ==
  /\ x.inside /\ Whole(Result(d, x.done))
  /\ x.on # "unit" \/ x.todo = x.call => w = Result(d, x.done)
  /\ x.on = "unit" => Result(w, x.todo) = Result(Result(d, x.done), x.call)

OwnHolds(x, d, w) ==
  x.on = "own" /\ x.call # <<>> /\ ~x.raised /\ Result(w, x.todo) = Result(d, x.call)

\* Without the lock nothing is done that could be lost.
HeldIn(x, u, l, d, w) ==
  /\ l = <<u, "unit">> => UnitHolds(x, d, w)
  /\ l = <<u, "own">> => OwnHolds(x, d, w)
  /\ l # <<u, "unit">> => x.done = <<>> /\ (x.on = "unit" => x.todo = x.call)
  /\ x.on = "closed" => x.todo = x.call
  /\ x.on = "own" /\ l # <<u, "own">> /\ ~x.raised => x.todo = x.call

Reads(c, l, d, w) == IF l = c THEN w ELSE d

\* A row that was read is the one its connection still reads.
ViewIn(x, u, l, d, w) ==
  /\ x.view.at # "torn"
  /\ x.view.at = "row" => x.call = <<>> /\ x.view.row = Reads(<<u, x.on>>, l, d, w).row[x.view.key]

Fine(x, u, l, d, w) == HeldIn(x, u, l, d, w) /\ ViewIn(x, u, l, d, w)

InvOf(d, w, l, p, un, s) ==
  /\ d \in DB /\ w \in DB /\ p \in DB /\ l \in Locks /\ un \in [Units -> AUnit] /\ s \in BOOLEAN
  /\ \A v \in Units : UnitOK(un[v])
  /\ ~s => d = p /\ Whole(d) /\ \A v \in Units : Fine(un[v], v, l, d, w)

UnitsInv ==
  InvOf(disk, work, lock, promised, unit, spoiled) /\ callsMade \in 0..MaxCalls

-----------------------------------------------------------------------------
(* What a step of one unit does to the others. *)

NotOf(l, v) == \A b \in {"own", "unit", "closed"} : l # <<v, b>>

\* A unit whose connections have not the lock does not depend on who has it.
LEMMA FarHeld ==
  ASSUME NEW x, NEW v, NEW l, NEW d, NEW w, NEW l2, NEW d2, NEW w2,
         HeldIn(x, v, l, d, w), NotOf(l, v), NotOf(l2, v)
  PROVE  HeldIn(x, v, l2, d2, w2)
BY DEF HeldIn, NotOf

LEMMA FarView ==
  ASSUME NEW x \in AUnit, NEW v, NEW l, NEW d, NEW w, NEW l2, NEW w2,
         ViewIn(x, v, l, d, w), NotOf(l, v), NotOf(l2, v)
  PROVE  ViewIn(x, v, l2, d, w2)
<1>1. x.on \in {"own", "unit", "closed"}
  BY DEF AUnit
<1> QED
  <2>1. Reads(<<v, x.on>>, l, d, w) = d /\ Reads(<<v, x.on>>, l2, d, w2) = d
    BY <1>1 DEF Reads, NotOf
  <2> QED
    BY <2>1 DEF ViewIn

\* The lock goes from a connection of u, or from none, to one of u or none.
Local(u, l, l2) == l \in {NoLock, <<u, "unit">>, <<u, "own">>} /\ l2 \in {NoLock, <<u, "unit">>, <<u, "own">>}

LEMMA LocalFar ==
  ASSUME NEW u, NEW v, u # v, NEW l, NEW l2, Local(u, l, l2)
  PROVE  NotOf(l, v) /\ NotOf(l2, v)
BY DEF Local, NotOf, NoLock

Silent(u, l, w, l2, w2) ==
  \/ l2 = l /\ w2 = w
  \/ Local(u, l, l2)

\* A step that leaves the database alone.
LEMMA QuietStep ==
  ASSUME NEW d, NEW w, NEW l, NEW p, NEW un, NEW s, InvOf(d, w, l, p, un, s),
         NEW u \in Units, NEW y \in AUnit, UnitOK(y), NEW w2 \in DB, NEW l2 \in Locks,
         NEW s2 \in BOOLEAN, s2 \/ (~s /\ Fine(y, u, l2, d, w2)), Silent(u, l, w, l2, w2)
  PROVE  InvOf(d, w2, l2, p, [un EXCEPT ![u] = y], s2)
<1> DEFINE un2 == [un EXCEPT ![u] = y]
<1>1. d \in DB /\ p \in DB /\ un \in [Units -> AUnit] /\ \A v \in Units : UnitOK(un[v])
  BY DEF InvOf
<1>2. un2 \in [Units -> AUnit] /\ un2[u] = y /\ \A v \in Units : v # u => un2[v] = un[v]
  BY <1>1
<1> HIDE DEF un2
<1>3. \A v \in Units : UnitOK(un2[v])
  BY <1>1, <1>2
<1>4. ASSUME ~s2 PROVE d = p /\ Whole(d) /\ \A v \in Units : Fine(un2[v], v, l2, d, w2)
  <2>1. ~s /\ Fine(y, u, l2, d, w2)
    BY <1>4
  <2>2. d = p /\ Whole(d) /\ \A v \in Units : Fine(un[v], v, l, d, w)
    BY <2>1 DEF InvOf
  <2>3. ASSUME NEW v \in Units, v # u PROVE Fine(un[v], v, l2, d, w2)
    <3>1. CASE l2 = l /\ w2 = w
      BY <2>2, <3>1
    <3>2. CASE Local(u, l, l2)
      <4>1. NotOf(l, v) /\ NotOf(l2, v)
        BY <2>3, <3>2, LocalFar
      <4>2. un[v] \in AUnit /\ HeldIn(un[v], v, l, d, w) /\ ViewIn(un[v], v, l, d, w)
        BY <1>1, <2>2 DEF Fine
      <4> QED
        BY <4>1, <4>2, FarHeld, FarView DEF Fine
    <3> QED
      BY <3>1, <3>2 DEF Silent
  <2> QED
    BY <1>2, <2>1, <2>2, <2>3
<1> QED
  BY <1>1, <1>2, <1>3, <1>4 DEF InvOf, un2

\* A commit: who is half way through reading has read an older row.
Crossed(x) == IF x.view.at = "row" THEN [x EXCEPT !.view.at = "crossed"] ELSE x

LEMMA UnitFields ==
  ASSUME NEW x \in AUnit
  PROVE  /\ x.inside \in BOOLEAN /\ x.bound \in [Repos -> Bindings] /\ x.on \in {"own", "unit", "closed"}
         /\ x.call \in Lists /\ x.todo \in Lists /\ x.raised \in BOOLEAN /\ x.done \in Lists
         /\ x.view \in UnitViews
         /\ x = [inside |-> x.inside, bound |-> x.bound, on |-> x.on, call |-> x.call, todo |-> x.todo,
                 raised |-> x.raised, done |-> x.done, view |-> x.view]
BY DEF AUnit

LEMMA CrossedFacts ==
  ASSUME NEW x \in AUnit
  PROVE  /\ Crossed(x) \in AUnit /\ Crossed(x).view.at # "row"
         /\ Crossed(x).view.at = "torn" => x.view.at = "torn"
         /\ UnitOK(x) => UnitOK(Crossed(x))
         /\ \A u, l, d, w : HeldIn(x, u, l, d, w) => HeldIn(Crossed(x), u, l, d, w)
<1>1. CASE x.view.at # "row"
  BY <1>1 DEF Crossed
<1>2. CASE x.view.at = "row"
  <2>1. x.view \in [at : {"row", "crossed"}, key : PartKeys, row : 0..MaxCalls]
    BY <1>2, UnitFields DEF UnitViews
  <2>2. PICK w : w = [at |-> "crossed", key |-> x.view.key, row |-> x.view.row]
    OBVIOUS
  <2>3. w \in UnitViews /\ w.at = "crossed" /\ w = [x.view EXCEPT !.at = "crossed"]
    <3>1. w = [x.view EXCEPT !.at = "crossed"]
      BY <2>1, <2>2
    <3>2. w \in [at : {"row", "crossed"}, key : PartKeys, row : 0..MaxCalls] /\ w.at = "crossed"
      BY <2>1, <2>2
    <3> QED
      BY <3>1, <3>2 DEF UnitViews
  <2>4. Crossed(x) = [x EXCEPT !.view.at = "crossed"]
    BY <1>2 DEF Crossed
  <2>5. Crossed(x) = [x EXCEPT !.view = w]
    BY <2>3, <2>4
  <2>6. PICK y : y = Crossed(x)
    OBVIOUS
  <2>7. y = [inside |-> x.inside, bound |-> x.bound, on |-> x.on, call |-> x.call, todo |-> x.todo,
             raised |-> x.raised, done |-> x.done, view |-> w]
    BY <2>5, <2>6, UnitFields
  <2>8. y \in AUnit
    BY <2>3, <2>7, UnitFields DEF AUnit
  <2>9. /\ y.inside = x.inside /\ y.bound = x.bound /\ y.on = x.on /\ y.call = x.call /\ y.todo = x.todo
        /\ y.raised = x.raised /\ y.done = x.done /\ y.view.at = "crossed"
    BY <2>3, <2>7
  <2>10. UnitOK(x) => UnitOK(y)
    BY <2>9 DEF UnitOK
  <2>11. \A u, l, d, v : HeldIn(x, u, l, d, v) => HeldIn(y, u, l, d, v)
    BY <2>9 DEF HeldIn, UnitHolds, OwnHolds
  <2> QED
    BY <2>6, <2>8, <2>9, <2>10, <2>11
<1> QED
  BY <1>1, <1>2

LEMMA CommitStep ==
  ASSUME NEW d, NEW w, NEW l, NEW p, NEW un, NEW s, InvOf(d, w, l, p, un, s),
         NEW u \in Units, NEW y \in AUnit, UnitOK(y), NEW p2 \in DB,
         NEW s2 \in BOOLEAN, l \in {<<u, "unit">>, <<u, "own">>},
         s2 \/ (~s /\ w = p2 /\ Whole(w) /\ Fine(y, u, NoLock, w, w)),
         NEW un2, un2 = [v \in Units |-> Crossed([un EXCEPT ![u] = y][v])]
  PROVE  InvOf(w, w, NoLock, p2, un2, s2)
<1>1. w \in DB /\ un \in [Units -> AUnit] /\ \A v \in Units : UnitOK(un[v])
  BY DEF InvOf
<1>2. PICK us : us = [un EXCEPT ![u] = y]
  OBVIOUS
<1>3. us \in [Units -> AUnit] /\ us[u] = y /\ \A v \in Units : v # u => us[v] = un[v]
  BY <1>1, <1>2
<1>4. un2 = [v \in Units |-> Crossed(us[v])]
  BY <1>2
<1>5. un2 \in [Units -> AUnit] /\ \A v \in Units : un2[v] = Crossed(us[v]) /\ UnitOK(un2[v])
  <2>1. \A v \in Units : Crossed(us[v]) \in AUnit /\ UnitOK(Crossed(us[v]))
    BY <1>1, <1>3, CrossedFacts
  <2> QED
    BY <1>4, <2>1
<1>6. ASSUME ~s2 PROVE w = p2 /\ Whole(w) /\ \A v \in Units : Fine(un2[v], v, NoLock, w, w)
  <2>1. ~s /\ w = p2 /\ Whole(w) /\ HeldIn(y, u, NoLock, w, w) /\ ViewIn(y, u, NoLock, w, w)
    BY <1>6 DEF Fine
  <2>2. \A v \in Units : HeldIn(un[v], v, l, d, w) /\ ViewIn(un[v], v, l, d, w)
    BY <2>1 DEF InvOf, Fine
  <2>3. ASSUME NEW v \in Units PROVE HeldIn(us[v], v, NoLock, w, w) /\ us[v].view.at # "torn"
    <3>1. CASE v = u
      BY <1>3, <2>1, <3>1 DEF ViewIn
    <3>2. CASE v # u
      <4>1. NotOf(l, v) /\ NotOf(NoLock, v)
        BY <3>2 DEF NotOf, NoLock
      <4>2. HeldIn(un[v], v, NoLock, w, w)
        BY <2>2, <4>1, FarHeld
      <4> QED
        BY <1>3, <2>2, <3>2, <4>2 DEF ViewIn
    <3> QED
      BY <3>1, <3>2
  <2>4. ASSUME NEW v \in Units PROVE Fine(un2[v], v, NoLock, w, w)
    <3>1. us[v] \in AUnit /\ un2[v] = Crossed(us[v])
      BY <1>3, <1>5
    <3>2. HeldIn(un2[v], v, NoLock, w, w) /\ un2[v].view.at # "row" /\ un2[v].view.at # "torn"
      BY <2>3, <3>1, CrossedFacts
    <3> QED
      BY <3>2 DEF Fine, ViewIn
  <2> QED
    BY <2>1, <2>4
<1>7. NoLock \in Locks
  BY DEF Locks
<1> QED
  BY <1>1, <1>5, <1>6, <1>7 DEF InvOf


-----------------------------------------------------------------------------
(* The steps. *)

LEMMA UnitsHere ==
  ASSUME UnitsInv, NEW u \in Units
  PROVE  /\ disk \in DB /\ work \in DB /\ promised \in DB /\ lock \in Locks /\ spoiled \in BOOLEAN
         /\ callsMade \in 0..MaxCalls /\ unit \in [Units -> AUnit]
         /\ unit[u] \in AUnit /\ UnitOK(unit[u])
         /\ ~spoiled => disk = promised /\ Whole(disk) /\ Fine(unit[u], u, lock, disk, work)
BY DEF UnitsInv, InvOf

LEMMA Nothing == <<>> \in Lists /\ Len(<<>>) = 0 /\ NoReading \in UnitViews /\ NoReading.at = "none"
<1>1. <<>> \in Lists /\ Len(<<>>) = 0
  BY EmptySeq DEF Lists
<1>2. NoReading \in UnitViews /\ NoReading.at = "none"
  BY DEF NoReading, UnitViews
<1> QED
  BY <1>1, <1>2

LEMMA NewUnits ==
  ASSUME UnitsInv, NEW u \in Units, New(u)
  PROVE  UnitsInv'
<1>1. /\ Idle(u) /\ ~unit[u].inside /\ unit' = [unit EXCEPT ![u] = NewUnit]
      /\ UNCHANGED <<disk, work, lock, promised, callsMade, spoiled>>
  BY DEF New
<1>2. PICK x : x = unit[u]
  OBVIOUS
<1>3. PICK y : y = NewUnit
  OBVIOUS
<1>4. PICK b : b = [r \in Repos |-> "none"]
  OBVIOUS
<1>5. b \in [Repos -> Bindings]
  BY <1>4 DEF Bindings
<1>6. y = [inside |-> FALSE, bound |-> b, on |-> "own", call |-> <<>>, todo |-> <<>>, raised |-> FALSE,
           done |-> <<>>, view |-> NoReading]
  BY <1>3, <1>4 DEF NewUnit
<1>7. /\ y \in AUnit /\ ~y.inside /\ y.bound = b /\ y.on = "own" /\ y.call = <<>> /\ y.todo = <<>>
      /\ ~y.raised /\ y.done = <<>> /\ y.view = NoReading
  BY <1>5, <1>6, Nothing DEF AUnit
<1>8. UnitOK(y)
  BY <1>4, <1>7 DEF UnitOK
<1>9. ASSUME ~spoiled PROVE Fine(y, u, lock, disk, work)
  <2>1. HeldIn(x, u, lock, disk, work) /\ x.call = <<>> /\ ~x.inside
    BY <1>1, <1>2, <1>9, UnitsHere DEF Fine, Idle
  <2>2. lock # <<u, "unit">> /\ lock # <<u, "own">>
    BY <2>1 DEF HeldIn, UnitHolds, OwnHolds
  <2> QED
    BY <1>7, <2>2, Nothing DEF Fine, HeldIn, ViewIn
<1>10. InvOf(disk, work, lock, promised, [unit EXCEPT ![u] = y], spoiled)
  <2>1. Silent(u, lock, work, lock, work) /\ (spoiled \/ (~spoiled /\ Fine(y, u, lock, disk, work)))
    BY <1>9 DEF Silent
  <2> QED
    BY <1>7, <1>8, <2>1, UnitsHere, QuietStep DEF UnitsInv
<1> QED
  BY <1>1, <1>3, <1>10, UnitsHere DEF UnitsInv

LEMMA EnterUnits ==
  ASSUME UnitsInv, NEW u \in Units, Enter(u)
  PROVE  UnitsInv'
<1>1. /\ Idle(u) /\ ~unit[u].inside
      /\ unit' = [unit EXCEPT ![u].inside = TRUE, ![u].view = NoReading]
      /\ UNCHANGED <<disk, work, lock, promised, callsMade, spoiled>>
  BY DEF Enter
<1>2. PICK x : x = unit[u]
  OBVIOUS
<1>3. x \in AUnit /\ UnitOK(x) /\ x.call = <<>>
  BY <1>1, <1>2, UnitsHere DEF Idle
<1>4. PICK y : y = [x EXCEPT !.inside = TRUE, !.view = NoReading]
  OBVIOUS
<1>5. unit' = [unit EXCEPT ![u] = y]
  BY <1>1, <1>2, <1>3, <1>4
<1>6. /\ y \in AUnit /\ y.inside /\ y.bound = x.bound /\ y.on = x.on /\ y.call = x.call /\ y.todo = x.todo
      /\ y.raised = x.raised /\ y.done = x.done /\ y.view = NoReading
  <2>1. y \in AUnit
    BY <1>3, <1>4, Nothing DEF AUnit
  <2>2. /\ y.inside /\ y.bound = x.bound /\ y.on = x.on /\ y.call = x.call /\ y.todo = x.todo
        /\ y.raised = x.raised /\ y.done = x.done /\ y.view = NoReading
    BY <1>3, <1>4 DEF AUnit
  <2> QED
    BY <2>1, <2>2
<1>7. UnitOK(y)
  BY <1>3, <1>6 DEF UnitOK
<1>8. ASSUME ~spoiled PROVE Fine(y, u, lock, disk, work)
  <2>1. HeldIn(x, u, lock, disk, work) /\ ~x.inside
    BY <1>1, <1>2, <1>8, UnitsHere DEF Fine
  <2>2. lock # <<u, "unit">> /\ lock # <<u, "own">>
    BY <1>3, <2>1 DEF HeldIn, UnitHolds, OwnHolds
  <2> QED
    BY <1>6, <2>1, <2>2, Nothing DEF Fine, HeldIn, ViewIn
<1>9. InvOf(disk, work, lock, promised, [unit EXCEPT ![u] = y], spoiled)
  <2>1. Silent(u, lock, work, lock, work) /\ (spoiled \/ (~spoiled /\ Fine(y, u, lock, disk, work)))
    BY <1>8 DEF Silent
  <2> QED
    BY <1>6, <1>7, <2>1, UnitsHere, QuietStep DEF UnitsInv
<1> QED
  BY <1>1, <1>5, <1>9, UnitsHere DEF UnitsInv

LEMMA CallRepoUnits ==
  ASSUME UnitsInv, NEW u \in Units, NEW c \in CallsUsed, CallRepo(u, c)
  PROVE  UnitsInv'
<1>1. /\ Idle(u) /\ callsMade < MaxCalls /\ callsMade' = callsMade + 1
      /\ unit' = [unit EXCEPT ![u].bound[c.repo] = Bound(u, c.repo), ![u].on = Bound(u, c.repo),
                    ![u].call = Statements(c, callsMade'), ![u].todo = Statements(c, callsMade'),
                    ![u].view = NoReading]
      /\ UNCHANGED <<disk, work, lock, promised, spoiled>>
  BY DEF CallRepo
<1>2. PICK x : x = unit[u]
  OBVIOUS
<1>3. x \in AUnit /\ UnitOK(x) /\ x.call = <<>> /\ x.todo = <<>> /\ ~x.raised
  BY <1>1, <1>2, UnitsHere DEF Idle, UnitOK
<1>4. callsMade' \in 0..MaxCalls
  BY <1>1, UnitsHere, UnitAssumption
<1>5. PICK s : s = Statements(c, callsMade')
  OBVIOUS
<1>6. s \in Lists /\ s # <<>> /\ Good(s) /\ c.repo \in Repos
  <2>1. c \in CallsThere
    BY UnitAssumption
  <2> QED
    BY <1>4, <1>5, <2>1, CallGood DEF Good
<1>7. PICK o : o = Bound(u, c.repo)
  OBVIOUS
<1>8. o \in {"own", "unit", "closed"} /\ (~x.inside => o # "unit")
  <2>1. o = IF x.bound[c.repo] # "none" THEN x.bound[c.repo] ELSE IF x.inside THEN "unit" ELSE "own"
    BY <1>2, <1>7 DEF Bound
  <2>2. x.bound[c.repo] \in Bindings
    BY <1>3, <1>6, UnitFields
  <2> QED
    BY <1>3, <1>6, <2>1, <2>2 DEF Bindings, UnitOK
<1>9. PICK b : b = [x.bound EXCEPT ![c.repo] = o]
  OBVIOUS
<1>10. b \in [Repos -> Bindings] /\ (~x.inside => \A r \in Repos : b[r] # "unit")
  <2>1. x.bound \in [Repos -> Bindings] /\ o \in Bindings
    BY <1>3, <1>8, UnitFields DEF Bindings
  <2>2. ~x.inside => \A r \in Repos : x.bound[r] # "unit"
    BY <1>3 DEF UnitOK
  <2> QED
    BY <1>8, <1>9, <2>1, <2>2
<1>11. PICK y : y = [x EXCEPT !.bound = b, !.on = o, !.call = s, !.todo = s, !.view = NoReading]
  OBVIOUS
<1>12. unit' = [unit EXCEPT ![u] = y]
  BY <1>1, <1>2, <1>3, <1>5, <1>7, <1>9, <1>11
<1>13. /\ y \in AUnit /\ y.inside = x.inside /\ y.bound = b /\ y.on = o /\ y.call = s /\ y.todo = s
       /\ y.raised = x.raised /\ y.done = x.done /\ y.view = NoReading
  <2>1. y \in AUnit
    BY <1>3, <1>6, <1>8, <1>10, <1>11, Nothing DEF AUnit
  <2>2. /\ y.inside = x.inside /\ y.bound = b /\ y.on = o /\ y.call = s /\ y.todo = s
        /\ y.raised = x.raised /\ y.done = x.done /\ y.view = NoReading
    BY <1>3, <1>6, <1>8, <1>10, <1>11 DEF AUnit
  <2> QED
    BY <2>1, <2>2
<1>14. UnitOK(y)
  <2>1. Len(s) <= Len(s)
    BY <1>6, StepsFacts
  <2> QED
    BY <1>3, <1>6, <1>8, <1>10, <1>13, <2>1 DEF UnitOK
<1>15. ASSUME ~spoiled PROVE Fine(y, u, lock, disk, work)
  <2>1. HeldIn(x, u, lock, disk, work)
    BY <1>2, <1>15, UnitsHere DEF Fine
  <2>2. lock # <<u, "own">>
    BY <1>3, <2>1 DEF HeldIn, OwnHolds
  <2>3. lock = <<u, "unit">> => UnitHolds(y, disk, work)
    BY <1>3, <1>13, <2>1 DEF HeldIn, UnitHolds
  <2> QED
    BY <1>13, <2>1, <2>2, <2>3, Nothing DEF Fine, HeldIn, ViewIn
<1>16. InvOf(disk, work, lock, promised, [unit EXCEPT ![u] = y], spoiled)
  <2>1. Silent(u, lock, work, lock, work) /\ (spoiled \/ (~spoiled /\ Fine(y, u, lock, disk, work)))
    BY <1>15 DEF Silent
  <2> QED
    BY <1>13, <1>14, <2>1, UnitsHere, QuietStep DEF UnitsInv
<1> QED
  BY <1>1, <1>4, <1>12, <1>16 DEF UnitsInv

LEMMA PerformUnits ==
  ASSUME UnitsInv, NEW u \in Units, Perform(u)
  PROVE  UnitsInv'
<1>1. PICK x : x = unit[u]
  OBVIOUS
<1>2. PICK c : c = <<u, x.on>>
  OBVIOUS
<1>3. PICK w : w = Reads(c, lock, disk, work)
  OBVIOUS
<1>4. /\ x.todo # <<>> /\ ~x.raised /\ x.on # "closed" /\ lock \in {NoLock, c}
      /\ work' = Performed(w, Head(x.todo)) /\ lock' = c
      /\ unit' = [unit EXCEPT ![u].todo = Tail(@)]
      /\ UNCHANGED <<disk, promised, callsMade, spoiled>>
  BY <1>1, <1>2, <1>3 DEF Perform, Connection, Seen, Reads
<1>5. x \in AUnit /\ UnitOK(x) /\ x.call # <<>> /\ w \in DB /\ x.on \in {"own", "unit"}
  BY <1>1, <1>3, <1>4, UnitsHere, UnitFields DEF UnitOK, Reads
<1>6. PICK rest : rest = Tail(x.todo)
  OBVIOUS
<1>7. PICK w2 : w2 = Performed(w, Head(x.todo))
  OBVIOUS
<1>8. /\ rest \in Lists /\ Len(rest) = Len(x.todo) - 1 /\ w2 \in DB /\ Result(w2, rest) = Result(w, x.todo)
      /\ x.call \in Lists /\ Len(x.call) \in Nat /\ Len(x.todo) \in Nat /\ x.done \in Lists
  BY <1>4, <1>5, <1>6, <1>7, UnitFields, ResultHead, StepsFacts
<1>9. PICK y : y = [x EXCEPT !.todo = rest]
  OBVIOUS
<1>10. unit' = [unit EXCEPT ![u] = y]
  BY <1>1, <1>4, <1>5, <1>6, <1>9
<1>11. /\ y \in AUnit /\ y.inside = x.inside /\ y.bound = x.bound /\ y.on = x.on /\ y.call = x.call
       /\ y.todo = rest /\ y.raised = x.raised /\ y.done = x.done /\ y.view = x.view
  <2>1. y \in AUnit
    BY <1>5, <1>8, <1>9 DEF AUnit
  <2>2. /\ y.inside = x.inside /\ y.bound = x.bound /\ y.on = x.on /\ y.call = x.call
        /\ y.todo = rest /\ y.raised = x.raised /\ y.done = x.done /\ y.view = x.view
    BY <1>5, <1>8, <1>9 DEF AUnit
  <2> QED
    BY <2>1, <2>2
<1>12. Len(x.todo) <= Len(x.call) /\ Len(rest) <= Len(x.call) /\ rest # x.call
  <2>1. Len(x.todo) <= Len(x.call)
    BY <1>5 DEF UnitOK
  <2> QED
    BY <1>8, <2>1
<1>13. UnitOK(y)
  BY <1>5, <1>11, <1>12 DEF UnitOK
<1>14. ASSUME ~spoiled PROVE Fine(y, u, c, disk, w2)
  <2>1. HeldIn(x, u, lock, disk, work) /\ ViewIn(x, u, lock, disk, work) /\ Whole(disk) /\ disk \in DB
    BY <1>1, <1>14, UnitsHere DEF Fine
  <2>2. CASE x.on = "unit"
    <3>1. c = <<u, "unit">> /\ x.inside /\ c # <<u, "own">>
      BY <1>2, <1>5, <2>2 DEF UnitOK
    <3>2. Whole(Result(disk, x.done)) /\ Result(w, x.todo) = Result(Result(disk, x.done), x.call)
      <4>1. CASE lock = c
        BY <1>3, <2>1, <2>2, <3>1, <4>1 DEF HeldIn, UnitHolds, Reads
      <4>2. CASE lock # c
        <5>1. x.done = <<>> /\ x.todo = x.call /\ w = disk
          BY <1>3, <2>1, <2>2, <3>1, <4>2 DEF HeldIn, Reads
        <5> QED
          BY <2>1, <5>1, ResultNone
      <4> QED
        BY <4>1, <4>2
    <3>3. UnitHolds(y, disk, w2)
      BY <1>8, <1>11, <1>12, <2>2, <3>1, <3>2 DEF UnitHolds
    <3>4. HeldIn(y, u, c, disk, w2)
      BY <1>11, <2>2, <3>1, <3>3 DEF HeldIn
    <3> QED
      BY <1>5, <1>11, <2>1, <3>4 DEF Fine, ViewIn
  <2>3. CASE x.on = "own"
    <3>1. c = <<u, "own">> /\ c # <<u, "unit">> /\ lock # <<u, "unit">>
      BY <1>2, <1>4, <2>3 DEF NoLock
    <3>2. Result(w, x.todo) = Result(disk, x.call)
      <4>1. CASE lock = c
        BY <1>3, <2>1, <3>1, <4>1 DEF HeldIn, OwnHolds, Reads
      <4>2. CASE lock # c
        <5>1. x.todo = x.call /\ w = disk
          BY <1>3, <1>4, <2>1, <2>3, <3>1, <4>2 DEF HeldIn, Reads
        <5> QED
          BY <5>1
      <4> QED
        BY <4>1, <4>2
    <3>3. OwnHolds(y, disk, w2)
      BY <1>4, <1>5, <1>8, <1>11, <2>3, <3>2 DEF OwnHolds
    <3>4. HeldIn(y, u, c, disk, w2)
      BY <1>11, <2>1, <2>3, <3>1, <3>3 DEF HeldIn
    <3> QED
      BY <1>5, <1>11, <2>1, <3>4 DEF Fine, ViewIn
  <2> QED
    BY <1>5, <2>2, <2>3
<1>15. InvOf(disk, w2, c, promised, [unit EXCEPT ![u] = y], spoiled)
  <2>1. Silent(u, lock, work, c, w2) /\ (spoiled \/ (~spoiled /\ Fine(y, u, c, disk, w2)))
    BY <1>2, <1>4, <1>5, <1>14 DEF Silent, Local
  <2>2. c \in Locks
    BY <1>2, <1>5 DEF Locks
  <2> QED
    BY <1>8, <1>11, <1>13, <2>1, <2>2, UnitsHere, QuietStep DEF UnitsInv
<1> QED
  BY <1>4, <1>7, <1>10, <1>15, UnitsHere DEF UnitsInv

LEMMA CatchUnits ==
  ASSUME UnitsInv, NEW u \in Units, Catch(u)
  PROVE  UnitsInv'
<1>1. PICK x : x = unit[u]
  OBVIOUS
<1>2. /\ x.raised
      /\ unit' = [unit EXCEPT ![u].raised = FALSE, ![u].call = <<>>, ![u].todo = <<>>]
      /\ spoiled' = (spoiled \/ (x.on = "unit" /\ x.todo # x.call))
      /\ UNCHANGED <<disk, work, lock, promised, callsMade>>
  BY <1>1 DEF Catch
<1>3. x \in AUnit /\ UnitOK(x) /\ x.call # <<>> /\ x.inside
  BY <1>1, <1>2, UnitsHere DEF UnitOK
<1>4. PICK y : y = [x EXCEPT !.call = <<>>, !.todo = <<>>, !.raised = FALSE]
  OBVIOUS
<1>5. unit' = [unit EXCEPT ![u] = y]
  BY <1>1, <1>2, <1>3, <1>4
<1>6. /\ y \in AUnit /\ y.inside = x.inside /\ y.bound = x.bound /\ y.on = x.on /\ y.call = <<>>
      /\ y.todo = <<>> /\ ~y.raised /\ y.done = x.done /\ y.view = x.view
  <2>1. y \in AUnit
    BY <1>3, <1>4, Nothing DEF AUnit
  <2>2. /\ y.inside = x.inside /\ y.bound = x.bound /\ y.on = x.on /\ y.call = <<>>
        /\ y.todo = <<>> /\ ~y.raised /\ y.done = x.done /\ y.view = x.view
    BY <1>3, <1>4 DEF AUnit
  <2> QED
    BY <2>1, <2>2
<1>7. UnitOK(y)
  BY <1>3, <1>6, Nothing DEF UnitOK
<1>8. PICK s : s = (spoiled \/ (x.on = "unit" /\ x.todo # x.call))
  OBVIOUS
<1>9. s \in BOOLEAN /\ spoiled' = s
  BY <1>2, <1>8
<1>10. ASSUME ~s PROVE ~spoiled /\ Fine(y, u, lock, disk, work)
  <2>1. ~spoiled /\ (x.on # "unit" \/ x.todo = x.call)
    BY <1>8, <1>10
  <2>2. HeldIn(x, u, lock, disk, work) /\ ViewIn(x, u, lock, disk, work) /\ disk \in DB
    BY <1>1, <2>1, UnitsHere DEF Fine
  <2>3. lock # <<u, "own">>
    BY <1>2, <2>2 DEF HeldIn, OwnHolds
  <2>4. ASSUME lock = <<u, "unit">> PROVE UnitHolds(y, disk, work)
    <3>1. Whole(Result(disk, x.done)) /\ work = Result(disk, x.done) /\ work \in DB
      BY <2>1, <2>2, <2>4, UnitsHere DEF HeldIn, UnitHolds
    <3> QED
      BY <1>3, <1>6, <3>1 DEF UnitHolds
  <2> QED
    BY <1>3, <1>6, <2>1, <2>2, <2>3, <2>4 DEF Fine, HeldIn, ViewIn
<1>11. InvOf(disk, work, lock, promised, [unit EXCEPT ![u] = y], s)
  <2>1. Silent(u, lock, work, lock, work) /\ (s \/ (~spoiled /\ Fine(y, u, lock, disk, work)))
    BY <1>10 DEF Silent
  <2> QED
    BY <1>6, <1>7, <1>9, <2>1, UnitsHere, QuietStep DEF UnitsInv
<1> QED
  BY <1>2, <1>5, <1>9, <1>11, UnitsHere DEF UnitsInv

LEMMA ReturnUnits ==
  ASSUME UnitsInv, NEW u \in Units, Return(u)
  PROVE  UnitsInv'
<1>1. PICK x : x = unit[u]
  OBVIOUS
<1>2. PICK us : us = [unit EXCEPT ![u].call = <<>>,
                                  ![u].done = IF unit[u].inside THEN @ \o unit[u].call ELSE @]
  OBVIOUS
<1>3. /\ x.call # <<>> /\ x.todo = <<>> /\ ~x.raised
      /\ IF x.on = "own" THEN CommitOn(<<u, x.on>>, us) ELSE unit' = us /\ UNCHANGED <<disk, lock>>
      /\ promised' = IF x.inside THEN promised ELSE Result(promised, x.call)
      /\ spoiled' = (spoiled \/ (x.inside /\ x.on = "own"))
      /\ UNCHANGED <<work, callsMade>>
  BY <1>1, <1>2 DEF Return, ShouldClose, Connection
<1>4. x \in AUnit /\ UnitOK(x) /\ x.call \in Lists /\ x.done \in Lists /\ Good(x.call)
  BY <1>1, <1>3, UnitsHere, UnitFields DEF UnitOK
<1>5. PICK did : did = IF x.inside THEN x.done \o x.call ELSE x.done
  OBVIOUS
<1>6. did \in Lists /\ \A d \in DB : x.inside => Result(d, did) = Result(Result(d, x.done), x.call)
  <2>1. \A d \in DB : x.done \o x.call \in Lists
                      /\ Result(d, x.done \o x.call) = Result(Result(d, x.done), x.call)
    BY <1>4, ResultJoin
  <2>2. disk \in DB
    BY UnitsHere
  <2> QED
    BY <1>4, <1>5, <2>1, <2>2
<1>7. PICK y : y = [x EXCEPT !.call = <<>>, !.done = did]
  OBVIOUS
<1>8. us = [unit EXCEPT ![u] = y]
  BY <1>1, <1>2, <1>4, <1>5, <1>7
<1>9. /\ y \in AUnit /\ y.inside = x.inside /\ y.bound = x.bound /\ y.on = x.on /\ y.call = <<>>
      /\ y.todo = <<>> /\ ~y.raised /\ y.done = did /\ y.view = x.view
  <2>1. y \in AUnit
    BY <1>3, <1>4, <1>6, <1>7, Nothing DEF AUnit
  <2>2. /\ y.inside = x.inside /\ y.bound = x.bound /\ y.on = x.on /\ y.call = <<>>
        /\ y.todo = <<>> /\ ~y.raised /\ y.done = did /\ y.view = x.view
    BY <1>3, <1>4, <1>6, <1>7 DEF AUnit
  <2> QED
    BY <2>1, <2>2
<1>10. UnitOK(y)
  BY <1>4, <1>5, <1>9, Nothing DEF UnitOK
<1>11. PICK s : s = (spoiled \/ (x.inside /\ x.on = "own"))
  OBVIOUS
<1>12. s \in BOOLEAN /\ spoiled' = s
  BY <1>3, <1>11
<1>13. PICK p : p = IF x.inside THEN promised ELSE Result(promised, x.call)
  OBVIOUS
<1>14. p \in DB /\ promised' = p
  BY <1>3, <1>4, <1>13, UnitsHere, ResultType
<1>15. ASSUME ~s
       PROVE  /\ ~spoiled /\ HeldIn(x, u, lock, disk, work) /\ x.view.at # "torn" /\ x.view.at # "row"
              /\ disk = promised /\ Whole(disk) /\ disk \in DB /\ work \in DB
              /\ ~(x.inside /\ x.on = "own") /\ lock = <<u, x.on>>
  <2>1. ~spoiled /\ ~(x.inside /\ x.on = "own")
    BY <1>11, <1>15
  <2>2. /\ HeldIn(x, u, lock, disk, work) /\ ViewIn(x, u, lock, disk, work)
        /\ disk = promised /\ Whole(disk) /\ disk \in DB /\ work \in DB
    BY <1>1, <2>1, UnitsHere DEF Fine
  <2>3. lock = <<u, x.on>>
    <3>1. x.on \in {"own", "unit", "closed"} /\ x.todo # x.call
      BY <1>3, <1>4, UnitFields
    <3> QED
      BY <1>3, <2>2, <3>1 DEF HeldIn
  <2> QED
    BY <1>3, <2>1, <2>2, <2>3 DEF ViewIn
<1>16. CASE x.on = "own" /\ lock = <<u, "own">>
  <2>1. /\ disk' = work /\ lock' = NoLock
        /\ unit' = [v \in Units |-> Crossed([unit EXCEPT ![u] = y][v])]
    BY <1>3, <1>8, <1>16 DEF CommitOn, Crossed
  <2>2. ASSUME ~s PROVE ~spoiled /\ work = p /\ Whole(work) /\ Fine(y, u, NoLock, work, work)
    <3>1. ~x.inside /\ x.done = <<>> /\ Result(work, x.todo) = Result(disk, x.call)
      BY <1>4, <1>15, <1>16, <2>2 DEF HeldIn, OwnHolds, UnitOK
    <3>2. work = Result(disk, x.call) /\ p = Result(disk, x.call)
      BY <1>3, <1>13, <1>15, <2>2, <3>1, ResultNone
    <3>3. Whole(work)
      BY <1>4, <1>15, <2>2, <3>2 DEF Good, KeepsWhole
    <3>4. HeldIn(y, u, NoLock, work, work)
      BY <1>5, <1>9, <3>1 DEF HeldIn, NoLock
    <3> QED
      BY <1>9, <1>15, <2>2, <3>2, <3>3, <3>4 DEF Fine, ViewIn
  <2>3. InvOf(work, work, NoLock, p, unit', s)
    <3>1. lock \in {<<u, "unit">>, <<u, "own">>}
      BY <1>16
    <3>2. s \/ (~spoiled /\ work = p /\ Whole(work) /\ Fine(y, u, NoLock, work, work))
      BY <2>2
    <3> QED
      BY <1>9, <1>10, <1>12, <1>14, <2>1, <3>1, <3>2, CommitStep DEF UnitsInv
  <2> QED
    BY <1>3, <1>12, <1>14, <2>1, <2>3, UnitsHere DEF UnitsInv
<1>17. CASE ~(x.on = "own" /\ lock = <<u, "own">>)
  <2>1. unit' = us /\ UNCHANGED <<disk, lock>>
    BY <1>3, <1>17 DEF CommitOn
  <2>2. ASSUME ~s PROVE ~spoiled /\ Fine(y, u, lock, disk, work)
    <3>1. x.on = "unit" /\ lock = <<u, "unit">> /\ lock # <<u, "own">>
      <4>1. x.on \in {"own", "unit", "closed"} /\ lock \in Locks
        BY <1>4, UnitFields, UnitsHere
      <4>2. x.on # "closed"
        BY <1>3, <1>15, <2>2 DEF HeldIn
      <4> QED
        BY <1>15, <1>17, <2>2, <4>1, <4>2
    <3>2. /\ x.inside /\ Whole(Result(disk, x.done))
          /\ Result(work, x.todo) = Result(Result(disk, x.done), x.call)
      BY <1>15, <2>2, <3>1 DEF HeldIn, UnitHolds
    <3>3. work = Result(disk, did) /\ Result(disk, x.done) \in DB /\ Result(disk, did) \in DB
      BY <1>3, <1>4, <1>6, <1>15, <2>2, <3>2, ResultNone, ResultType
    <3>4. Whole(work)
      BY <1>4, <1>6, <1>15, <2>2, <3>2, <3>3 DEF Good, KeepsWhole
    <3>5. UnitHolds(y, disk, work)
      BY <1>9, <3>2, <3>3, <3>4 DEF UnitHolds
    <3>6. HeldIn(y, u, lock, disk, work)
      BY <1>9, <3>1, <3>5 DEF HeldIn
    <3> QED
      BY <1>9, <1>15, <2>2, <3>6 DEF Fine, ViewIn
  <2>3. p = promised \/ s
    <3>1. ASSUME ~s PROVE x.inside
      <4>1. lock = <<u, x.on>> /\ HeldIn(x, u, lock, disk, work)
        BY <1>15, <3>1
      <4>2. x.on # "own" /\ x.on # "closed"
        BY <1>3, <1>17, <4>1 DEF HeldIn
      <4> QED
        BY <1>3, <1>4, <4>2, UnitFields DEF UnitOK
    <3> QED
      BY <1>13, <3>1
  <2>4. InvOf(disk, work, lock, promised, [unit EXCEPT ![u] = y], s)
    <3>1. Silent(u, lock, work, lock, work) /\ (s \/ (~spoiled /\ Fine(y, u, lock, disk, work)))
      BY <2>2 DEF Silent
    <3> QED
      BY <1>9, <1>10, <1>12, <3>1, UnitsHere, QuietStep DEF UnitsInv
  <2>5. InvOf(disk, work, lock, p, [unit EXCEPT ![u] = y], s)
    BY <1>14, <2>3, <2>4 DEF InvOf
  <2> QED
    BY <1>3, <1>8, <1>12, <1>14, <2>1, <2>5, UnitsHere DEF UnitsInv
<1> QED
  BY <1>16, <1>17

LEMMA RaiseUnits ==
  ASSUME UnitsInv, NEW u \in Units, Raise(u)
  PROVE  UnitsInv'
<1>1. PICK x : x = unit[u]
  OBVIOUS
<1>2. /\ x.call # <<>> /\ ~x.raised
      /\ IF x.on = "own" THEN Undo(<<u, x.on>>) ELSE UNCHANGED <<work, lock>>
      /\ unit' = [unit EXCEPT ![u].raised = unit[u].inside,
                              ![u].call = IF unit[u].inside THEN @ ELSE <<>>,
                              ![u].todo = IF unit[u].inside THEN @ ELSE <<>>]
      /\ UNCHANGED <<disk, promised, callsMade, spoiled>>
  BY <1>1 DEF Raise, ShouldClose, Connection
<1>3. x \in AUnit /\ UnitOK(x) /\ x.inside \in BOOLEAN
  BY <1>1, UnitsHere, UnitFields
<1>4. PICK call : call = IF x.inside THEN x.call ELSE <<>>
  OBVIOUS
<1>5. PICK todo : todo = IF x.inside THEN x.todo ELSE <<>>
  OBVIOUS
<1>6. call \in Lists /\ todo \in Lists
  BY <1>3, <1>4, <1>5, UnitFields, Nothing
<1>7. PICK y : y = [x EXCEPT !.call = call, !.todo = todo, !.raised = x.inside]
  OBVIOUS
<1>8. unit' = [unit EXCEPT ![u] = y]
  BY <1>1, <1>2, <1>3, <1>4, <1>5, <1>7
<1>9. /\ y \in AUnit /\ y.inside = x.inside /\ y.bound = x.bound /\ y.on = x.on /\ y.call = call
      /\ y.todo = todo /\ y.raised = x.inside /\ y.done = x.done /\ y.view = x.view
  <2>1. y \in AUnit
    BY <1>3, <1>6, <1>7 DEF AUnit
  <2>2. /\ y.inside = x.inside /\ y.bound = x.bound /\ y.on = x.on /\ y.call = call
        /\ y.todo = todo /\ y.raised = x.inside /\ y.done = x.done /\ y.view = x.view
    BY <1>3, <1>6, <1>7 DEF AUnit
  <2> QED
    BY <2>1, <2>2
<1>10. UnitOK(y)
  BY <1>2, <1>3, <1>4, <1>5, <1>9, Nothing DEF UnitOK
<1>11. ASSUME ~spoiled
       PROVE  /\ HeldIn(x, u, lock, disk, work) /\ x.view.at # "torn" /\ x.view.at # "row"
  BY <1>1, <1>2, <1>11, UnitsHere DEF Fine, ViewIn
<1>12. CASE x.on = "own" /\ lock = <<u, "own">>
  <2>1. lock' = NoLock /\ work' = disk
    BY <1>2, <1>12 DEF Undo
  <2>2. ASSUME ~spoiled PROVE Fine(y, u, NoLock, disk, disk)
    <3>1. x.done = <<>> /\ x.on = "own"
      BY <1>11, <1>12, <2>2 DEF HeldIn
    <3>2. y.raised \/ y.todo = y.call
      BY <1>4, <1>5, <1>9
    <3>3. HeldIn(y, u, NoLock, disk, disk)
      BY <1>9, <3>1, <3>2 DEF HeldIn, NoLock
    <3> QED
      BY <1>9, <1>11, <2>2, <3>3 DEF Fine, ViewIn
  <2>3. InvOf(disk, disk, NoLock, promised, [unit EXCEPT ![u] = y], spoiled)
    <3>1. /\ Silent(u, lock, work, NoLock, disk)
          /\ (spoiled \/ (~spoiled /\ Fine(y, u, NoLock, disk, disk))) /\ NoLock \in Locks
      BY <1>12, <2>2 DEF Silent, Local, Locks
    <3> QED
      BY <1>9, <1>10, <3>1, UnitsHere, QuietStep DEF UnitsInv
  <2> QED
    BY <1>2, <1>8, <2>1, <2>3, UnitsHere DEF UnitsInv
<1>13. CASE ~(x.on = "own" /\ lock = <<u, "own">>)
  <2>1. lock' = lock /\ work' = work
    BY <1>2, <1>13 DEF Undo
  <2>2. ASSUME ~spoiled PROVE Fine(y, u, lock, disk, work)
    <3>1. lock # <<u, "own">>
      BY <1>11, <1>13, <2>2 DEF HeldIn, OwnHolds
    <3>2. x.inside => y.call = x.call /\ y.todo = x.todo
      BY <1>4, <1>5, <1>9
    <3>3. ~x.inside => y.call = <<>> /\ y.todo = <<>>
      BY <1>4, <1>5, <1>9
    <3>4. lock = <<u, "unit">> => UnitHolds(y, disk, work)
      BY <1>9, <1>11, <2>2, <3>2 DEF HeldIn, UnitHolds
    <3>5. HeldIn(y, u, lock, disk, work)
      BY <1>3, <1>9, <1>11, <2>2, <3>1, <3>2, <3>3, <3>4 DEF HeldIn
    <3> QED
      BY <1>9, <1>11, <2>2, <3>5 DEF Fine, ViewIn
  <2>3. InvOf(disk, work, lock, promised, [unit EXCEPT ![u] = y], spoiled)
    <3>1. Silent(u, lock, work, lock, work) /\ (spoiled \/ (~spoiled /\ Fine(y, u, lock, disk, work)))
      BY <2>2 DEF Silent
    <3> QED
      BY <1>9, <1>10, <3>1, UnitsHere, QuietStep DEF UnitsInv
  <2> QED
    BY <1>2, <1>8, <2>1, <2>3, UnitsHere DEF UnitsInv
<1> QED
  BY <1>12, <1>13

LEMMA CommitUnits ==
  ASSUME UnitsInv, NEW u \in Units, Commit(u)
  PROVE  UnitsInv'
<1>1. PICK x : x = unit[u]
  OBVIOUS
<1>2. PICK us : us = [unit EXCEPT ![u].done = <<>>]
  OBVIOUS
<1>3. /\ x.call = <<>> /\ x.view.at # "row" /\ x.inside /\ x.done # <<>>
      /\ CommitOn(<<u, "unit">>, us) /\ promised' = Result(promised, x.done)
      /\ UNCHANGED <<work, callsMade, spoiled>>
  BY <1>1, <1>2 DEF Commit, Idle
<1>4. x \in AUnit /\ UnitOK(x) /\ x.done \in Lists /\ x.todo = <<>>
  BY <1>1, <1>3, UnitsHere, UnitFields DEF UnitOK
<1>5. PICK y : y = [x EXCEPT !.done = <<>>]
  OBVIOUS
<1>6. us = [unit EXCEPT ![u] = y]
  BY <1>1, <1>2, <1>4, <1>5
<1>7. /\ y \in AUnit /\ y.inside = x.inside /\ y.bound = x.bound /\ y.on = x.on /\ y.call = <<>>
      /\ y.todo = <<>> /\ y.raised = x.raised /\ y.done = <<>> /\ y.view = x.view
  <2>1. y \in AUnit
    BY <1>3, <1>4, <1>5, Nothing DEF AUnit
  <2>2. /\ y.inside = x.inside /\ y.bound = x.bound /\ y.on = x.on /\ y.call = <<>>
        /\ y.todo = <<>> /\ y.raised = x.raised /\ y.done = <<>> /\ y.view = x.view
    BY <1>3, <1>4, <1>5 DEF AUnit
  <2> QED
    BY <2>1, <2>2
<1>8. UnitOK(y)
  BY <1>3, <1>4, <1>7 DEF UnitOK
<1>9. PICK p : p = Result(promised, x.done)
  OBVIOUS
<1>10. p \in DB /\ promised' = p
  BY <1>3, <1>4, <1>9, UnitsHere, ResultType
<1>11. ASSUME ~spoiled
       PROVE  /\ HeldIn(x, u, lock, disk, work) /\ x.view.at # "torn" /\ disk = promised
              /\ lock = <<u, "unit">>
  BY <1>1, <1>3, <1>11, UnitsHere DEF Fine, ViewIn, HeldIn
<1>12. CASE lock = <<u, "unit">>
  <2>1. /\ disk' = work /\ lock' = NoLock
        /\ unit' = [v \in Units |-> Crossed([unit EXCEPT ![u] = y][v])]
    BY <1>3, <1>6, <1>12 DEF CommitOn, Crossed
  <2>2. ASSUME ~spoiled PROVE work = p /\ Whole(work) /\ Fine(y, u, NoLock, work, work)
    <3>1. work = Result(disk, x.done) /\ Whole(work)
      BY <1>3, <1>4, <1>11, <1>12, <2>2 DEF HeldIn, UnitHolds
    <3>2. HeldIn(y, u, NoLock, work, work)
      BY <1>7 DEF HeldIn, NoLock
    <3> QED
      BY <1>3, <1>7, <1>9, <1>11, <2>2, <3>1, <3>2 DEF Fine, ViewIn
  <2>3. InvOf(work, work, NoLock, p, unit', spoiled)
    <3>1. lock \in {<<u, "unit">>, <<u, "own">>}
      BY <1>12
    <3>2. spoiled \/ (~spoiled /\ work = p /\ Whole(work) /\ Fine(y, u, NoLock, work, work))
      BY <2>2
    <3> QED
      BY <1>7, <1>8, <1>10, <2>1, <3>1, <3>2, UnitsHere, CommitStep DEF UnitsInv
  <2> QED
    BY <1>3, <1>10, <2>1, <2>3, UnitsHere DEF UnitsInv
<1>13. CASE lock # <<u, "unit">>
  <2>1. unit' = us /\ UNCHANGED <<disk, lock>> /\ spoiled
    BY <1>3, <1>11, <1>13 DEF CommitOn
  <2>2. InvOf(disk, work, lock, promised, [unit EXCEPT ![u] = y], spoiled)
    <3>1. Silent(u, lock, work, lock, work) /\ (spoiled \/ (~spoiled /\ Fine(y, u, lock, disk, work)))
      BY <2>1 DEF Silent
    <3> QED
      BY <1>7, <1>8, <3>1, UnitsHere, QuietStep DEF UnitsInv
  <2>3. InvOf(disk, work, lock, p, [unit EXCEPT ![u] = y], spoiled)
    BY <1>10, <2>1, <2>2 DEF InvOf
  <2> QED
    BY <1>3, <1>6, <1>10, <2>1, <2>3, UnitsHere DEF UnitsInv
<1> QED
  BY <1>12, <1>13

LEMMA RollbackUnits ==
  ASSUME UnitsInv, NEW u \in Units, Rollback(u)
  PROVE  UnitsInv'
<1>1. PICK x : x = unit[u]
  OBVIOUS
<1>2. /\ x.call = <<>> /\ x.view.at # "row" /\ x.inside /\ x.done # <<>>
      /\ Undo(<<u, "unit">>) /\ unit' = [unit EXCEPT ![u].done = <<>>]
      /\ UNCHANGED <<disk, promised, callsMade, spoiled>>
  BY <1>1 DEF Rollback, Idle
<1>3. x \in AUnit /\ UnitOK(x) /\ x.todo = <<>>
  BY <1>1, <1>2, UnitsHere DEF UnitOK
<1>4. PICK y : y = [x EXCEPT !.done = <<>>]
  OBVIOUS
<1>5. unit' = [unit EXCEPT ![u] = y]
  BY <1>1, <1>2, <1>3, <1>4
<1>6. /\ y \in AUnit /\ y.inside = x.inside /\ y.bound = x.bound /\ y.on = x.on /\ y.call = <<>>
      /\ y.todo = <<>> /\ y.raised = x.raised /\ y.done = <<>> /\ y.view = x.view
  <2>1. y \in AUnit
    BY <1>2, <1>3, <1>4, Nothing DEF AUnit
  <2>2. /\ y.inside = x.inside /\ y.bound = x.bound /\ y.on = x.on /\ y.call = <<>>
        /\ y.todo = <<>> /\ y.raised = x.raised /\ y.done = <<>> /\ y.view = x.view
    BY <1>2, <1>3, <1>4 DEF AUnit
  <2> QED
    BY <2>1, <2>2
<1>7. UnitOK(y)
  BY <1>2, <1>3, <1>6 DEF UnitOK
<1>8. ASSUME ~spoiled PROVE x.view.at # "torn" /\ lock = <<u, "unit">>
  BY <1>1, <1>2, <1>8, UnitsHere DEF Fine, ViewIn, HeldIn
<1>9. PICK l : l = IF lock = <<u, "unit">> THEN NoLock ELSE lock
  OBVIOUS
<1>10. PICK w : w = IF lock = <<u, "unit">> THEN disk ELSE work
  OBVIOUS
<1>11. lock' = l /\ work' = w /\ w \in DB /\ l \in Locks /\ Silent(u, lock, work, l, w)
  <2>1. lock' = l /\ work' = w
    BY <1>2, <1>9, <1>10 DEF Undo
  <2>2. l \in Locks /\ w \in DB
    BY <1>9, <1>10, UnitsHere DEF Locks
  <2>3. Silent(u, lock, work, l, w)
    BY <1>9, <1>10 DEF Silent, Local
  <2> QED
    BY <2>1, <2>2, <2>3
<1>12. ASSUME ~spoiled PROVE Fine(y, u, l, disk, w)
  <2>1. l = NoLock
    BY <1>8, <1>9, <1>12
  <2>2. HeldIn(y, u, l, disk, w)
    BY <1>6, <2>1 DEF HeldIn, NoLock
  <2> QED
    BY <1>2, <1>6, <1>8, <1>12, <2>2 DEF Fine, ViewIn
<1>13. InvOf(disk, w, l, promised, [unit EXCEPT ![u] = y], spoiled)
  <2>1. spoiled \/ (~spoiled /\ Fine(y, u, l, disk, w))
    BY <1>12
  <2> QED
    BY <1>6, <1>7, <1>11, <2>1, UnitsHere, QuietStep DEF UnitsInv
<1> QED
  BY <1>2, <1>5, <1>11, <1>13, UnitsHere DEF UnitsInv

LEMMA ExitUnits ==
  ASSUME UnitsInv, NEW u \in Units, Exit(u)
  PROVE  UnitsInv'
<1>1. PICK x : x = unit[u]
  OBVIOUS
<1>2. PICK b : b = Closed(x.bound)
  OBVIOUS
<1>3. /\ x.inside /\ (x.call = <<>> \/ x.raised)
      /\ Undo(<<u, "unit">>)
      /\ unit' = [unit EXCEPT ![u].inside = FALSE, ![u].raised = FALSE, ![u].call = <<>>,
                              ![u].todo = <<>>, ![u].done = <<>>, ![u].view = NoReading,
                              ![u].bound = Closed(@)]
      /\ UNCHANGED <<disk, promised, callsMade, spoiled>>
  BY <1>1 DEF Exit, Idle
<1>4. x \in AUnit /\ UnitOK(x) /\ x.bound \in [Repos -> Bindings]
  BY <1>1, UnitsHere, UnitFields
<1>5. b \in [Repos -> Bindings] /\ \A r \in Repos : b[r] # "unit"
  BY <1>2, <1>4 DEF Bindings, Closed
<1>6. PICK y : y = [x EXCEPT !.inside = FALSE, !.raised = FALSE, !.call = <<>>, !.todo = <<>>,
                              !.done = <<>>, !.view = NoReading, !.bound = b]
  OBVIOUS
<1>7. unit' = [unit EXCEPT ![u] = y]
  BY <1>1, <1>2, <1>3, <1>6
<1>8. /\ y \in AUnit /\ ~y.inside /\ y.bound = b /\ y.on = x.on /\ y.call = <<>> /\ y.todo = <<>>
      /\ ~y.raised /\ y.done = <<>> /\ y.view = NoReading
  <2>1. y \in AUnit
    BY <1>4, <1>5, <1>6, Nothing DEF AUnit
  <2>2. /\ ~y.inside /\ y.bound = b /\ y.on = x.on /\ y.call = <<>> /\ y.todo = <<>>
        /\ ~y.raised /\ y.done = <<>> /\ y.view = NoReading
    BY <1>4, <1>5, <1>6 DEF AUnit
  <2> QED
    BY <2>1, <2>2
<1>9. UnitOK(y)
  BY <1>5, <1>8, Nothing DEF UnitOK
<1>10. PICK l : l = IF lock = <<u, "unit">> THEN NoLock ELSE lock
  OBVIOUS
<1>11. PICK w : w = IF lock = <<u, "unit">> THEN disk ELSE work
  OBVIOUS
<1>12. lock' = l /\ work' = w /\ w \in DB /\ l \in Locks /\ Silent(u, lock, work, l, w)
  <2>1. lock' = l /\ work' = w
    BY <1>3, <1>10, <1>11 DEF Undo
  <2>2. l \in Locks /\ w \in DB
    BY <1>10, <1>11, UnitsHere DEF Locks
  <2>3. Silent(u, lock, work, l, w)
    BY <1>10, <1>11 DEF Silent, Local
  <2> QED
    BY <2>1, <2>2, <2>3
<1>13. ASSUME ~spoiled PROVE Fine(y, u, l, disk, w)
  <2>1. HeldIn(x, u, lock, disk, work)
    BY <1>1, <1>13, UnitsHere DEF Fine
  <2>2. lock # <<u, "own">>
    BY <1>3, <2>1 DEF HeldIn, OwnHolds
  <2>3. l # <<u, "unit">> /\ l # <<u, "own">>
    BY <1>10, <2>2 DEF NoLock
  <2> QED
    BY <1>8, <2>3, Nothing DEF Fine, HeldIn, ViewIn
<1>14. InvOf(disk, w, l, promised, [unit EXCEPT ![u] = y], spoiled)
  <2>1. spoiled \/ (~spoiled /\ Fine(y, u, l, disk, w))
    BY <1>13
  <2> QED
    BY <1>8, <1>9, <1>12, <2>1, UnitsHere, QuietStep DEF UnitsInv
<1> QED
  BY <1>3, <1>7, <1>12, <1>14, UnitsHere DEF UnitsInv

LEMMA ReadRowUnits ==
  ASSUME UnitsInv, NEW u \in Units, NEW k \in PartKeys, ReadRow(u, k)
  PROVE  UnitsInv'
<1>1. PICK x : x = unit[u]
  OBVIOUS
<1>2. PICK r : r = IF k = "item" THEN "content" ELSE "users"
  OBVIOUS
<1>3. PICK o : o = Bound(u, r)
  OBVIOUS
<1>4. PICK n : n = Reads(<<u, o>>, lock, disk, work).row[k]
  OBVIOUS
<1>5. PICK seen : seen = [at |-> "row", key |-> k, row |-> n]
  OBVIOUS
<1>6. /\ x.call = <<>> /\ o # "closed"
      /\ unit' = [unit EXCEPT ![u].bound[r] = o, ![u].on = o, ![u].view = seen]
      /\ UNCHANGED <<disk, work, lock, promised, callsMade, spoiled>>
  BY <1>1, <1>2, <1>3, <1>4, <1>5 DEF ReadRow, Idle, Seen, Reads
<1>7. x \in AUnit /\ UnitOK(x) /\ x.todo = <<>> /\ ~x.raised /\ r \in Repos
  BY <1>1, <1>2, <1>6, UnitsHere DEF UnitOK, Repos
<1>8. o \in {"own", "unit", "closed"} /\ (~x.inside => o # "unit")
  <2>1. o = IF x.bound[r] # "none" THEN x.bound[r] ELSE IF x.inside THEN "unit" ELSE "own"
    BY <1>1, <1>3 DEF Bound
  <2>2. x.bound[r] \in Bindings
    BY <1>7, UnitFields
  <2> QED
    BY <1>7, <2>1, <2>2 DEF Bindings, UnitOK
<1>9. PICK b : b = [x.bound EXCEPT ![r] = o]
  OBVIOUS
<1>10. b \in [Repos -> Bindings] /\ (~x.inside => \A q \in Repos : b[q] # "unit")
  <2>1. x.bound \in [Repos -> Bindings] /\ o \in Bindings
    BY <1>7, <1>8, UnitFields DEF Bindings
  <2>2. ~x.inside => \A q \in Repos : x.bound[q] # "unit"
    BY <1>7 DEF UnitOK
  <2> QED
    BY <1>8, <1>9, <2>1, <2>2
<1>11. seen \in UnitViews /\ seen.at = "row" /\ seen.key = k /\ seen.row = n
  <2>1. Reads(<<u, o>>, lock, disk, work) \in DB /\ k \in Keys
    BY UnitsHere DEF Reads, PartKeys, Keys
  <2>2. n \in 0..MaxCalls
    BY <1>4, <2>1, DBFacts
  <2> QED
    BY <1>5, <2>2 DEF UnitViews
<1>12. PICK y : y = [x EXCEPT !.bound = b, !.on = o, !.view = seen]
  OBVIOUS
<1>13. unit' = [unit EXCEPT ![u] = y]
  BY <1>1, <1>6, <1>7, <1>9, <1>12
<1>14. /\ y \in AUnit /\ y.inside = x.inside /\ y.bound = b /\ y.on = o /\ y.call = x.call
       /\ y.todo = x.todo /\ y.raised = x.raised /\ y.done = x.done /\ y.view = seen
  <2>1. y \in AUnit
    BY <1>7, <1>8, <1>10, <1>11, <1>12 DEF AUnit
  <2>2. /\ y.inside = x.inside /\ y.bound = b /\ y.on = o /\ y.call = x.call
        /\ y.todo = x.todo /\ y.raised = x.raised /\ y.done = x.done /\ y.view = seen
    BY <1>7, <1>8, <1>10, <1>11, <1>12 DEF AUnit
  <2> QED
    BY <2>1, <2>2
<1>15. UnitOK(y)
  BY <1>6, <1>7, <1>10, <1>14 DEF UnitOK
<1>16. ASSUME ~spoiled PROVE Fine(y, u, lock, disk, work)
  <2>1. HeldIn(x, u, lock, disk, work)
    BY <1>1, <1>16, UnitsHere DEF Fine
  <2>2. lock # <<u, "own">>
    BY <1>6, <2>1 DEF HeldIn, OwnHolds
  <2>3. ASSUME lock = <<u, "unit">> PROVE UnitHolds(y, disk, work)
    BY <1>6, <1>7, <1>14, <2>1, <2>3 DEF HeldIn, UnitHolds
  <2>4. HeldIn(y, u, lock, disk, work)
    BY <1>6, <1>7, <1>14, <2>1, <2>2, <2>3 DEF HeldIn
  <2>5. ViewIn(y, u, lock, disk, work)
    BY <1>4, <1>6, <1>11, <1>14 DEF ViewIn
  <2> QED
    BY <2>4, <2>5 DEF Fine
<1>17. InvOf(disk, work, lock, promised, [unit EXCEPT ![u] = y], spoiled)
  <2>1. Silent(u, lock, work, lock, work) /\ (spoiled \/ (~spoiled /\ Fine(y, u, lock, disk, work)))
    BY <1>16 DEF Silent
  <2> QED
    BY <1>14, <1>15, <2>1, UnitsHere, QuietStep DEF UnitsInv
<1> QED
  BY <1>6, <1>13, <1>17, UnitsHere DEF UnitsInv

LEMMA ReadPartsUnits ==
  ASSUME UnitsInv, NEW u \in Units, ReadParts(u)
  PROVE  UnitsInv'
<1>1. PICK x : x = unit[u]
  OBVIOUS
<1>2. PICK db : db = Reads(<<u, x.on>>, lock, disk, work)
  OBVIOUS
<1>3. PICK at : at = IF x.view.at = "crossed" \/ db.parts[x.view.key] = x.view.row THEN "none" ELSE "torn"
  OBVIOUS
<1>4. PICK seen : seen = [at |-> at]
  OBVIOUS
<1>5. /\ x.view.at \in {"row", "crossed"}
      /\ unit' = [unit EXCEPT ![u].view = seen]
      /\ UNCHANGED <<disk, work, lock, promised, callsMade, spoiled>>
  BY <1>1, <1>2, <1>3, <1>4 DEF ReadParts, Seen, Connection, Reads
<1>6. x \in AUnit /\ UnitOK(x)
  BY <1>1, UnitsHere
<1>7. seen \in UnitViews /\ seen.at = at /\ at \in {"none", "torn"}
  BY <1>3, <1>4 DEF UnitViews
<1>8. x.view.key \in PartKeys
  BY <1>5, <1>6, UnitFields DEF UnitViews
<1>9. PICK y : y = [x EXCEPT !.view = seen]
  OBVIOUS
<1>10. unit' = [unit EXCEPT ![u] = y]
  BY <1>1, <1>5, <1>6, <1>9
<1>11. /\ y \in AUnit /\ y.inside = x.inside /\ y.bound = x.bound /\ y.on = x.on /\ y.call = x.call
       /\ y.todo = x.todo /\ y.raised = x.raised /\ y.done = x.done /\ y.view = seen
  <2>1. y \in AUnit
    BY <1>6, <1>7, <1>9 DEF AUnit
  <2>2. /\ y.inside = x.inside /\ y.bound = x.bound /\ y.on = x.on /\ y.call = x.call
        /\ y.todo = x.todo /\ y.raised = x.raised /\ y.done = x.done /\ y.view = seen
    BY <1>6, <1>7, <1>9 DEF AUnit
  <2> QED
    BY <2>1, <2>2
<1>12. UnitOK(y)
  BY <1>6, <1>11 DEF UnitOK
<1>13. ASSUME ~spoiled PROVE Fine(y, u, lock, disk, work)
  <2>1. HeldIn(x, u, lock, disk, work) /\ ViewIn(x, u, lock, disk, work) /\ Whole(disk)
    BY <1>1, <1>13, UnitsHere DEF Fine
  <2>2. at # "torn"
    <3>1. CASE x.view.at = "crossed"
      BY <1>3, <3>1
    <3>2. CASE x.view.at = "row"
      <4>1. x.call = <<>> /\ x.todo = <<>> /\ x.view.row = db.row[x.view.key]
        BY <1>2, <1>6, <2>1, <3>2 DEF ViewIn, UnitOK
      <4>2. Whole(db)
        <5>1. CASE lock # <<u, x.on>>
          BY <1>2, <2>1, <5>1 DEF Reads
        <5>2. CASE lock = <<u, x.on>>
          <6>1. x.on # "own"
            BY <2>1, <4>1, <5>2 DEF HeldIn, OwnHolds
          <6>2. x.on # "closed"
            <7>1. lock \in Locks /\ \A a, b : <<u, "closed">> = <<a, b>> => b = "closed"
              BY UnitsHere
            <7> QED
              BY <5>2, <7>1 DEF Locks, NoLock
          <6>3. x.on = "unit"
            BY <1>6, <6>1, <6>2, UnitFields
          <6> QED
            BY <1>2, <2>1, <4>1, <5>2, <6>3 DEF HeldIn, UnitHolds, Reads
        <5> QED
          BY <5>1, <5>2
      <4>3. db.parts[x.view.key] = x.view.row
        BY <1>8, <4>1, <4>2 DEF Whole
      <4> QED
        BY <1>3, <4>3
    <3> QED
      BY <1>5, <3>1, <3>2
  <2>3. HeldIn(y, u, lock, disk, work)
    BY <1>11, <2>1 DEF HeldIn, UnitHolds, OwnHolds
  <2> QED
    BY <1>7, <1>11, <2>2, <2>3 DEF Fine, ViewIn
<1>14. InvOf(disk, work, lock, promised, [unit EXCEPT ![u] = y], spoiled)
  <2>1. Silent(u, lock, work, lock, work) /\ (spoiled \/ (~spoiled /\ Fine(y, u, lock, disk, work)))
    BY <1>13 DEF Silent
  <2> QED
    BY <1>11, <1>12, <2>1, UnitsHere, QuietStep DEF UnitsInv
<1> QED
  BY <1>5, <1>10, <1>14, UnitsHere DEF UnitsInv

-----------------------------------------------------------------------------
LEMMA UnitsStart ==
  ASSUME UnitsInit
  PROVE  UnitsInv
<1>1. /\ disk = Empty /\ work = Empty /\ lock = NoLock /\ promised = Empty
      /\ unit = [u \in Units |-> NewUnit] /\ callsMade = 0 /\ spoiled = FALSE
  BY DEF UnitsInit
<1>2. Empty \in DB /\ Whole(Empty) /\ callsMade \in 0..MaxCalls
  <2>1. 0 \in 0..MaxCalls
    BY UnitAssumption
  <2>2. [k \in Keys |-> 0] \in [Keys -> 0..MaxCalls] /\ [k \in PartKeys |-> 0] \in [PartKeys -> 0..MaxCalls]
    BY <2>1
  <2>3. PartKeys \subseteq Keys
    BY DEF PartKeys, Keys
  <2> QED
    BY <1>1, <2>1, <2>2, <2>3 DEF Empty, DB, Whole
<1>3. PICK y : y = NewUnit
  OBVIOUS
<1>4. PICK b : b = [r \in Repos |-> "none"]
  OBVIOUS
<1>5. b \in [Repos -> Bindings] /\ \A r \in Repos : b[r] # "unit"
  BY <1>4 DEF Bindings
<1>6. y = [inside |-> FALSE, bound |-> b, on |-> "own", call |-> <<>>, todo |-> <<>>, raised |-> FALSE,
           done |-> <<>>, view |-> NoReading]
  BY <1>3, <1>4 DEF NewUnit
<1>7. /\ y \in AUnit /\ ~y.inside /\ y.bound = b /\ y.on = "own" /\ y.call = <<>> /\ y.todo = <<>>
      /\ ~y.raised /\ y.done = <<>> /\ y.view = NoReading
  BY <1>5, <1>6, Nothing DEF AUnit
<1>8. UnitOK(y)
  BY <1>5, <1>7, Nothing DEF UnitOK
<1>9. ASSUME NEW u \in Units PROVE unit[u] = y /\ Fine(y, u, NoLock, Empty, Empty)
  <2>1. NoLock # <<u, "unit">> /\ NoLock # <<u, "own">>
    BY DEF NoLock
  <2>2. HeldIn(y, u, NoLock, Empty, Empty)
    BY <1>7, <2>1 DEF HeldIn
  <2> QED
    BY <1>1, <1>3, <1>7, <2>2, Nothing DEF Fine, ViewIn
<1>10. unit \in [Units -> AUnit]
  BY <1>1, <1>3, <1>7
<1>11. NoLock \in Locks
  BY DEF Locks
<1> QED
  BY <1>1, <1>2, <1>8, <1>9, <1>10, <1>11 DEF UnitsInv, InvOf

LEMMA UnitsKept ==
  ASSUME UnitsInv, [UnitsNext]_unitVars
  PROVE  UnitsInv'
<1>1. ASSUME NEW u \in Units,
             \/ New(u) \/ Enter(u) \/ Perform(u) \/ Return(u) \/ Raise(u) \/ Catch(u)
             \/ Commit(u) \/ Rollback(u) \/ Exit(u) \/ ReadParts(u)
      PROVE  UnitsInv'
  BY <1>1, NewUnits, EnterUnits, PerformUnits, ReturnUnits, RaiseUnits, CatchUnits, CommitUnits,
     RollbackUnits, ExitUnits, ReadPartsUnits
<1>2. ASSUME NEW u \in Units, NEW c \in CallsUsed, CallRepo(u, c)
      PROVE  UnitsInv'
  BY <1>2, CallRepoUnits
<1>3. ASSUME NEW u \in Units, NEW k \in PartKeys, ReadRow(u, k)
      PROVE  UnitsInv'
  BY <1>3, ReadRowUnits
<1>4. CASE UNCHANGED unitVars
  BY <1>4 DEF unitVars, UnitsInv, InvOf
<1> QED
  BY <1>1, <1>2, <1>3, <1>4 DEF UnitsNext

LEMMA UnitsHold ==
  ASSUME UnitsInv
  PROVE  UnitsTypeOK /\ UnitsWhole
<1>1. /\ disk \in DB /\ work \in DB /\ promised \in DB /\ lock \in Locks /\ spoiled \in BOOLEAN
      /\ callsMade \in 0..MaxCalls /\ unit \in [Units -> AUnit]
  BY DEF UnitsInv, InvOf
<1>2. ASSUME NEW u \in Units
      PROVE  /\ {unit[u].inside, unit[u].raised} \subseteq BOOLEAN
             /\ unit[u].on \in {"own", "unit", "closed"}
             /\ \A r \in Repos : unit[u].bound[r] \in {"none", "own", "unit", "closed"}
  <2>1. /\ unit[u].inside \in BOOLEAN /\ unit[u].raised \in BOOLEAN
        /\ unit[u].on \in {"own", "unit", "closed"} /\ unit[u].bound \in [Repos -> Bindings]
    BY <1>1, UnitFields
  <2> QED
    BY <2>1 DEF Bindings
<1>3. {disk, work, promised} \subseteq DB
  BY <1>1
<1>4. UnitsTypeOK
  BY <1>1, <1>2, <1>3 DEF UnitsTypeOK, DB, Locks
<1>5. UnitsWhole
  BY DEF UnitsWhole, UnitsInv, InvOf, Fine, ViewIn
<1> QED
  BY <1>4, <1>5

\* TA-0103: for any number of units, any calls of the repositories, and any number of them,
\* in any order of their statements, their errors, their commits and their ends: unless a
\* caller spoiled it, the database is what the committed units and the calls outside one
\* did, each as a whole, and no item or user is read with parts that are not its row's.
THEOREM UnitsTheorem == UnitsInit /\ [][UnitsNext]_unitVars => [](UnitsTypeOK /\ UnitsWhole)
<1>1. UnitsInit => UnitsInv
  BY UnitsStart
<1>2. UnitsInv /\ [UnitsNext]_unitVars => UnitsInv'
  BY UnitsKept
<1>3. UnitsInv => UnitsTypeOK /\ UnitsWhole
  BY UnitsHold
<1> QED
  BY <1>1, <1>2, <1>3, PTL

=============================================================================
