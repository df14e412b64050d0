------------------------------ MODULE Resources ------------------------------
(***************************************************************************)
(* The PDF resources (core/services/resource_pdf.py) over the in-memory     *)
(* repository of api/deps.py and behind the routes of admin_resources.py.   *)
(*                                                                         *)
(* The repository hands out the object it keeps, so the service's           *)
(* assignments to it are assignments to the store: whether the request is   *)
(* then refused or not, `stored` has the values it asked for.               *)
(***************************************************************************)
EXTENDS Naturals, Sequences

CONSTANTS Resources, Slugs, PdfAssets, OtherAssets, Versions

ASSUME ResourceAssumption == PdfAssets \cap OtherAssets = {}

BadSlug == "Not A Slug"       \* fails the pattern of _is_valid_slug
Nil     == "nil"              \* None
Absent  == [slug |-> Nil]     \* no such resource

SlugValues    == Slugs \cup {BadSlug}
AssetValues   == PdfAssets \cup OtherAssets \cup {Nil}
VersionValues == Versions \cup {Nil}
PolicyValues  == {"pinned", "latest"}

Fields == [titled : BOOLEAN, slug : SlugValues, asset : AssetValues,
           version : VersionValues, policy : PolicyValues]

VARIABLES stored,      \* the repository's dict: the live objects
          order,       \* and its order
          spoiled      \* history: the resources a refused request has changed

resourceVars == <<stored, order, spoiled>>

ResourceInit == stored = [r \in Resources |-> Absent] /\ order = <<>> /\ spoiled = {}

Live == {r \in Resources : stored[r] # Absent}

(* validate_resource_fields: a title, and a slug of the right form.         *)
FieldErrors(f) == ~f.titled \/ f.slug \notin Slugs

(* validate_pinned_policy with the resolver that is wired: its get_version  *)
(* answers None for every version, so a version is always "not found"; an   *)
(* asset that is unknown is as wrong as one that is no PDF.                 *)
PolicyErrors(f) ==
    \/ f.policy = "pinned" /\ f.version = Nil
    \/ f.policy = "latest" /\ f.version # Nil
    \/ f.asset # Nil /\ f.asset \notin PdfAssets
    \/ f.version # Nil

(* repo.get_by_slug: the first in the dict.                                 *)
BySlug(table, s) ==
    {order[i] : i \in {k \in DOMAIN order : /\ table[order[k]].slug = s
                                           /\ \A j \in 1 .. k - 1 : table[order[j]].slug # s}}

(* create: a new object, stored only when nothing is wrong with it.         *)
CreateResource(r, f) ==
    /\ r \notin Live
    /\ ~FieldErrors(f) /\ ~PolicyErrors(f) /\ BySlug(stored, f.slug) = {}
    /\ stored' = [stored EXCEPT ![r] = f]
    /\ order' = Append(order, r)
    /\ UNCHANGED spoiled

(* update: setattr on the live object for each field the request names, the *)
(* others keeping their values, then the validations, then the slug if it is *)
(* named: refused when get_by_slug finds another, and it may find the object *)
(* itself, which has the slug by now, before another that has it too.       *)
UpdateResource(r, g, named) ==
    /\ r \in Live
    /\ named \/ g.slug = stored[r].slug
    /\ stored' = [stored EXCEPT ![r] = g]
    /\ LET found == BySlug(stored', g.slug)
           taken == named /\ ~(found \subseteq {r})
       IN  spoiled' = IF FieldErrors(g) \/ PolicyErrors(g) \/ taken
                      THEN spoiled \cup {r} ELSE spoiled \ {r}
    /\ UNCHANGED order

(* set_pinned_policy: the same object, the same order; of the validations    *)
(* only the policy's.                                                       *)
SetPinnedPolicy(r, p, v) ==
    /\ r \in Live
    /\ LET g == [stored[r] EXCEPT !.policy = p,
                                  !.version = IF p = "pinned" THEN v ELSE Nil]
       IN  /\ stored' = [stored EXCEPT ![r] = g]
           /\ spoiled' = IF PolicyErrors(g) THEN spoiled \cup {r} ELSE spoiled
    /\ UNCHANGED order

\* A list without its i-th entry.
Dropped(s, i) == SubSeq(s, 1, i - 1) \o SubSeq(s, i + 1, Len(s))

(* delete: pop of the dict's key, with its place.                           *)
DeleteResource(r) ==
    /\ r \in Live
    /\ stored' = [stored EXCEPT ![r] = Absent]
    /\ \E i \in DOMAIN order : order[i] = r /\ order' = Dropped(order, i)
    /\ spoiled' = spoiled \ {r}

(* The routes: POST, PUT, POST pinned-policy, DELETE.                       *)
ResourceNext ==
    \E r \in Resources :
        \/ \E f \in Fields : CreateResource(r, f)
        \/ \E f \in Fields, named \in BOOLEAN : UpdateResource(r, f, named)
        \/ \E p \in PolicyValues, v \in VersionValues : SetPinnedPolicy(r, p, v)
        \/ DeleteResource(r)

ResourceSpec == ResourceInit /\ [][ResourceNext]_resourceVars

-----------------------------------------------------------------------------

ResourceTypeOK == /\ stored \in [Resources -> Fields \cup {Absent}]
                  /\ spoiled \subseteq Live

\* A stored resource obeys the rules its requests are validated by (a title, a slug of the
\* right form, a PDF asset, no version that is not found), and each has one place in the
\* dict, except where a refused request has changed an object all the same: the service
\* assigns to the repository's own object before it validates.
ResourcesSound ==
    /\ ResourceTypeOK
    /\ \A r \in Live : \E i \in DOMAIN order : \A k \in DOMAIN order : order[k] = r <=> k = i
    /\ \A r \in Live \ spoiled :
          ~FieldErrors(stored[r]) /\ ~PolicyErrors(stored[r]) /\ stored[r].policy = "latest"
==============================================================================
