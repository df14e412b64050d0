------------------------------- MODULE RichText -------------------------------
(***************************************************************************)
(* Rich text documents: the schema check and the sanitizer                 *)
(* (components/richtext/_impl.py), the renderer                            *)
(* (components/render_posts/_impl.py) and the preview routes that use them  *)
(* (api/routes/admin_preview.py).                                          *)
(*                                                                         *)
(* A document is the set of its nodes, numbered as the recursive functions  *)
(* meet them, each with its depth; the marks of a node are numbered in turn. *)
(* A URL is what is_safe_url tells apart.                                   *)
(***************************************************************************)
EXTENDS Naturals, FiniteSets

CONSTANTS Names,         \* the names of types and attributes
          Shapes,        \* the nodes a document is made of, but for place and id
          MaxNodes,      \* bound: nodes in a document
          MaxLinks       \* RichTextConfig.max_links_per_doc (500)

Urls == {"safe", "unsafe"}
Mark == [id: Nat, type: Names, href: Urls, attrs: SUBSET Names]

(* A node without a src has none that is unsafe.                            *)
ASSUME TextAssumption ==
    /\ MaxNodes \in Nat \ {0} /\ MaxLinks \in Nat /\ {"doc", "href", "rel"} \subseteq Names
    /\ Shapes \subseteq [type: Names, attrs: SUBSET Names, src: Urls, marks: SUBSET Mark]
    /\ \A s \in Shapes : IsFiniteSet(s.marks) /\ (s.src = "unsafe" => "src" \in s.attrs)

VARIABLES document,      \* what the request holds
          clean,         \* sanitize_document's result, or {} before it
          html           \* render_rich_text's result: the pieces of the page

textVars == <<document, clean, html>>

(* NODE_TYPE_TO_TAG and MARK_TYPE_TO_TAG under the default allow_tags.      *)
AllowedNodes == {"doc", "text", "hardBreak", "paragraph", "heading", "blockquote",
                 "bulletList", "orderedList", "listItem", "codeBlock", "image"}
AllowedMarks == {"bold", "strong", "italic", "em", "code", "link"}
AllowedAttrs(type) == IF type = "image" THEN {"src", "alt", "title", "width", "height"}
                      ELSE {}

(* a is an ancestor of n.                                                  *)
Above(d, a, n) == /\ a.id < n.id
                  /\ \A k \in d : a.id < k.id /\ k.id <= n.id => k.depth > a.depth

(* The documents over the shapes: a root, and below it any tree.            *)
DepthsOf(k) == {f \in [1..k -> 0..(k - 1)] :
                  \A i \in 1..k : IF i = 1 THEN f[i] = 0
                                  ELSE f[i] >= 1 /\ f[i] <= f[i - 1] + 1}
Node(i, depth, s) == [id |-> i, depth |-> depth, type |-> s.type, attrs |-> s.attrs,
                      src |-> s.src, marks |-> s.marks]

TextInit == \E k \in 1..MaxNodes : \E s \in [1..k -> Shapes], f \in DepthsOf(k) :
                /\ document = {Node(i, f[i], s[i]) : i \in 1..k}
                /\ clean = {} /\ html = {}

-----------------------------------------------------------------------------
(* validate_schema: what it reports of a document.                         *)
NodeErrors(n) ==
    {<<"node", n.type>> : x \in {n.type} \ AllowedNodes}
    \union {<<"attr", a>> : a \in IF n.type \in AllowedNodes
                                  THEN n.attrs \ AllowedAttrs(n.type) ELSE {}}

MarkErrors(m) ==
    IF m.type \notin AllowedMarks THEN {<<"mark", m.type>>}
    ELSE {<<"attr", a>> : a \in m.attrs \ (IF m.type = "link" THEN {"href", "title"} ELSE {})}

SchemaErrors(d) ==
    UNION {NodeErrors(n) \union UNION {MarkErrors(m) : m \in n.marks} : n \in d}

(* count_links and validate_link_count.                                    *)
LinksOf(n) == {<<n.id, m.id>> : m \in {x \in n.marks : x.type = "link"}}
Links(d) == UNION {LinksOf(n) : n \in d}
CountLinks(d) == Cardinality(Links(d))

(* validate_rich_text.                                                     *)
Errors(d) == SchemaErrors(d)
             \union (IF CountLinks(d) > MaxLinks THEN {<<"links", "max">>} ELSE {})

-----------------------------------------------------------------------------
(* An image whose src sanitize_url refuses.                                 *)
StrippedUnsafe(n) == n.type = "image" /\ "src" \in n.attrs /\ n.src = "unsafe"

(* sanitize_node: a node of another type, or an image whose src is unsafe,  *)
(* goes with everything under it.                                          *)
Stripped(n) == \/ n.type \notin AllowedNodes
               \/ StrippedUnsafe(n)

Kept(d) == {n \in d : \A a \in d : Stripped(a) => a # n /\ ~Above(d, a, n)}

(* The counter of the links goes through the whole document: a link behind  *)
(* an unsafe URL counts, one in a stripped node does not.                  *)
Before(p, q) == p[1] < q[1] \/ (p[1] = q[1] /\ p[2] <= q[2])

(* Mutant: every node starts a counter of its own.                         *)
LinkNumberInNode(d, n, m) ==
    Cardinality({p \in Links(d) : p[1] = n.id /\ p[2] <= m.id})

(* The number of a link in the whole document.                             *)
LinkNumber(d, n, m) ==
    Cardinality({p \in Links(Kept(d)) : Before(p, <<n.id, m.id>>)})

KeepsMark(d, n, m) ==
    /\ m.type \in AllowedMarks
    /\ m.type = "link" => LinkNumber(d, n, m) <= MaxLinks /\ m.href # "unsafe"

(* A kept link is rebuilt: href, title if there was one, and rel.           *)
CleanMark(m) == IF m.type = "link"
                THEN [m EXCEPT !.attrs = (@ \intersect {"title"}) \union {"href", "rel"}]
                ELSE [m EXCEPT !.attrs = {}]

CleanNode(d, n) ==
    [n EXCEPT !.attrs = @ \intersect (AllowedAttrs(n.type) \union {"level"}),
              !.marks = {CleanMark(m) : m \in {x \in @ : KeepsMark(d, n, x)}}]

EmptyDoc == {[id |-> 1, depth |-> 0, type |-> "doc", attrs |-> {}, src |-> "safe",
              marks |-> {}]}

Sanitize(d) == IF Kept(d) = {} THEN EmptyDoc
               ELSE {CleanNode(d, n) : n \in Kept(d)}

-----------------------------------------------------------------------------
(* render_node: a type without a renderer shows its children only; those    *)
(* below show none, a code block nothing but the text in it.               *)
Childless == {"text", "image", "hardBreak", "horizontalRule"}
Elements  == (AllowedNodes \ {"doc", "text", "image"}) \union {"horizontalRule"}

Shown(d, n) == \A a \in d : Above(d, a, n) =>
                   /\ a.type \notin Childless
                   /\ a.type = "codeBlock" => n.type = "text"

(* _apply_mark: an anchor for each link of a text, unless its URL is unsafe. *)
Anchors(d, n) ==
    {<<n.id, "a", m.href>> :
        m \in {x \in n.marks :
                  /\ x.type = "link" /\ x.href # "unsafe"
                  /\ \A a \in d : Above(d, a, n) => a.type # "codeBlock"}}

(* render_image: none for an unsafe src.                                   *)
Pieces(d, n) ==
    IF n.type \in Elements THEN {<<n.id, n.type, "none">>}
    ELSE IF n.type = "text" THEN {<<n.id, "text", "none">>} \union Anchors(d, n)
    ELSE IF n.type = "image" /\ ~("src" \in n.attrs /\ n.src = "unsafe")
         THEN {<<n.id, "image", n.src>>}
    ELSE {}

Render(d) == UNION {Pieces(d, n) : n \in {x \in d : Shown(d, x)}}

-----------------------------------------------------------------------------
(* POST /preview renders the document as it came.                           *)
PreviewRichText ==
    /\ html = {} /\ clean = {}
    /\ html' = Render(document)
    /\ UNCHANGED <<document, clean>>

(* POST /preview/sanitize renders what the sanitizer leaves of it.           *)
SanitizeRichText ==
    /\ clean = {}
    /\ clean' = Sanitize(document)
    /\ html' = Render(clean')
    /\ UNCHANGED document

TextNext == PreviewRichText \/ SanitizeRichText
TextSpec == TextInit /\ [][TextNext]_textVars

-----------------------------------------------------------------------------
TextTypeOK == /\ document # {}
              /\ \A n \in clean : n.type \in AllowedNodes
              /\ \A p \in html : p[1] \in 1..MaxNodes

(* A sanitized document is settled: sanitizing it again changes nothing, it  *)
(* keeps within the link limit, and the schema check finds fault with       *)
(* nothing but what the sanitizer itself writes or lets pass, the rel of a  *)
(* link and a level.  It shows nothing the document itself would not have   *)
(* shown, and no page shows an unsafe URL.                                  *)
SanitizeSettles ==
    /\ clean # {} =>
          /\ Sanitize(clean) = clean
          /\ Errors(clean) \subseteq {<<"attr", "rel">>, <<"attr", "level">>}
          /\ Render(clean) \subseteq Render(document)
    /\ \A p \in html : p[3] # "unsafe"
=============================================================================
