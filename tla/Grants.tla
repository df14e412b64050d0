------------------------------- MODULE Grants -------------------------------
(***************************************************************************)
(* Who may do what with an item: the grants of the collaboration component *)
(* (src/src/components/collab/component.py) in their table, and the policy *)
(* (src/src/domain/policy.py) that asks for them.                          *)
(*                                                                         *)
(* A call reads the item, the user and the grant before it writes; calls   *)
(* about one grant may cross.                                              *)
(***************************************************************************)
EXTENDS Naturals, FiniteSets

CONSTANTS
  Members,        \* users
  RoleOf,         \* the role of every user
  OwnerOf,        \* the owner of every item, a function on the items
  RoleActions,    \* rbac.roles: what is allowed to a role, a pair of scope and verb
  Public,         \* rbac.public_permissions
  AbacRules,      \* the two lists of abac rules
  GrantThreads,   \* threads that serve a request
  MaxGrantCalls   \* bound on the requests

Papers == DOMAIN OwnerOf
Scopes == {"view", "edit"}

\* What a rule asks: a role of a set, to own the item, a grant with a scope of a set.
\* A predicate that a rule does not have is the one everybody meets.
AbacKind == [roles: SUBSET {"owner", "admin", "editor", "viewer"}, owns: BOOLEAN,
             scopes: SUBSET (Scopes \cup {"any"}), allow: SUBSET ({"content"} \X {"read", "edit"})]

ASSUME GrantsAssumption ==
  /\ RoleOf \in [Members -> DOMAIN RoleActions]
  /\ OwnerOf \in [Papers -> Members]
  /\ AbacRules \subseteq AbacKind
  /\ MaxGrantCalls \in Nat

VARIABLES
  paper,      \* the items that are there
  grants,     \* the table collaboration_grants
  grantCalls, \* requests begun
  grantWork,  \* per thread, the write it is about to make
  wanted,     \* history: per pair, the scope of the last answer
  crossing,   \* history: revokes that read the table before a grant of the same pair was written
  missed      \* history: pairs whose last answer is of such a revoke

grantVars == <<paper, grants, grantCalls, grantWork, wanted, crossing, missed>>

Pairs == Papers \X Members
GrantOf(pair) == {g \in grants : g.pair = pair}
NoGrantWork == [op |-> "none", pair |-> CHOOSE p \in Pairs : TRUE, ids |-> {}, scope |-> "none"]
GrantBusy == {t \in GrantThreads : grantWork[t].op # "none"}

GrantsInit ==
  /\ paper = Papers
  /\ grants = {}
  /\ grantCalls = 0
  /\ grantWork = [t \in GrantThreads |-> NoGrantWork]
  /\ wanted = [pair \in Pairs |-> "none"]
  /\ crossing = {}
  /\ missed = {}

-----------------------------------------------------------------------------
(* The policy. *)

\* _evaluate_rule: every predicate of the condition.
Meets(rule, u, i, scopes) ==
  /\ RoleOf[u] \in rule.roles
  /\ rule.owns => OwnerOf[i] = u
  /\ "any" \in rule.scopes \/ rule.scopes \cap scopes # {}

\* The second step of check_permission, with its wildcards; abac has none.
RoleAllows(u, action) ==
  RoleActions[RoleOf[u]] \cap {action, <<action[1], "*">>, <<"*", "*">>} # {}

\* check_permission; the caller hands over the scopes of the grants.
CheckPermission(u, action, i, scopes) ==
  \/ action \in Public
  \/ RoleAllows(u, action)
  \/ \E rule \in AbacRules : Meets(rule, u, i, scopes) /\ action \in rule.allow

\* The rules of the policy file as far as they speak of editing: an item may be
\* edited by a role, by its owner, and with a grant to edit it.
RulesGiveEdit ==
  \A u \in Members, i \in Papers, scopes \in SUBSET Scopes :
    CheckPermission(u, <<"content", "edit">>, i, scopes) <=>
      RoleAllows(u, <<"content", "edit">>) \/ OwnerOf[i] = u \/ "edit" \in scopes

CanManageCollaborators(u, i) == RoleOf[u] \in {"admin", "owner"} \/ OwnerOf[i] = u

\* list_by_content, for one user.
ScopesOf(u, i) == {g.scope : g \in GrantOf(<<i, u>>)}

-----------------------------------------------------------------------------
(* Requests. *)

PrepareGrant(t, op, pair, ids, scope) ==
  /\ t \notin GrantBusy
  /\ grantCalls < MaxGrantCalls
  /\ grantCalls' = grantCalls + 1
  /\ pair[1] \in paper
  /\ \E actor \in Members : CanManageCollaborators(actor, pair[1])
  /\ grantWork' = [grantWork EXCEPT ![t] = [op |-> op, pair |-> pair, ids |-> ids, scope |-> scope]]
  /\ UNCHANGED <<paper, grants, wanted, crossing, missed>>

\* run_grant up to the save: the grant there is, or one with a new id.
Grant(t) ==
  \E pair \in Pairs, scope \in Scopes :
    /\ OwnerOf[pair[1]] # pair[2]
    /\ PrepareGrant(t, "grant", pair,
                    IF GrantOf(pair) = {} THEN {grantCalls + 1} ELSE {g.id : g \in GrantOf(pair)}, scope)

\* run_revoke up to the DELETE, if there is anything to delete.
Revoke(t) ==
  \E pair \in Pairs : PrepareGrant(t, "revoke", pair, {g.id : g \in GrantOf(pair)}, "none")

\* Mutant: a grant the pair has already is left alone by the INSERT.
SavedIgnoring(id, pair, scope) ==
  IF GrantOf(pair) = {} THEN grants \cup {[id |-> id, pair |-> pair, scope |-> scope]} ELSE grants

\* save: INSERT, or on a conflict of the pair its scope.
Saved(id, pair, scope) ==
  IF GrantOf(pair) = {} THEN grants \cup {[id |-> id, pair |-> pair, scope |-> scope]}
  ELSE {IF g.pair = pair THEN [g EXCEPT !.scope = scope] ELSE g : g \in grants}

\* The INSERT, which the foreign key may refuse.
WriteGrant(t) ==
  LET w == grantWork[t] IN
  /\ w.op = "grant"
  /\ grantWork' = [grantWork EXCEPT ![t] = NoGrantWork]
  /\ IF w.pair[1] \in paper
     THEN /\ grants' = UNION {Saved(id, w.pair, w.scope) : id \in w.ids}
          /\ wanted' = [wanted EXCEPT ![w.pair] = w.scope]
          /\ missed' = missed \ {w.pair}
          /\ crossing' = crossing \cup {s \in GrantBusy : grantWork[s].op = "revoke" /\ grantWork[s].pair = w.pair}
     ELSE UNCHANGED <<grants, wanted, crossing, missed>>
  /\ UNCHANGED <<paper, grantCalls>>

\* The DELETE, by id.
WriteRevoke(t) ==
  LET w == grantWork[t] IN
  /\ w.op = "revoke"
  /\ grantWork' = [grantWork EXCEPT ![t] = NoGrantWork]
  /\ grants' = {g \in grants : g.id \notin w.ids}
  /\ wanted' = [wanted EXCEPT ![w.pair] = "none"]
  /\ missed' = IF t \in crossing THEN missed \cup {w.pair} ELSE missed
  /\ crossing' = crossing \ {t}
  /\ UNCHANGED <<paper, grantCalls>>

\* The deletion of an item, which takes its grants with it.
DeletePaper ==
  \E i \in paper :
    /\ paper' = paper \ {i}
    /\ grants' = {g \in grants : g.pair[1] # i}
    /\ wanted' = [pair \in Pairs |-> IF pair[1] = i THEN "none" ELSE wanted[pair]]
    /\ missed' = {pair \in missed : pair[1] # i}
    /\ UNCHANGED <<grantCalls, grantWork, crossing>>

GrantsNext ==
  DeletePaper \/ \E t \in GrantThreads : Grant(t) \/ Revoke(t) \/ WriteGrant(t) \/ WriteRevoke(t)

GrantsSpec == GrantsInit /\ [][GrantsNext]_grantVars

-----------------------------------------------------------------------------
(* Properties. *)

GrantsTypeOK ==
  /\ paper \subseteq Papers
  /\ grants \subseteq [id: 1..MaxGrantCalls, pair: Pairs, scope: Scopes]
  /\ grantCalls \in 0..MaxGrantCalls
  /\ wanted \in [Pairs -> Scopes \cup {"none"}]
  /\ crossing \subseteq GrantBusy /\ missed \subseteq Pairs

\* A user has one grant for an item, which is there and another one's; and the policy
\* decides by the last answer: who was granted the scope to edit may edit, and who was
\* not, or had it taken away, may only by a role or as the owner, unless a grant was
\* written while the revoke was under way.
GrantsHonest ==
  /\ \A g, h \in grants : g.pair = h.pair => g = h
  /\ \A g \in grants : g.pair[1] \in paper /\ OwnerOf[g.pair[1]] # g.pair[2]
  /\ \A pair \in Pairs \ missed :
       LET edit == <<"content", "edit">>  i == pair[1]  u == pair[2] IN
       i \in paper => (CheckPermission(u, edit, i, ScopesOf(u, i)) <=>
                          RoleAllows(u, edit) \/ OwnerOf[i] = u \/ wanted[pair] = "edit")
=============================================================================
