-------------------------------- MODULE Access --------------------------------
(***************************************************************************)
(* Users, invites and sessions: components/auth/component.py and           *)
(* components/invite/component.py over the users and invites tables        *)
(* (adapters/sqlite/repos.py) and the session store of the process         *)
(* (adapters/auth/session_store.py).                                       *)
(*                                                                         *)
(* Each operation reads, decides, and writes one row at a time; other      *)
(* requests run in between and any step may raise.  Of a user's roles only *)
(* whether they include admin, the role that manages users, is kept.       *)
(***************************************************************************)
EXTENDS Naturals, FiniteSets, Sequences

CONSTANTS Threads,       \* number of request threads
          MaxUsers, MaxInvites,
          Addresses,     \* e-mail addresses; the first user has one of them
          SessionLife, InviteLife,   \* 24 hours; days_valid: both in days
          MaxDay, MaxBegun           \* bounds: days, requests

Nobody == 0
FirstAddress == CHOOSE e \in Addresses : TRUE

ASSUME AccessAssumption ==
    /\ Threads \in Nat /\ MaxUsers \in Nat \ {0} /\ MaxInvites \in Nat
    /\ SessionLife \in Nat /\ InviteLife \in Nat /\ MaxDay \in Nat /\ MaxBegun \in Nat
    /\ Addresses # {}

VARIABLES users,         \* rows of the users table, by id
          invites,       \* rows of the invites table
          sessions,      \* live sessions: whose, and until when
          requests,      \* what each thread is about to write
          day, requested,
          born,          \* history: the invite each user came from
          crossed,       \* history: something was written after its reads were overtaken
          cut            \* history: a redemption raised between its two writes,
                         \* or two of one invite were under way

accessVars == <<users, invites, sessions, requests, day, requested, born, crossed, cut>>

User    == [email : Addresses, admin : BOOLEAN, active : BOOLEAN]
Session == [user : 1..MaxUsers, ends : 0..(MaxDay + SessionLife)]
Invite  == [admin : BOOLEAN, ends : 0..(MaxDay + InviteLife), by : 0..MaxUsers]
None    == [op |-> "none"]
Request ==
    [op : {"user", "redeemer", "mark", "session"}, id : 1..MaxUsers,
     row : User, invite : 0..MaxInvites, fresh : BOOLEAN]

Known == DOMAIN users
Admins(u) == u \in Known /\ users[u].admin /\ users[u].active
Serving == {t \in 1..Threads : requests[t] # None}
Pending(t) == [o \in 1..Threads |->
    IF o = t \/ requests[o] = None THEN None ELSE [requests[o] EXCEPT !.fresh = FALSE]]

Ready(t) == /\ t \notin Serving /\ 1..(t - 1) \subseteq Serving
            /\ requested < MaxBegun
Plan(t, request) ==
    /\ Ready(t)
    /\ requests' = [requests EXCEPT ![t] = request]
    /\ requested' = requested + 1
Taken == Known \union {requests[t].id : t \in
             {s \in Serving : requests[s].op \in {"user", "redeemer"}}}
NewId == CHOOSE n \in 1..(MaxUsers + 1) : n \notin Taken /\ 1..(n - 1) \subseteq Taken

-----------------------------------------------------------------------------
AccessInit ==
    /\ users = [u \in {1} |-> [email |-> FirstAddress, admin |-> TRUE, active |-> TRUE]]
    /\ invites = <<>> /\ sessions = {}
    /\ requests = [t \in 1..Threads |-> None]
    /\ day = 0 /\ requested = 0
    /\ born = [u \in 1..MaxUsers |-> Nobody]
    /\ crossed = FALSE /\ cut = FALSE

EmailFree(e) == \A u \in Known : users[u].email # e

(* run_login: the password is right and the account active; the session is  *)
(* created in the next step.                                               *)
Login(t, u) ==
    /\ u \in Known /\ users[u].active
    /\ Plan(t, [op |-> "session", id |-> u, row |-> users[u], invite |-> 0,
                fresh |-> TRUE])
    /\ UNCHANGED <<users, invites, sessions, day, born, crossed, cut>>

CreateSession(t) ==
    /\ requests[t] # None /\ requests[t].op = "session"
    /\ sessions' = sessions \union {[user |-> requests[t].id, ends |-> day + SessionLife]}
    /\ crossed' = (crossed \/ ~requests[t].fresh)
    /\ requests' = Pending(t)
    /\ UNCHANGED <<users, invites, day, requested, born, cut>>

(* run_verify_session drops an expired session; it accepts any other whose  *)
(* user exists, whatever the user's status.                                *)
Expire(s) ==
    /\ s \in sessions /\ s.ends < day
    /\ sessions' = sessions \ {s}
    /\ UNCHANGED <<users, invites, requests, day, requested, born, crossed, cut>>

(* run_create_user, up to the insert.                                      *)
CreateUser(t, actor, e, admin) ==
    /\ Admins(actor) /\ EmailFree(e) /\ NewId <= MaxUsers
    /\ Plan(t, [op |-> "user", id |-> NewId, invite |-> 0, fresh |-> TRUE,
                row |-> [email |-> e, admin |-> admin, active |-> TRUE]])
    /\ UNCHANGED <<users, invites, sessions, day, born, crossed, cut>>

(* run_update_user: an administrator may not take the role or the access    *)
(* away from himself; whoever is disabled loses his sessions, and the row   *)
(* is saved after that.                                                    *)
LocksSelfOut(actor, u, admin, active) ==
    actor = u /\ ((users[u].admin /\ ~admin) \/ ~active)

Dropped(u, active) ==
    IF ~active /\ users[u].active THEN {s \in sessions : s.user = u} ELSE {}
UpdateUser(t, actor, u, admin, active) ==
    /\ Admins(actor) /\ u \in Known
    /\ ~LocksSelfOut(actor, u, admin, active)
    /\ sessions' = sessions \ Dropped(u, active)
    /\ Plan(t, [op |-> "user", id |-> u, invite |-> 0, fresh |-> TRUE,
                row |-> [users[u] EXCEPT !.admin = admin, !.active = active]])
    /\ UNCHANGED <<users, invites, day, born, crossed, cut>>

(* save: the row by id, refused by the UNIQUE address, which ends the       *)
(* request; a redeemer goes on to mark the invite.                         *)
SaveUser(t) ==
    /\ requests[t] # None /\ requests[t].op \in {"user", "redeemer"}
    /\ LET r == requests[t]
           clash == \E u \in Known \ {r.id} : users[u].email = r.row.email
       IN IF clash
          THEN /\ requests' = [requests EXCEPT ![t] = None]
               /\ UNCHANGED <<users, born, crossed>>
          ELSE /\ users' = [u \in Known \union {r.id} |->
                               IF u = r.id THEN r.row ELSE users[u]]
               /\ born' = IF r.op = "redeemer" THEN [born EXCEPT ![r.id] = r.invite] ELSE born
               /\ crossed' = (crossed \/ ~r.fresh)
               /\ requests' = IF r.op = "user" THEN Pending(t)
                              ELSE [Pending(t) EXCEPT ![t] = [r EXCEPT !.op = "mark"]]
    /\ UNCHANGED <<invites, sessions, day, requested, cut>>

(* invite run_create.                                                      *)
CreateInvite(t, actor, admin) ==
    /\ Ready(t) /\ Admins(actor) /\ Len(invites) < MaxInvites
    /\ invites' = Append(invites, [admin |-> admin, ends |-> day + InviteLife, by |-> Nobody])
    /\ requested' = requested + 1
    /\ UNCHANGED <<users, sessions, requests, day, born, crossed, cut>>

(* Mutant: an invite is not looked at before it is redeemed.               *)
RedeemAny(t, i, e) ==
    /\ i \in 1..Len(invites) /\ ~(invites[i].ends < day)
    /\ EmailFree(e) /\ NewId <= MaxUsers
    /\ Plan(t, [op |-> "redeemer", id |-> NewId, invite |-> i, fresh |-> TRUE,
                row |-> [email |-> e, admin |-> invites[i].admin, active |-> TRUE]])
    /\ cut' = (cut \/ \E o \in Serving : requests[o].invite = i)
    /\ UNCHANGED <<users, invites, sessions, day, born, crossed>>

(* run_redeem: checks, the new user, and only then the mark on the invite.  *)
Redeem(t, i, e) ==
    /\ i \in 1..Len(invites)
    /\ invites[i].by = Nobody
    /\ RedeemAny(t, i, e)

MarkRedeemed(t) ==
    /\ requests[t] # None /\ requests[t].op = "mark"
    /\ invites' = [invites EXCEPT ![requests[t].invite].by = requests[t].id]
    /\ crossed' = (crossed \/ ~requests[t].fresh)
    /\ requests' = Pending(t)
    /\ UNCHANGED <<users, sessions, day, requested, born, cut>>

Raise(t) ==
    /\ t \in Serving
    /\ cut' = (cut \/ requests[t].op = "mark")
    /\ requests' = [requests EXCEPT ![t] = None]
    /\ UNCHANGED <<users, invites, sessions, day, requested, born, crossed>>

NextDay == /\ day < MaxDay /\ day' = day + 1
           /\ UNCHANGED <<users, invites, sessions, requests, requested, born, crossed, cut>>

AccessNext ==
    \/ \E t \in 1..Threads :
          \/ \E u \in Known : Login(t, u)
          \/ CreateSession(t) \/ SaveUser(t) \/ MarkRedeemed(t) \/ Raise(t)
          \/ \E actor \in Known, admin \in BOOLEAN :
                \/ \E e \in Addresses : CreateUser(t, actor, e, admin)
                \/ \E u \in Known, active \in BOOLEAN : UpdateUser(t, actor, u, admin, active)
                \/ CreateInvite(t, actor, admin)
          \/ \E i \in 1..MaxInvites, e \in Addresses : Redeem(t, i, e)
    \/ \E s \in sessions : Expire(s)
    \/ NextDay

AccessSpec == AccessInit /\ [][AccessNext]_accessVars

-----------------------------------------------------------------------------
AccessTypeOK ==
    /\ Known \subseteq 1..MaxUsers /\ users \in [Known -> User]
    /\ invites \in Seq(Invite) /\ Len(invites) <= MaxInvites
    /\ sessions \subseteq Session
    /\ requests \in [1..Threads -> Request \union {None}]
    /\ day \in 0..MaxDay /\ requested \in 0..MaxBegun
    /\ born \in [1..MaxUsers -> 0..MaxInvites]
    /\ crossed \in BOOLEAN /\ cut \in BOOLEAN

(* As long as no request wrote on reads that another write had overtaken,   *)
(* an active administrator is left, whatever role changes, deactivations    *)
(* and failures came before.                                               *)
SomeAdministrator == ~crossed => \E u \in Known : Admins(u)

(* In the same histories whoever is disabled has no session, which is what  *)
(* keeps run_verify_session, which never looks at the status, from letting *)
(* him in.                                                                 *)
DisabledHasNoSession == ~crossed => \A s \in sessions : users[s.user].active

(* An invite is marked with a user that exists and came from it with its    *)
(* role as long as nobody changed it, also when a redemption failed half    *)
(* way; and unless one did, or two overlapped, an invite makes one user.    *)
RedeemedOnce ==
    /\ \A i \in 1..Len(invites) :
          invites[i].by # Nobody => invites[i].by \in Known /\ born[invites[i].by] = i
    /\ ~cut =>
          \A u, w \in Known : born[u] = born[w] /\ born[u] # Nobody => u = w

\* Accounts, sessions and invitations agree: an administrator is left, who is disabled
\* has no session, and an invitation made one user.
AccountsSafe == SomeAdministrator /\ DisabledHasNoSession /\ RedeemedOnce

=============================================================================
