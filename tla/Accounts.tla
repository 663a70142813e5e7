------------------------------ MODULE Accounts ------------------------------
(***************************************************************************)
(* What the holder of an access token may do to accounts: moderation       *)
(* (internal/handlers/admin_handler.go, admin_middleware.go, the routes of *)
(* cmd/server/main.go) and a user's own keyword list (CommentFilters).     *)
(* Who is let in is decided by the token alone, so accounts and tokens are *)
(* those of AccessLease, which Sessions implements.  A request that was let*)
(* in runs its statements later: it still has to read its body and to wait *)
(* for a connection, and nobody looks at its token again.                  *)
(***************************************************************************)
EXTENDS KeywordLists

CONSTANTS
    Users, Admins, AccessTTL,      \* of AccessLease
    Owner,                         \* the user whose keyword list is modelled
    Subjects,                      \* the users the admins turn to
    Calls,                         \* concurrent calls of the admin routes
    NoUser                         \* nobody called, or no audit row is due

ASSUME AccountsAssumption ==
    /\ Admins \subseteq Users
    /\ Owner \in Users
    /\ Subjects \subseteq Users
    /\ NoUser \notin Users
    /\ AccessTTL \in Nat \ {0}

VARIABLES
    account, access, since,        \* of AccessLease
    filters, adding,               \* of CommentFilters
    entered,      \* the owner's requests let in, before their first statement
    caller,       \* the admin whose call was let in, or NoUser
    auditing,     \* whose suspension a call is about to record, or NoUser
    suspended,    \* users with is_suspended
    banned,       \* users with banned
    trail,        \* rows of admin_actions: who suspended whom
    untraced      \* history: users whose suspension was not recorded

lease == <<account, access, since>>
list == <<filters, adding>>
calls == <<caller, auditing>>
moderation == <<suspended, banned, trail, untraced>>
vars == <<lease, list, entered, calls, moderation>>

Lease == INSTANCE AccessLease
List == INSTANCE CommentFilters

TypeOK ==
    /\ Lease!TypeOK
    /\ List!TypeOK
    /\ entered \subseteq Adders
    /\ caller \in [Calls -> Admins \cup {NoUser}]
    /\ auditing \in [Calls -> Users \cup {NoUser}]
    /\ suspended \subseteq Users
    /\ banned \subseteq Users
    /\ trail \subseteq Admins \X Users
    /\ untraced \subseteq Users

Init ==
    /\ Lease!Init
    /\ List!Init
    /\ entered = {}
    /\ caller = [q \in Calls |-> NoUser]
    /\ auditing = [q \in Calls |-> NoUser]
    /\ suspended = {}
    /\ banned = {}
    /\ trail = {}
    /\ untraced = {}

\* The owner's requests between the middleware and their last statement.
Working == entered \cup List!Counted

\* The admins' calls between the middleware and their UPDATE.
Waiting == {q \in Calls : caller[q] # NoUser /\ auditing[q] = NoUser}

\* The call q is answered.
Done(q) ==
    /\ caller' = [caller EXCEPT ![q] = NoUser]
    /\ auditing' = [auditing EXCEPT ![q] = NoUser]

-----------------------------------------------------------------------------
(* Mutated forms of the definitions below.                                 *)

\* The token is parsed without looking at its expiry.
AuthWithoutExpiry(u) == account[u] # "none"

\* The handler answers before the INSERT.
SuspendUserOnly(q, u) ==
    /\ q \in Waiting
    /\ account[u] # "none"
    /\ suspended' = suspended \cup {u}
    /\ Done(q)
    /\ UNCHANGED <<lease, list, entered, banned, trail, untraced>>

\* The record is written under the admin's own id.
RecordOneself(q) ==
    /\ auditing[q] # NoUser
    /\ trail' = trail \cup {<<auditing[q], caller[q]>>}
    /\ Done(q)
    /\ UNCHANGED <<lease, list, entered, suspended, banned, untraced>>

-----------------------------------------------------------------------------
(* Who is let in (the route groups of main).                               *)

\* A bearer token passes while its exp lies ahead; no row is looked at.
AuthMiddleware(u) == access[u] > 0

\* The role is the one the token was signed with.
AdminMiddleware(u) == u \in Admins

AdminRoute(a) == AuthMiddleware(a) /\ AdminMiddleware(a)

LetIn(q, a) ==
    /\ caller[q] = NoUser
    /\ AdminRoute(a)
    /\ caller' = [caller EXCEPT ![q] = a]
    /\ UNCHANGED <<lease, list, entered, auditing, moderation>>

Enter(q) ==
    /\ q \notin Working
    /\ AuthMiddleware(Owner)
    /\ entered' = entered \cup {q}
    /\ UNCHANGED <<lease, list, calls, moderation>>

-----------------------------------------------------------------------------
(* Moderation.  An UPDATE of an unknown id changes nothing and is answered *)
(* 200.                                                                    *)

\* A malformed id, a failed UPDATE or one that finds no row, a route that
\* only reads, or the server dies before the UPDATE.
Dismiss(q) ==
    /\ q \in Waiting
    /\ Done(q)
    /\ UNCHANGED <<lease, list, entered, moderation>>

\* UPDATE users SET is_suspended=true; the INSERT of the record is due.
SuspendUser(q, u) ==
    /\ q \in Waiting
    /\ account[u] # "none"
    /\ suspended' = suspended \cup {u}
    /\ auditing' = [auditing EXCEPT ![q] = u]
    /\ UNCHANGED <<lease, list, entered, caller, banned, trail, untraced>>

\* INSERT INTO admin_actions.
RecordAction(q) ==
    /\ auditing[q] # NoUser
    /\ trail' = trail \cup {<<caller[q], auditing[q]>>}
    /\ Done(q)
    /\ UNCHANGED <<lease, list, entered, suspended, banned, untraced>>

\* The INSERT fails, which the handler ignores, or the server dies before it.
LoseRecord(q) ==
    /\ auditing[q] # NoUser
    /\ untraced' = untraced \cup {auditing[q]}
    /\ Done(q)
    /\ UNCHANGED <<lease, list, entered, suspended, banned, trail>>

\* One UPDATE each, none of them recorded.
UnsuspendUser(q, u) ==
    /\ q \in Waiting
    /\ suspended' = suspended \ {u}
    /\ Done(q)
    /\ UNCHANGED <<lease, list, entered, banned, trail, untraced>>

BanUser(q, u) ==
    /\ q \in Waiting
    /\ account[u] # "none"
    /\ banned' = banned \cup {u}
    /\ Done(q)
    /\ UNCHANGED <<lease, list, entered, suspended, trail, untraced>>

AdminDeleteUser(q, u) ==
    /\ q \in Waiting
    /\ Lease!DeleteUser(u)
    /\ Done(q)
    /\ UNCHANGED <<list, entered, moderation>>

-----------------------------------------------------------------------------
(* The owner's keyword list.                                               *)

\* COUNT of a POST, or the only statement of a DELETE.
FirstStatement(q) ==
    /\ q \in entered
    /\ \E k \in Keywords : List!CountFilters(q, k) \/ List!DeleteCommentFilter(k)
    /\ entered' = entered \ {q}

\* 400 (also at the cap), 404, a failed statement, or the server dies.
Leave(q) ==
    /\ q \in entered
    /\ entered' = entered \ {q}
    /\ UNCHANGED list

ChangeFilters(q) ==
    /\ \/ FirstStatement(q) \/ Leave(q)
       \/ (List!InsertFilter(q) \/ List!AbandonFilter(q)) /\ UNCHANGED entered
    /\ UNCHANGED <<lease, calls, moderation>>

\* Registrations, logins, refreshes and time.
LeaseStep ==
    /\ \/ Lease!Tick
       \/ \E u \in Users : Lease!Register(u) \/ Lease!Close(u) \/ Lease!Grant(u)
    /\ UNCHANGED <<list, entered, calls, moderation>>

AdminStep(q) ==
    \/ \E a \in Admins : LetIn(q, a)
    \/ \E u \in Subjects : SuspendUser(q, u) \/ UnsuspendUser(q, u) \/ BanUser(q, u)
    \/ \E u \in Users : AdminDeleteUser(q, u)
    \/ Dismiss(q) \/ RecordAction(q) \/ LoseRecord(q)

Next ==
    \/ \E q \in Calls : AdminStep(q)
    \/ \E q \in Adders : Enter(q) \/ ChangeFilters(q)
    \/ LeaseStep

Spec == Init /\ [][Next]_vars

-----------------------------------------------------------------------------
(* Properties.                                                             *)

\* Whoever is suspended is named by a record of the admin who did it, unless
\* that record is about to be written or its INSERT was lost; overlapping
\* calls, unsuspending in between and a repeated suspension change nothing in
\* that.
SuspensionTraceable ==
    \A u \in suspended :
        \/ \E a \in Admins : <<a, u>> \in trail
        \/ \E q \in Calls : auditing[q] = u
        \/ u \in untraced

\* One token life after an account was closed, its keyword list only drains:
\* no request is let in any more, and every change of the list uses up one of
\* those that were, however long they waited for their statements.
DeletedOwnerDrains ==
    [][since[Owner] >= AccessTTL =>
          /\ entered' \subseteq entered /\ Working' \subseteq Working
          /\ filters' # filters => Working' # Working]_vars

\* One token life after every admin's account was closed, moderation only
\* drains: no call is let in any more, and every change of a user uses up one
\* of those that were.
ModerationDrains ==
    [][(\A a \in Admins : since[a] >= AccessTTL) =>
          /\ Waiting' \subseteq Waiting
          /\ Waiting' = Waiting =>
                /\ UNCHANGED <<suspended, banned>>
                /\ \A u \in Users : account[u] = "live" => account'[u] = "live"]_vars

\* Those of CommentFilters.
OvershootBounded == List!OvershootBounded
ListedOnce == List!ListedOnce
=============================================================================
