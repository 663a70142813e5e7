------------------------------ MODULE Sessions ------------------------------
(***************************************************************************)
(* Accounts, sessions and access tokens (internal/auth, the sqlc queries it*)
(* uses, internal/middleware/auth_middleware.go).  The service runs its    *)
(* statements one by one, without a transaction: requests interleave       *)
(* between them, and any of them may be the last one a request runs.       *)
(*                                                                         *)
(* A refresh token is named by the session row that stores its hash.  Of a *)
(* user's access tokens only the one that lives longest matters: `access'  *)
(* is its remaining time.  The key session:<id> that a login leaves in     *)
(* Redis is read and deleted by nothing and is left out, like expires_at.  *)
(*                                                                         *)
(* cmd/server/main.go routes Register and Login.  No route leads to Refresh*)
(* and Logout, so no client meets them: they are modelled as what Service  *)
(* offers its callers, in any order.                                       *)
(***************************************************************************)
EXTENDS Integers

CONSTANTS
    Users,
    Admins,       \* users with is_admin, which no code changes
    Tokens,       \* the refresh tokens there will be
    Requests,     \* concurrent calls of the service
    AccessTTL,    \* 15 minutes
    NoUser, NoToken

ASSUME SessionsAssumption ==
    /\ Admins \subseteq Users
    /\ AccessTTL \in Nat \ {0}
    /\ NoUser \notin Users
    /\ NoToken \notin Tokens
    /\ Tokens \cap Requests = {}

VARIABLES
    account,      \* rows of users: "none", "live", or "deleted" (deleted_at)
    session,      \* rows of sessions: "unused" (no row), "open", "revoked"
    owner,        \* sessions.user_id
    held,         \* the refresh tokens that reached their client
    access,       \* remaining life of the access token a user holds
    req,          \* the progress of each request
    origin,       \* history: the first token of the login a token stems from
    since,        \* history: time since an account was deleted and nobody
                  \* was left who had looked it up before, to AccessTTL
    disturbed     \* history: logins (their first tokens) whose succession met
                  \* a failure, a logout or a second request for one token

rows == <<account, session, owner>>
history == <<origin, since, disturbed>>
vars == <<account, session, owner, held, access, req, origin, since, disturbed>>

Life == 0 .. AccessTTL
Idle == [step |-> "idle", token |-> NoToken, user |-> NoUser, life |-> 0]

\* Between which two statements a request is:
\* "password" GetUserByEmail and the signing of the token (CheckPassword)
\* "login"    the signing and CreateSession of Login
\* "refresh"  GetSessionByToken and RevokeSession of Refresh
\* "revoked"  RevokeSession and GetUserByID
\* "loaded"   GetUserByID and the signing of the token
\* "reissue"  the signing and CreateSession of Refresh
\* "logout"   GetSessionByToken and RevokeSession of Logout
Steps ==
    {"idle", "password", "login", "refresh", "revoked", "loaded", "reissue", "logout"}

TypeOK ==
    /\ account \in [Users -> {"none", "live", "deleted"}]
    /\ session \in [Tokens -> {"unused", "open", "revoked"}]
    /\ owner \in [Tokens -> Users \cup {NoUser}]
    /\ held \subseteq Tokens
    /\ access \in [Users -> Life]
    /\ req \in [Requests -> [step : Steps, token : Tokens \cup {NoToken},
                             user : Users \cup {NoUser}, life : Life]]
    /\ origin \in [Tokens -> Tokens \cup {NoToken}]
    /\ since \in [Users -> Life]
    /\ disturbed \subseteq Tokens

\* The seed migration creates the admin.
Init ==
    /\ account = [u \in Users |-> IF u \in Admins THEN "live" ELSE "none"]
    /\ session = [t \in Tokens |-> "unused"]
    /\ owner = [t \in Tokens |-> NoUser]
    /\ held = {}
    /\ access = [u \in Users |-> 0]
    /\ req = [r \in Requests |-> Idle]
    /\ origin = [t \in Tokens |-> NoToken]
    /\ since = [u \in Users |-> 0]
    /\ disturbed = {}

Longer(a, b) == IF a < b THEN b ELSE a
Less(n) == IF n = 0 THEN 0 ELSE n - 1

\* Requests that hold a token they read as open.
Holding(t) == {r \in Requests : req[r].token = t}

\* Whether a request has looked the account up and not yet signed its token.
Signing(u) ==
    \E r \in Requests : req[r].step \in {"password", "loaded"} /\ req[r].user = u

-----------------------------------------------------------------------------
(* Mutated forms of the definitions below.                                 *)

\* WHERE refresh_token_hash = $1, without revoked = FALSE.
GetSessionInAnyState(t) == t \in held

\* WHERE id = $1, without deleted_at IS NULL.
GetAnyUserByID(u) == account[u] # "none"

\* Refresh goes on without the UPDATE.
SkipRevoke(r) ==
    /\ req[r].step \in {"refresh", "logout"}
    /\ req' = [req EXCEPT ![r] = IF @.step = "refresh"
                                 THEN [@ EXCEPT !.step = "revoked"] ELSE Idle]
    /\ disturbed' = IF req[r].step = "logout"
                    THEN disturbed \cup {origin[req[r].token]} ELSE disturbed
    /\ UNCHANGED <<account, session, owner, held, access, origin, since>>

\* The new expiry is counted from the old one.
Prolonged(u, life) == access[u] + life

-----------------------------------------------------------------------------
(* The statements (internal/db/sqlc) and the access token.                 *)

\* The UNIQUE email outlives a deletion: nobody registers twice.
CreateUser(u) ==
    /\ account[u] = "none"
    /\ account' = [account EXCEPT ![u] = "live"]

GetUserByEmail(u) == account[u] = "live"

GetUserByID(u) == account[u] = "live"

CreateSession(t, u) ==
    /\ session[t] = "unused"
    /\ session' = [session EXCEPT ![t] = "open"]
    /\ owner' = [owner EXCEPT ![t] = u]

GetSessionByToken(t) == t \in held /\ session[t] = "open"

RevokeSession(t) == session' = [session EXCEPT ![t] = "revoked"]

\* A token signed now lives as long as the service says.
GenerateAccessToken == AccessTTL

\* What the client has after an answer with an access token.
Received(u, life) == Longer(access[u], life)

\* A bearer token passes while its exp lies ahead; no row is looked at.
AuthMiddleware(u) == access[u] > 0

-----------------------------------------------------------------------------
Register(u) ==
    /\ CreateUser(u)
    /\ UNCHANGED <<session, owner, held, access, req, history>>

\* Login up to CheckPassword.  The flags of the row are not looked at.
Login(r, u) ==
    /\ req[r] = Idle
    /\ GetUserByEmail(u)
    /\ req' = [req EXCEPT ![r] = [step |-> "password", token |-> NoToken,
                                  user |-> u, life |-> 0]]
    /\ UNCHANGED <<rows, held, access, history>>

\* Refresh and Logout up to RevokeSession.  Two requests may both read the
\* row as open.
Present(r, t, purpose) ==
    /\ req[r] = Idle
    /\ GetSessionByToken(t)
    /\ req' = [req EXCEPT ![r] = [step |-> purpose, token |-> t,
                                  user |-> owner[t], life |-> 0]]
    /\ disturbed' = IF Holding(t) # {} THEN disturbed \cup {origin[t]} ELSE disturbed
    /\ UNCHANGED <<rows, held, access, origin, since>>

Refresh(r, t) == Present(r, t, "refresh")
Logout(r, t) == Present(r, t, "logout")

\* RevokeSession; a logout is answered.
Revoke(r) ==
    /\ req[r].step \in {"refresh", "logout"}
    /\ RevokeSession(req[r].token)
    /\ req' = [req EXCEPT ![r] = IF @.step = "refresh"
                                 THEN [@ EXCEPT !.step = "revoked"] ELSE Idle]
    /\ disturbed' = IF req[r].step = "logout"
                    THEN disturbed \cup {origin[req[r].token]} ELSE disturbed
    /\ UNCHANGED <<account, owner, held, access, origin, since>>

LoadUser(r) ==
    /\ req[r].step = "revoked"
    /\ GetUserByID(req[r].user)
    /\ req' = [req EXCEPT ![r].step = "loaded"]
    /\ UNCHANGED <<rows, held, access, history>>

\* The access token, of a login whose password was right or of a refresh:
\* its life is counted from now, whatever became of the account meanwhile.
SignToken(r) ==
    /\ req[r].step \in {"password", "loaded"}
    /\ req' = [req EXCEPT ![r] =
          [step |-> IF @.step = "password" THEN "login" ELSE "reissue",
           token |-> @.token, user |-> @.user, life |-> GenerateAccessToken]]
    /\ UNCHANGED <<rows, held, access, history>>

\* CreateSession, of a login or a refresh.
StoreSession(r, t) ==
    /\ req[r].step \in {"login", "reissue"}
    /\ CreateSession(t, req[r].user)
    /\ origin' = [origin EXCEPT ![t] = IF req[r].step = "login" THEN t
                                       ELSE origin[req[r].token]]
    /\ req' = [req EXCEPT ![r] = Idle]
    /\ UNCHANGED <<account, since>>

\* The answer carries both tokens, or it is lost after the INSERT.
IssueTokens(r, t) ==
    /\ StoreSession(r, t)
    /\ held' = held \cup {t}
    /\ access' = [access EXCEPT ![req[r].user] = Received(req[r].user, req[r].life)]
    /\ UNCHANGED disturbed

LoseAnswer(r, t) ==
    /\ StoreSession(r, t)
    /\ disturbed' = disturbed \cup {origin'[t]}
    /\ UNCHANGED <<held, access>>

\* A statement fails or finds no row, the password is wrong, or the server
\* dies: nothing undoes the statements before.
FailRequest(r) ==
    /\ req[r] # Idle
    /\ req' = [req EXCEPT ![r] = Idle]
    /\ disturbed' = IF req[r].step \in {"revoked", "loaded", "reissue"}
                    THEN disturbed \cup {origin[req[r].token]} ELSE disturbed
    /\ UNCHANGED <<rows, held, access, origin, since>>

\* DELETE /admin/users/:id sets deleted_at and leaves the sessions alone.
AdminDeleteUser(u) ==
    /\ account[u] = "live"
    /\ account' = [account EXCEPT ![u] = "deleted"]
    /\ UNCHANGED <<session, owner, held, access, req, history>>

\* Time passes for every access token, also for those on their way.
Tick ==
    /\ access' = [u \in Users |-> Less(access[u])]
    /\ req' = [r \in Requests |-> [req[r] EXCEPT !.life = Less(@)]]
    /\ since' = [u \in Users |->
          IF account[u] = "deleted" /\ ~Signing(u) /\ since[u] < AccessTTL
          THEN since[u] + 1 ELSE since[u]]
    /\ UNCHANGED <<rows, held, origin, disturbed>>

ServiceStep(r) ==
    \/ \E u \in Users : Login(r, u)
    \/ Revoke(r) \/ LoadUser(r) \/ SignToken(r) \/ FailRequest(r)
    \/ \E t \in Tokens :
          Refresh(r, t) \/ Logout(r, t) \/ IssueTokens(r, t) \/ LoseAnswer(r, t)

Next ==
    \/ \E u \in Users : Register(u) \/ AdminDeleteUser(u)
    \/ \E r \in Requests : ServiceStep(r)
    \/ Tick

Spec == Init /\ [][Next]_vars

-----------------------------------------------------------------------------
(* Properties.                                                             *)

\* Access of a deleted account ends one token life after the last request
\* that looked the account up before the deletion has signed its token, or
\* after the deletion if that is later: of the requests under way only those
\* may prolong it, and no login or refresh that comes after, although the
\* sessions stay open.
DeletedUserLosesAccess ==
    \A u \in Users :
        account[u] = "deleted" /\ since[u] >= AccessTTL => ~AuthMiddleware(u)

\* What carries a login on: its open token, or the refresh between revoking
\* that token and storing the next one.
Carriers(f) ==
    {t \in Tokens : session[t] = "open" /\ origin[t] = f}
    \cup {r \in Requests : /\ req[r].step \in {"revoked", "loaded", "reissue"}
                           /\ origin[req[r].token] = f}

\* A login has exactly one carrier as long as no request for it fails or is
\* overtaken by another and its user does not log out: no refresh forks a
\* login, and none ends it.
OneCarrierPerLogin ==
    \A f \in Tokens : origin[f] = f /\ f \notin disturbed =>
        \E c \in Carriers(f) : Carriers(f) = {c}

\* An account is closed when it is deleted and no request is left that may
\* sign a token for it.
Standing ==
    [u \in Users |-> IF account[u] = "deleted" /\ ~Signing(u) THEN "closed" ELSE account[u]]

\* Accounts and access behave as AccessLease promises.
Lease == INSTANCE AccessLease WITH account <- Standing

LeaseSpec == Lease!Spec

\* Refresh tokens form chains that may fork only where requests overlap.
Chain == INSTANCE TokenChain WITH
    Claimants <- Requests,
    state <- session,
    claims <- [t \in Tokens |-> Holding(t)]

ChainSpec == Chain!Spec
=============================================================================
