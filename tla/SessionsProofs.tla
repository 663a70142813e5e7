--------------------------- MODULE SessionsProofs ---------------------------
(***************************************************************************)
(* Sessions for any users, tokens, number of requests and life of a token. *)
(***************************************************************************)
EXTENDS Sessions, TLAPS

\* The rows of sessions: those that exist have an owner and stem from a login.
RowsFit ==
    /\ \A t \in Tokens : session[t] = "unused" <=> origin[t] = NoToken
    /\ \A t \in Tokens : session[t] # "unused" =>
          owner[t] \in Users /\ origin[t] \in Tokens /\ origin[origin[t]] = origin[t]
    /\ \A t \in held : session[t] # "unused"

\* The locals of a request: what it read and what it has done so far.
RequestFits(r) ==
    /\ req[r].step = "idle" => req[r] = Idle
    /\ req[r].step # "idle" => req[r].user \in Users
    /\ req[r].step \in {"password", "loaded"} => account[req[r].user] # "none"
    /\ req[r].step \in {"password", "login"} => req[r].token = NoToken
    /\ req[r].step \in {"refresh", "revoked", "loaded", "reissue", "logout"} =>
          req[r].token \in Tokens /\ session[req[r].token] # "unused"
    /\ req[r].step \in {"revoked", "loaded", "reissue"} => session[req[r].token] = "revoked"

\* An access token on its way was signed before its user's account was closed.
LifeFits(r) ==
    req[r].life > 0 =>
        /\ req[r].step # "idle"
        /\ account[req[r].user] # "none"
        /\ req[r].life + since[req[r].user] <= AccessTTL

\* No time is counted while an account lives or somebody may sign a token
\* for it.
SinceFits == \A u \in Users : since[u] > 0 => account[u] = "deleted" /\ ~Signing(u)

IInv ==
    /\ TypeOK
    /\ RowsFit
    /\ \A r \in Requests : RequestFits(r) /\ LifeFits(r)
    /\ SinceFits

LEMMA InitIInv ==
    Init => IInv
<1> SUFFICES ASSUME Init PROVE IInv
  OBVIOUS
<1>1. Idle \in [step : Steps, token : Tokens \cup {NoToken},
                user : Users \cup {NoUser}, life : Life]
  BY SessionsAssumption DEF Idle, Steps, Life
<1>2. TypeOK
  BY <1>1, SessionsAssumption DEF Init, TypeOK, Life
<1>3. RowsFit
  BY SessionsAssumption DEF Init, RowsFit
<1>4. ASSUME NEW r \in Requests
      PROVE  RequestFits(r) /\ LifeFits(r)
  <2>1. req[r] = Idle
    BY DEF Init
  <2>2. req[r].step = "idle" /\ req[r].life = 0
    BY <2>1 DEF Idle
  <2> QED
    BY <2>1, <2>2 DEF RequestFits, LifeFits
<1>5. SinceFits
  BY DEF Init, SinceFits
<1> QED
  BY <1>2, <1>3, <1>4, <1>5 DEF IInv

\* A request that leaves accounts and time alone keeps the time counted, when
\* it is not about to sign a token, or knows its user to be there.
LEMMA SinceKept ==
    ASSUME SinceFits, NEW r \in Requests, UNCHANGED <<account, since>>,
           \A q \in Requests \ {r} : req'[q] = req[q],
           \/ req'[r].step \notin {"password", "loaded"}
           \/ account[req'[r].user] = "live"
           \/ /\ req'[r].user = req[r].user
              /\ req[r].step \in {"password", "loaded"}
    PROVE  SinceFits'
<1> SUFFICES ASSUME NEW u \in Users, since[u] > 0
             PROVE  account[u] = "deleted" /\ ~Signing(u)'
  BY DEF SinceFits
<1>1. account[u] = "deleted" /\ ~Signing(u)
  BY DEF SinceFits
<1>2. ASSUME NEW q \in Requests
      PROVE  ~(req'[q].step \in {"password", "loaded"} /\ req'[q].user = u)
  BY <1>1 DEF Signing
<1> QED
  BY <1>1, <1>2 DEF Signing

LEMMA LoginIInv ==
    ASSUME IInv, NEW r \in Requests, NEW u \in Users, Login(r, u)
    PROVE  IInv'
<1> USE SessionsAssumption
<1>1. TypeOK' /\ RowsFit' /\ \A q \in Requests : (RequestFits(q) /\ LifeFits(q))'
  BY DEF Login, GetUserByEmail, IInv, TypeOK, RowsFit,
         RequestFits, LifeFits, Idle, Steps, Life, rows, history
<1>2. /\ UNCHANGED <<account, since>> /\ account[req'[r].user] = "live"
      /\ \A q \in Requests \ {r} : req'[q] = req[q]
  BY DEF Login, GetUserByEmail, IInv, TypeOK, rows, history
<1> QED
  BY <1>1, <1>2, SinceKept DEF IInv

LEMMA PresentIInv ==
    ASSUME IInv, NEW r \in Requests, NEW t \in Tokens, NEW purpose \in {"refresh", "logout"},
           Present(r, t, purpose)
    PROVE  IInv'
<1> USE SessionsAssumption
<1>1. TypeOK' /\ RowsFit' /\ \A q \in Requests : (RequestFits(q) /\ LifeFits(q))'
  BY DEF Present, GetSessionByToken, IInv, TypeOK, RowsFit,
         RequestFits, LifeFits, Idle, Steps, Life, rows, Holding
<1>2. /\ UNCHANGED <<account, since>> /\ req'[r].step \notin {"password", "loaded"}
      /\ \A q \in Requests \ {r} : req'[q] = req[q]
  BY DEF Present, IInv, TypeOK, rows
<1> QED
  BY <1>1, <1>2, SinceKept DEF IInv

LEMMA RevokeIInv ==
    ASSUME IInv, NEW r \in Requests, Revoke(r)
    PROVE  IInv'
<1> USE SessionsAssumption
<1>1. TypeOK' /\ RowsFit' /\ \A q \in Requests : (RequestFits(q) /\ LifeFits(q))'
  BY DEF Revoke, RevokeSession, IInv, TypeOK, RowsFit,
         RequestFits, LifeFits, Idle, Steps, Life
<1>2. /\ UNCHANGED <<account, since>> /\ req'[r].step \notin {"password", "loaded"}
      /\ \A q \in Requests \ {r} : req'[q] = req[q]
  BY DEF Revoke, Idle, IInv, TypeOK
<1> QED
  BY <1>1, <1>2, SinceKept DEF IInv

LEMMA LoadUserIInv ==
    ASSUME IInv, NEW r \in Requests, LoadUser(r)
    PROVE  IInv'
<1> USE SessionsAssumption
<1>1. TypeOK' /\ RowsFit' /\ \A q \in Requests : (RequestFits(q) /\ LifeFits(q))'
  BY DEF LoadUser, GetUserByID, IInv, TypeOK, RowsFit,
         RequestFits, LifeFits, Steps, Life, rows, history
<1>2. /\ UNCHANGED <<account, since>> /\ account[req'[r].user] = "live"
      /\ \A q \in Requests \ {r} : req'[q] = req[q]
  BY DEF LoadUser, GetUserByID, IInv, TypeOK, rows, history
<1> QED
  BY <1>1, <1>2, SinceKept DEF IInv

\* A token may be signed with a full life, since no time is counted before.
LEMMA SignIInv ==
    ASSUME IInv, NEW r \in Requests, SignToken(r)
    PROVE  IInv'
<1> USE SessionsAssumption
<1>1. /\ req[r].step \in {"password", "loaded"}
      /\ req[r].user \in Users
      /\ account[req[r].user] # "none"
      /\ UNCHANGED <<account, session, owner, held, access, origin, since, disturbed>>
  BY DEF SignToken, IInv, RequestFits, rows, history
<1>2. since[req[r].user] = 0
  <2>1. Signing(req[r].user)
    BY <1>1 DEF Signing
  <2> QED
    BY <1>1, <2>1 DEF IInv, SinceFits, TypeOK, Life
<1>3. /\ req'[r].step = IF req[r].step = "password" THEN "login" ELSE "reissue"
      /\ req'[r].life = AccessTTL
      /\ req'[r].user = req[r].user /\ req'[r].token = req[r].token
      /\ \A q \in Requests \ {r} : req'[q] = req[q]
  BY DEF SignToken, GenerateAccessToken, IInv, TypeOK
<1>4. TypeOK'
  <2>1. AccessTTL \in Life /\ {"login", "reissue"} \subseteq Steps
    BY DEF Steps, Life
  <2>2. req' \in [Requests -> [step : Steps, token : Tokens \cup {NoToken},
                               user : Users \cup {NoUser}, life : Life]]
    BY <2>1 DEF SignToken, GenerateAccessToken, IInv, TypeOK
  <2> QED
    BY <1>1, <2>2 DEF IInv, TypeOK
<1>5. RowsFit'
  BY <1>1 DEF IInv, RowsFit
<1>6. ASSUME NEW q \in Requests \ {r}
      PROVE  (RequestFits(q) /\ LifeFits(q))'
  BY <1>1, <1>3 DEF IInv, RequestFits, LifeFits
<1>7. RequestFits(r)'
  BY <1>1, <1>3 DEF IInv, RequestFits
<1>8. LifeFits(r)'
  BY <1>1, <1>2, <1>3 DEF LifeFits
<1>9. SinceFits'
  BY <1>1, <1>3, SinceKept DEF IInv
<1> QED
  BY <1>4, <1>5, <1>6, <1>7, <1>8, <1>9 DEF IInv

LEMMA FailIInv ==
    ASSUME IInv, NEW r \in Requests, FailRequest(r)
    PROVE  IInv'
<1> USE SessionsAssumption
<1>1. TypeOK' /\ RowsFit' /\ \A q \in Requests : (RequestFits(q) /\ LifeFits(q))'
  BY DEF FailRequest, IInv, TypeOK, RowsFit,
         RequestFits, LifeFits, Idle, Steps, Life, rows
<1>2. /\ UNCHANGED <<account, since>> /\ req'[r].step \notin {"password", "loaded"}
      /\ \A q \in Requests \ {r} : req'[q] = req[q]
  BY DEF FailRequest, Idle, IInv, TypeOK, rows
<1> QED
  BY <1>1, <1>2, SinceKept DEF IInv

LEMMA StoreIInv ==
    ASSUME IInv, NEW r \in Requests, NEW t \in Tokens, IssueTokens(r, t) \/ LoseAnswer(r, t)
    PROVE  IInv'
<1> USE SessionsAssumption
<1>1. /\ req[r].step \in {"login", "reissue"}
      /\ req[r].user \in Users
      /\ session[t] = "unused"
  BY DEF IssueTokens, LoseAnswer, StoreSession, CreateSession, IInv, RequestFits
<1>2. /\ session' = [session EXCEPT ![t] = "open"]
      /\ owner' = [owner EXCEPT ![t] = req[r].user]
      /\ origin' = [origin EXCEPT ![t] = IF req[r].step = "login" THEN t
                                         ELSE origin[req[r].token]]
      /\ req' = [req EXCEPT ![r] = Idle]
      /\ UNCHANGED <<account, since>>
      /\ held' \in {held, held \cup {t}}
  BY DEF IssueTokens, LoseAnswer, StoreSession, CreateSession
<1>3. req[r].step = "reissue" =>
         /\ req[r].token \in Tokens /\ req[r].token # t
         /\ origin[req[r].token] \in Tokens
         /\ origin[req[r].token] # t
         /\ origin[origin[req[r].token]] = origin[req[r].token]
  BY <1>1 DEF IInv, RequestFits, RowsFit
<1>4. TypeOK'
  <2>1. access' \in [Users -> Life] /\ disturbed' \subseteq Tokens
    BY <1>1, <1>2, <1>3 DEF IssueTokens, LoseAnswer, Received, Longer, IInv, TypeOK, Life
  <2>2. Idle \in [step : Steps, token : Tokens \cup {NoToken},
                  user : Users \cup {NoUser}, life : Life]
    BY DEF Idle, Steps, Life
  <2> QED
    BY <1>1, <1>2, <1>3, <2>1, <2>2 DEF IInv, TypeOK
<1>5. RowsFit'
  BY <1>1, <1>2, <1>3 DEF IInv, TypeOK, RowsFit
<1>6. ASSUME NEW q \in Requests \ {r}
      PROVE  RequestFits(q)' /\ LifeFits(q)'
  <2>1. req'[q] = req[q]
    BY <1>2 DEF IInv, TypeOK
  <2>2. \A s \in Tokens : /\ session[s] # "unused" => session'[s] # "unused"
                          /\ session[s] = "revoked" => session'[s] = "revoked"
    BY <1>1, <1>2 DEF IInv, TypeOK
  <2> QED
    BY <1>2, <2>1, <2>2 DEF IInv, RequestFits, LifeFits
<1>7. RequestFits(r)' /\ LifeFits(r)'
  <2>1. req'[r] = Idle /\ req'[r].step = "idle" /\ req'[r].life = 0
    BY <1>2 DEF IInv, TypeOK, Idle
  <2> QED
    BY <2>1 DEF RequestFits, LifeFits
<1>8. SinceFits'
  <2>1. /\ \A q \in Requests \ {r} : req'[q] = req[q]
        /\ req'[r].step \notin {"password", "loaded"}
    BY <1>2 DEF IInv, TypeOK, Idle
  <2> QED
    BY <1>2, <2>1, SinceKept DEF IInv
<1> QED
  BY <1>4, <1>5, <1>6, <1>7, <1>8 DEF IInv

LEMMA AccountIInv ==
    ASSUME IInv, NEW u \in Users, Register(u) \/ AdminDeleteUser(u)
    PROVE  IInv'
BY SessionsAssumption DEF Register, CreateUser, AdminDeleteUser, Signing, SinceFits,
       IInv, TypeOK, RowsFit, RequestFits, LifeFits, Idle, Steps, Life, history

\* Time takes at most what is left.
LEMMA LessFits ==
    ASSUME NEW n \in Life
    PROVE  Less(n) \in Life /\ (n = 0 => Less(n) = 0) /\ (n > 0 => Less(n) = n - 1)
BY SessionsAssumption DEF Life, Less

LEMMA TickIInv ==
    ASSUME IInv, Tick
    PROVE  IInv'
<1> USE SessionsAssumption
<1>1. /\ UNCHANGED <<account, session, owner, held, origin, disturbed>>
      /\ access' = [u \in Users |-> Less(access[u])]
      /\ \A q \in Requests : req'[q] = [req[q] EXCEPT !.life = Less(@)]
  BY DEF Tick, rows
<1>2. ASSUME NEW q \in Requests
      PROVE  /\ req'[q].step = req[q].step /\ req'[q].token = req[q].token
             /\ req'[q].user = req[q].user /\ req'[q].life = Less(req[q].life)
             /\ req'[q].life \in Life
             /\ req'[q] \in [step : Steps, token : Tokens \cup {NoToken},
                              user : Users \cup {NoUser}, life : Life]
             /\ req[q] = Idle => req'[q] = Idle
  <2>1. req[q] \in [step : Steps, token : Tokens \cup {NoToken},
                    user : Users \cup {NoUser}, life : Life]
    BY DEF IInv, TypeOK
  <2>2. Less(req[q].life) \in Life
    BY <2>1, LessFits
  <2>3. /\ req'[q].step = req[q].step /\ req'[q].token = req[q].token
        /\ req'[q].user = req[q].user /\ req'[q].life = Less(req[q].life)
        /\ req'[q] \in [step : Steps, token : Tokens \cup {NoToken},
                         user : Users \cup {NoUser}, life : Life]
    BY <1>1, <2>1, <2>2
  <2>4. req[q] = Idle => req'[q] = Idle
    <3> SUFFICES ASSUME req[q] = Idle PROVE req'[q] = Idle
      OBVIOUS
    <3>1. Less(0) = 0
      BY DEF Less
    <3> QED
      BY <1>1, <3>1 DEF Idle
  <2> QED
    BY <2>2, <2>3, <2>4
<1>3. \A u \in Users : Signing(u)' <=> Signing(u)
  BY <1>2 DEF Signing
<1>4. ASSUME NEW u \in Users
      PROVE  /\ since'[u] \in Life
             /\ since'[u] > since[u] => since'[u] = since[u] + 1
             /\ since'[u] > 0 => account[u] = "deleted" /\ ~Signing(u)
             /\ since'[u] \in {since[u], since[u] + 1}
  BY DEF Tick, IInv, TypeOK, Life, SinceFits
<1>5. TypeOK'
  <2>1. access' \in [Users -> Life]
    <3>1. \A u \in Users : Less(access[u]) \in Life
      BY LessFits DEF IInv, TypeOK
    <3> QED
      BY <1>1, <3>1
  <2>2. since' \in [Users -> Life]
    BY <1>4 DEF Tick
  <2>3. req' \in [Requests -> [step : Steps, token : Tokens \cup {NoToken},
                               user : Users \cup {NoUser}, life : Life]]
    BY <1>2 DEF Tick
  <2> QED
    BY <1>1, <2>1, <2>2, <2>3 DEF IInv, TypeOK
<1>6. RowsFit'
  BY <1>1 DEF IInv, RowsFit
<1>7. ASSUME NEW q \in Requests
      PROVE  (RequestFits(q) /\ LifeFits(q))'
  <2>1. RequestFits(q)'
    BY <1>1, <1>2 DEF IInv, RequestFits, Idle
  <2>2. LifeFits(q)'
    <3> SUFFICES ASSUME req'[q].life > 0
                 PROVE  /\ req[q].step # "idle"
                        /\ account[req[q].user] # "none"
                        /\ req'[q].life + since'[req[q].user] <= AccessTTL
      BY <1>1, <1>2 DEF LifeFits
    <3>1. req[q].life \in Life /\ req[q].life > 0 /\ req'[q].life = req[q].life - 1
      <4>1. req[q].life \in Life
        BY DEF IInv, TypeOK
      <4>2. req[q].life # 0
        BY <1>2, <4>1, LessFits DEF Life
      <4> QED
        BY <1>2, <4>1, <4>2, LessFits DEF Life
    <3>2. /\ req[q].step # "idle" /\ req[q].user \in Users
          /\ account[req[q].user] # "none"
          /\ req[q].life + since[req[q].user] <= AccessTTL
      BY <3>1 DEF IInv, LifeFits, RequestFits
    <3>3. since'[req[q].user] <= since[req[q].user] + 1 /\ since[req[q].user] \in Life
          /\ since'[req[q].user] \in Life
      BY <1>4, <3>2 DEF IInv, TypeOK, Life
    <3> QED
      BY <3>1, <3>2, <3>3 DEF Life
  <2> QED
    BY <2>1, <2>2
<1>8. SinceFits'
  BY <1>1, <1>3, <1>4 DEF SinceFits
<1> QED
  BY <1>5, <1>6, <1>7, <1>8 DEF IInv

LEMMA NextIInv ==
    ASSUME IInv, [Next]_vars
    PROVE  IInv'
<1>1. ASSUME NEW r \in Requests, ServiceStep(r)
      PROVE  IInv'
  BY <1>1, LoginIInv, PresentIInv, RevokeIInv, LoadUserIInv, SignIInv, FailIInv, StoreIInv
     DEF ServiceStep, Refresh, Logout
<1>2. CASE UNCHANGED vars
  BY <1>2 DEF vars, IInv, TypeOK, RowsFit, RequestFits, LifeFits, SinceFits, Signing
<1> QED
  BY <1>1, <1>2, AccountIInv, TickIInv DEF Next

LEMMA Invariant == Spec => []IInv
BY InitIInv, NextIInv, PTL DEF Spec

\* Type correctness of the service.
THEOREM SessionsTypeCorrect == Spec => []TypeOK
<1>1. IInv => TypeOK
  BY DEF IInv
<1> QED
  BY <1>1, Invariant, PTL

-----------------------------------------------------------------------------
(* AccessLease.                                                            *)

\* What a change of one request does to the accounts: when it was the last to
\* sign a token for a deleted account, that account is closed.
LEMMA SigningMoves ==
    ASSUME IInv, NEW r \in Requests, UNCHANGED <<account, access, since>>,
           \A q \in Requests \ {r} : req'[q] = req[q],
           req'[r].step \in {"password", "loaded"} => account[req'[r].user] = "live"
    PROVE  [Lease!Next]_(Lease!vars)
<1> USE SessionsAssumption
<1>1. ASSUME NEW u \in Users
      PROVE  Signing(u)' => Signing(u) \/ account[u] = "live"
  BY DEF Signing
<1>2. ASSUME NEW u \in Users, Signing(u), ~Signing(u)'
      PROVE  u = req[r].user
  BY <1>2 DEF Signing
<1>3. \A u \in Users : Standing[u] # Standing'[u] =>
          account[u] = "deleted" /\ u = req[r].user /\ Standing[u] = "deleted" /\ Standing'[u] = "closed"
  BY <1>1, <1>2 DEF Standing
<1>4. CASE \E u \in Users : Standing[u] # Standing'[u]
  <2>1. PICK u \in Users : Standing[u] # Standing'[u]
    BY <1>4
  <2>2. Standing[u] = "deleted" /\ Standing' = [Standing EXCEPT ![u] = "closed"]
    BY <1>3, <2>1 DEF Standing
  <2>3. Lease!Close(u)
    BY <2>2 DEF Lease!Close
  <2> QED
    BY <2>3 DEF Lease!Next
<1>5. CASE \A u \in Users : Standing[u] = Standing'[u]
  BY <1>5 DEF Standing, Lease!vars
<1> QED
  BY <1>4, <1>5

\* A login or refresh grants what is left of a token signed before its user's
\* account was closed.
LEMMA IssueGrants ==
    ASSUME IInv, NEW r \in Requests, NEW t \in Tokens, IssueTokens(r, t)
    PROVE  [Lease!Next]_(Lease!vars)
<1> USE SessionsAssumption
<1>1. /\ req[r].user \in Users
      /\ req[r].life \in Life
      /\ access' = [access EXCEPT ![req[r].user] = Longer(@, req[r].life)]
      /\ UNCHANGED <<account, since>>
      /\ req[r].step \in {"login", "reissue"} /\ req'[r].step = "idle"
      /\ \A q \in Requests \ {r} : req'[q] = req[q]
  BY DEF IssueTokens, StoreSession, Received, IInv, TypeOK, RequestFits, Idle
<1>2. Standing' = Standing
  <2>1. ASSUME NEW u \in Users
        PROVE  Signing(u)' <=> Signing(u)
    BY <1>1 DEF Signing
  <2> QED
    BY <1>1, <2>1 DEF Standing
<1>3. CASE req[r].life = 0
  <2>1. access' = access
    BY <1>1, <1>3 DEF IInv, TypeOK, Life, Longer
  <2> QED
    BY <1>1, <1>2, <2>1 DEF Lease!vars
<1>4. CASE req[r].life > 0
  <2>1. /\ account[req[r].user] # "none"
        /\ req[r].life \in 1 .. (AccessTTL - since[req[r].user])
    BY <1>1, <1>4 DEF IInv, TypeOK, LifeFits, Life
  <2>2. Lease!Grant(req[r].user)
    BY <1>1, <1>2, <2>1 DEF Lease!Grant, Lease!Longer, Longer, Standing
  <2> QED
    BY <1>1, <2>2 DEF Lease!Next
<1> QED
  BY <1>1, <1>3, <1>4 DEF Life

LEMMA LeaseRefinesStep ==
    ASSUME IInv, [Next]_vars
    PROVE  [Lease!Next]_(Lease!vars)
<1>1. ASSUME NEW u \in Users, Register(u)
      PROVE  Lease!Register(u)
  <2>1. \A w \in Users : Signing(w)' <=> Signing(w)
    BY <1>1 DEF Register, Signing
  <2>2. Standing[u] = "none" /\ Standing' = [Standing EXCEPT ![u] = "live"]
    BY <1>1, <2>1 DEF Register, CreateUser, Standing, IInv, TypeOK
  <2> QED
    BY <1>1, <2>2 DEF Register, history, Lease!Register
<1>2. ASSUME NEW u \in Users, AdminDeleteUser(u)
      PROVE  Lease!DeleteUser(u)
  <2>1. \A w \in Users : Signing(w)' <=> Signing(w)
    BY <1>2 DEF AdminDeleteUser, Signing
  <2>2. /\ Standing[u] = "live"
        /\ \E after \in {"deleted", "closed"} : Standing' = [Standing EXCEPT ![u] = after]
    BY <1>2, <2>1 DEF AdminDeleteUser, Standing, IInv, TypeOK
  <2> QED
    BY <1>2, <2>2 DEF AdminDeleteUser, history, Lease!DeleteUser
<1>3. CASE Tick
  <2>1. \A q \in Requests : req'[q].step = req[q].step /\ req'[q].user = req[q].user
    BY <1>3 DEF Tick, IInv, TypeOK
  <2>2. \A u \in Users : Signing(u)' <=> Signing(u)
    BY <2>1 DEF Signing
  <2>3. Standing' = Standing
    BY <1>3, <2>2 DEF Tick, rows, Standing
  <2>4. \A u \in Users : Standing[u] = "closed" <=> account[u] = "deleted" /\ ~Signing(u)
    BY DEF Standing, IInv, TypeOK
  <2>5. Lease!Tick
    BY <1>3, <2>3, <2>4 DEF Tick, Less, Lease!Tick, Lease!Less
  <2> QED
    BY <2>5 DEF Lease!Next
<1>4. ASSUME NEW r \in Requests, ServiceStep(r)
      PROVE  [Lease!Next]_(Lease!vars)
  <2>1. ASSUME NEW t \in Tokens, NEW purpose \in {"refresh", "logout"}, Present(r, t, purpose)
        PROVE  [Lease!Next]_(Lease!vars)
    <3>1. /\ UNCHANGED <<account, access, since>> /\ req'[r].step \notin {"password", "loaded"}
          /\ \A q \in Requests \ {r} : req'[q] = req[q]
      BY <2>1 DEF Present, rows, IInv, TypeOK
    <3> QED
      BY <3>1, SigningMoves
  <2>2. ASSUME NEW u \in Users, Login(r, u)
        PROVE  [Lease!Next]_(Lease!vars)
    <3>1. /\ UNCHANGED <<account, access, since>> /\ account[req'[r].user] = "live"
          /\ \A q \in Requests \ {r} : req'[q] = req[q]
      BY <2>2 DEF Login, GetUserByEmail, rows, history, IInv, TypeOK
    <3> QED
      BY <3>1, SigningMoves
  <2>3. ASSUME LoadUser(r)
        PROVE  [Lease!Next]_(Lease!vars)
    <3>1. /\ UNCHANGED <<account, access, since>> /\ account[req'[r].user] = "live"
          /\ \A q \in Requests \ {r} : req'[q] = req[q]
      BY <2>3 DEF LoadUser, GetUserByID, rows, history, IInv, TypeOK
    <3> QED
      BY <3>1, SigningMoves
  <2>4. ASSUME \/ Revoke(r) \/ SignToken(r) \/ FailRequest(r)
               \/ \E t \in Tokens : LoseAnswer(r, t)
        PROVE  [Lease!Next]_(Lease!vars)
    <3>1. /\ UNCHANGED <<account, access, since>> /\ req'[r].step \notin {"password", "loaded"}
          /\ \A q \in Requests \ {r} : req'[q] = req[q]
      BY <2>4 DEF Revoke, SignToken, FailRequest, LoseAnswer, StoreSession, Idle,
             rows, history, IInv, TypeOK
    <3> QED
      BY <3>1, SigningMoves
  <2> QED
    BY <1>4, <2>1, <2>2, <2>3, <2>4, IssueGrants DEF ServiceStep, Refresh, Logout
<1>5. CASE UNCHANGED vars
  BY <1>5 DEF vars, Lease!vars, Signing, Standing
<1> QED
  BY <1>1, <1>2, <1>3, <1>4, <1>5 DEF Next, Lease!Next

\* The service implements AccessLease.
THEOREM LeaseImplemented == Spec => LeaseSpec
<1>1. Init => Lease!Init
  <2> SUFFICES ASSUME Init PROVE Lease!Init
    OBVIOUS
  <2>1. Standing = [u \in Users |-> IF u \in Admins THEN "live" ELSE "none"]
    BY DEF Init, Standing
  <2> QED
    BY <2>1 DEF Init, Lease!Init
<1> QED
  BY <1>1, Invariant, LeaseRefinesStep, PTL DEF Spec, LeaseSpec, Lease!Spec

\* What is left of a user's access and the time since the deletion add up to
\* no more than the life of a token.
WithinLease == \A u \in Users : access[u] + since[u] <= AccessTTL

LEMMA LeaseStepKept ==
    ASSUME TypeOK, WithinLease, [Lease!Next]_(Lease!vars)
    PROVE  WithinLease'
<1> USE SessionsAssumption DEF TypeOK, Life, WithinLease
<1>1. ASSUME NEW u \in Users, Lease!Register(u) \/ Lease!DeleteUser(u) \/ Lease!Close(u)
      PROVE  WithinLease'
  BY <1>1 DEF Lease!Register, Lease!DeleteUser, Lease!Close
<1>2. ASSUME NEW u \in Users, Lease!Grant(u)
      PROVE  WithinLease'
  <2>1. PICK life \in 1 .. (AccessTTL - since[u]) :
            access' = [access EXCEPT ![u] = Lease!Longer(@, life)]
    BY <1>2 DEF Lease!Grant
  <2>2. Lease!Longer(access[u], life) + since[u] <= AccessTTL
    BY <2>1 DEF Lease!Longer
  <2> QED
    BY <1>2, <2>1, <2>2 DEF Lease!Grant
<1>3. CASE Lease!Tick
  <2> SUFFICES ASSUME NEW u \in Users
               PROVE  access'[u] + since'[u] <= AccessTTL
    OBVIOUS
  <2>1. access'[u] = IF access[u] = 0 THEN 0 ELSE access[u] - 1
    BY <1>3 DEF Lease!Tick, Lease!Less
  <2>2. since'[u] \in {since[u], IF since[u] < AccessTTL THEN since[u] + 1 ELSE since[u]}
    BY <1>3 DEF Lease!Tick
  <2>3. access[u] \in 0 .. AccessTTL /\ since[u] \in 0 .. AccessTTL /\ access[u] + since[u] <= AccessTTL
    OBVIOUS
  <2> QED
    BY <2>1, <2>2, <2>3
<1>4. CASE UNCHANGED Lease!vars
  BY <1>4 DEF Lease!vars
<1> QED
  BY <1>1, <1>2, <1>3, <1>4 DEF Lease!Next

\* Access of a deleted account ends one token life after the last request
\* that had looked it up before the deletion signed its token; no other
\* request prolongs it.
THEOREM DeletedUserCorrect == Spec => []DeletedUserLosesAccess
<1>0. AccessTTL \in Nat
  BY SessionsAssumption
<1>1. Lease!Init => WithinLease
  <2> SUFFICES ASSUME Lease!Init, NEW u \in Users
               PROVE  access[u] + since[u] <= AccessTTL
    BY DEF WithinLease
  <2>1. access[u] = 0 /\ since[u] = 0
    BY DEF Lease!Init
  <2> QED
    BY <1>0, <2>1
<1>2. LeaseSpec /\ []TypeOK => []WithinLease
  BY <1>1, LeaseStepKept, PTL DEF LeaseSpec, Lease!Spec
<1>3. TypeOK /\ WithinLease => DeletedUserLosesAccess
  BY <1>0 DEF TypeOK, Life, WithinLease, DeletedUserLosesAccess, AuthMiddleware
<1> QED
  BY <1>2, <1>3, SessionsTypeCorrect, LeaseImplemented, PTL

-----------------------------------------------------------------------------
(* TokenChain.                                                             *)

claims == [t \in Tokens |-> Holding(t)]

\* What a change of one request's token does to the claims.
LEMMA ClaimMoves ==
    ASSUME TypeOK, NEW r \in Requests, \A q \in Requests \ {r} : req'[q].token = req[q].token
    PROVE  /\ req'[r].token = req[r].token => claims' = claims
           /\ \A t \in Tokens : req[r].token = t /\ req'[r].token = NoToken
                 => claims' = [claims EXCEPT ![t] = @ \ {r}]
           /\ \A t \in Tokens : req[r].token = NoToken /\ req'[r].token = t
                 => claims' = [claims EXCEPT ![t] = @ \cup {r}]
<1> USE SessionsAssumption DEF claims, Holding
<1>1. \A t \in Tokens, q \in Requests \ {r} : q \in claims'[t] <=> q \in claims[t]
  OBVIOUS
<1>2. \A t \in Tokens : (r \in claims[t] <=> req[r].token = t)
                        /\ (r \in claims'[t] <=> req'[r].token = t)
  OBVIOUS
<1>3. \A t \in Tokens : claims[t] \subseteq Requests /\ claims'[t] \subseteq Requests
  OBVIOUS
<1>4. ASSUME req'[r].token = req[r].token
      PROVE  claims' = claims
  BY <1>4
<1>5. ASSUME NEW t \in Tokens, req[r].token = t, req'[r].token = NoToken
      PROVE  claims' = [claims EXCEPT ![t] = @ \ {r}]
  <2>1. \A s \in Tokens \ {t} : claims'[s] = claims[s]
    BY <1>1, <1>2, <1>3, <1>5
  <2>2. claims'[t] = claims[t] \ {r}
    BY <1>1, <1>2, <1>3, <1>5
  <2> QED
    BY <2>1, <2>2
<1>6. ASSUME NEW t \in Tokens, req[r].token = NoToken, req'[r].token = t
      PROVE  claims' = [claims EXCEPT ![t] = @ \cup {r}]
  <2>1. \A s \in Tokens \ {t} : claims'[s] = claims[s]
    BY <1>1, <1>2, <1>3, <1>6
  <2>2. claims'[t] = claims[t] \cup {r}
    BY <1>1, <1>2, <1>3, <1>6
  <2> QED
    BY <2>1, <2>2
<1> QED
  BY <1>4, <1>5, <1>6

LEMMA ChainRefinesStep ==
    ASSUME IInv, [Next]_vars
    PROVE  [Chain!Next]_(Chain!vars)
<1> USE SessionsAssumption
<1>0. TypeOK
  BY DEF IInv
<1>1. ASSUME claims' = claims, session' = session
      PROVE  UNCHANGED Chain!vars
  BY <1>1 DEF claims, Chain!vars
<1>2. ASSUME NEW r \in Requests, NEW t \in Tokens, NEW purpose \in {"refresh", "logout"},
             Present(r, t, purpose)
      PROVE  Chain!Claim(t, r)
  <2>1. /\ session[t] = "open" /\ session' = session
        /\ req[r].token = NoToken /\ req'[r].token = t
        /\ \A q \in Requests \ {r} : req'[q] = req[q]
    BY <1>0, <1>2 DEF Present, GetSessionByToken, rows, TypeOK, Idle
  <2>2. claims' = [claims EXCEPT ![t] = @ \cup {r}]
    BY <1>0, <2>1, ClaimMoves
  <2> QED
    BY <2>1, <2>2 DEF claims, Chain!Claim
<1>3. ASSUME NEW r \in Requests, Revoke(r)
      PROVE  \E t \in Tokens : Chain!Revoke(t, r)
  <2> DEFINE t == req[r].token
  <2>1. /\ t \in Tokens /\ session[t] # "unused"
        /\ session' = [session EXCEPT ![t] = "revoked"]
        /\ \A q \in Requests \ {r} : req'[q] = req[q]
        /\ req'[r].token \in {t, NoToken}
    BY <1>0, <1>3 DEF Revoke, RevokeSession, IInv, RequestFits, TypeOK, Idle
  <2>2. r \in Holding(t)
    BY DEF Holding
  <2>3. claims' \in {claims, [claims EXCEPT ![t] = @ \ {r}]}
    BY <1>0, <2>1, ClaimMoves
  <2> QED
    BY <2>1, <2>2, <2>3 DEF claims, Chain!Revoke
<1>4. ASSUME NEW r \in Requests, NEW u \in Users, Login(r, u)
      PROVE  UNCHANGED Chain!vars
  <2>1. /\ session' = session
        /\ req'[r].token = req[r].token
        /\ \A q \in Requests \ {r} : req'[q] = req[q]
    BY <1>0, <1>4 DEF Login, rows, TypeOK, Idle
  <2> QED
    BY <1>0, <1>1, <2>1, ClaimMoves
<1>5. ASSUME NEW r \in Requests, LoadUser(r) \/ SignToken(r)
      PROVE  UNCHANGED Chain!vars
  <2>1. /\ session' = session
        /\ req'[r].token = req[r].token
        /\ \A q \in Requests \ {r} : req'[q] = req[q]
    BY <1>0, <1>5 DEF LoadUser, SignToken, rows, TypeOK
  <2> QED
    BY <1>0, <1>1, <2>1, ClaimMoves
<1>6. ASSUME NEW r \in Requests, FailRequest(r)
      PROVE  \/ UNCHANGED Chain!vars
             \/ \E t \in Tokens : Chain!Forfeit(t, r)
  <2>1. /\ session' = session
        /\ req'[r].token = NoToken
        /\ \A q \in Requests \ {r} : req'[q] = req[q]
        /\ req[r].token \in Tokens \cup {NoToken}
    BY <1>0, <1>6 DEF FailRequest, rows, TypeOK, Idle
  <2>2. CASE req[r].token = NoToken
    BY <1>0, <1>1, <2>1, <2>2, ClaimMoves
  <2>3. CASE req[r].token \in Tokens
    <3>1. claims' = [claims EXCEPT ![req[r].token] = @ \ {r}]
      BY <1>0, <2>1, <2>3, ClaimMoves
    <3> QED
      BY <2>1, <2>3, <3>1 DEF claims, Chain!Forfeit
  <2> QED
    BY <2>1, <2>2, <2>3
<1>7. ASSUME NEW r \in Requests, NEW t \in Tokens, IssueTokens(r, t) \/ LoseAnswer(r, t)
      PROVE  \/ Chain!Open(t)
             \/ \E old \in Tokens : Chain!Exchange(old, r, t)
  <2>1. /\ session[t] = "unused"
        /\ session' = [session EXCEPT ![t] = "open"]
        /\ req'[r].token = NoToken
        /\ \A q \in Requests \ {r} : req'[q] = req[q]
        /\ req[r].step \in {"login", "reissue"}
    BY <1>0, <1>7 DEF IssueTokens, LoseAnswer, StoreSession, CreateSession, TypeOK, Idle
  <2>2. CASE req[r].step = "login"
    <3>1. req[r].token = NoToken
      BY <2>2 DEF IInv, RequestFits
    <3>2. claims' = claims
      BY <1>0, <2>1, <3>1, ClaimMoves
    <3> QED
      BY <2>1, <3>2 DEF claims, Chain!Open
  <2>3. CASE req[r].step = "reissue"
    <3>1. req[r].token \in Tokens /\ session[req[r].token] = "revoked"
      BY <2>3 DEF IInv, RequestFits
    <3>2. claims' = [claims EXCEPT ![req[r].token] = @ \ {r}]
      BY <1>0, <2>1, <3>1, ClaimMoves
    <3>3. r \in Holding(req[r].token)
      BY DEF Holding
    <3> QED
      BY <2>1, <3>1, <3>2, <3>3 DEF claims, Chain!Exchange
  <2> QED
    BY <2>1, <2>2, <2>3
<1>8. ASSUME NEW u \in Users, Register(u) \/ AdminDeleteUser(u)
      PROVE  UNCHANGED Chain!vars
  BY <1>8 DEF Register, AdminDeleteUser, Chain!vars, Holding
<1>9. CASE Tick
  <2>1. session' = session /\ \A q \in Requests : req'[q].token = req[q].token
    BY <1>0, <1>9 DEF Tick, rows, TypeOK
  <2>2. claims' = claims
    BY <2>1 DEF claims, Holding
  <2> QED
    BY <1>1, <2>1, <2>2
<1>10. CASE UNCHANGED vars
  BY <1>10 DEF vars, Chain!vars, Holding
<1>11. ASSUME NEW r \in Requests, ServiceStep(r)
       PROVE  [Chain!Next]_(Chain!vars)
  BY <1>2, <1>3, <1>4, <1>5, <1>6, <1>7, <1>11
     DEF ServiceStep, Refresh, Logout, Chain!Next
<1> QED
  BY <1>8, <1>9, <1>10, <1>11 DEF Next

\* The sessions table implements TokenChain: for any number of overlapping
\* refreshes and logouts, a token has at most one successor for each request
\* that read it while it was open, and none before it is revoked.
THEOREM ChainImplemented == Spec => ChainSpec
<1>1. Init => Chain!Init
  BY SessionsAssumption DEF Init, Chain!Init, Holding, Idle
<1> QED
  BY <1>1, Invariant, ChainRefinesStep, PTL DEF Spec, ChainSpec, Chain!Spec

-----------------------------------------------------------------------------
(* OneCarrierPerLogin.                                                     *)

Carries(r) == req[r].step \in {"revoked", "loaded", "reissue"}

\* In an undisturbed login nobody else holds a request's token, and nobody
\* has revoked it.
Alone ==
    \A r \in Requests : req[r].token \in Tokens /\ origin[req[r].token] \notin disturbed =>
        /\ req[r].step \in {"refresh", "logout"} => session[req[r].token] = "open"
        /\ \A q \in Requests \ {r} : req[q].token # req[r].token

CarrierInv == IInv /\ Alone /\ OneCarrierPerLogin

LEMMA Apart == \A t \in Tokens : t \notin Requests
BY SessionsAssumption

\* Carriers(f) by its members; tokens and requests are apart.
LEMMA CarriersAre ==
    ASSUME NEW f \in Tokens
    PROVE  /\ \A t \in Tokens : t \in Carriers(f) <=> session[t] = "open" /\ origin[t] = f
           /\ \A r \in Requests : r \in Carriers(f) <=> Carries(r) /\ origin[req[r].token] = f
           /\ Carriers(f) \subseteq Tokens \cup Requests
BY SessionsAssumption DEF Carriers, Carries

\* A step keeps the carriers of a login when it keeps its rows and requests.
LEMMA CarriersKept ==
    ASSUME NEW f \in Tokens,
           \A t \in Tokens : (session[t] = "open" /\ origin[t] = f)
                             <=> (session'[t] = "open" /\ origin'[t] = f),
           \A r \in Requests : (Carries(r) /\ origin[req[r].token] = f)
                               <=> (Carries(r)' /\ origin'[req'[r].token] = f)
    PROVE  Carriers(f)' = Carriers(f)
BY DEF Carriers, Carries

\* A step that leaves sessions alone and moves no carrying request keeps all
\* carriers; when it also leaves the tokens held alone, the rest too.
LEMMA QuietStep ==
    ASSUME CarrierInv, IInv', UNCHANGED <<session, origin>>, disturbed \subseteq disturbed',
           \A r \in Requests : \/ /\ req'[r].token = req[r].token
                                  /\ Carries(r)' = Carries(r)
                                  /\ req'[r].step \in {"refresh", "logout"}
                                        => req[r].step \in {"refresh", "logout"}
                               \/ ~Carries(r) /\ req'[r] = Idle
    PROVE  CarrierInv'
<1> USE SessionsAssumption DEF CarrierInv
<1>1. Alone'
  BY DEF Alone, Idle
<1>2. ASSUME NEW f \in Tokens, origin'[f] = f, f \notin disturbed'
      PROVE  Carriers(f)' = Carriers(f)
  <2>1. ASSUME NEW r \in Requests
        PROVE  (Carries(r) /\ origin[req[r].token] = f)
               <=> (Carries(r)' /\ origin'[req'[r].token] = f)
    BY DEF Carries, Idle
  <2> QED
    BY <2>1, CarriersKept
<1>3. OneCarrierPerLogin'
  BY <1>2 DEF OneCarrierPerLogin
<1> QED
  BY <1>1, <1>3

LEMMA PresentCarriers ==
    ASSUME CarrierInv, IInv', NEW r \in Requests, NEW t \in Tokens,
           NEW purpose \in {"refresh", "logout"}, Present(r, t, purpose)
    PROVE  CarrierInv'
<1> USE SessionsAssumption DEF CarrierInv
<1>1. /\ req[r] = Idle /\ session[t] = "open"
      /\ req'[r].token = t /\ req'[r].step = purpose
      /\ \A q \in Requests \ {r} : req'[q] = req[q]
      /\ UNCHANGED <<session, origin>>
      /\ disturbed' = IF Holding(t) # {} THEN disturbed \cup {origin[t]} ELSE disturbed
  BY DEF Present, GetSessionByToken, rows, IInv, TypeOK
<1>2. ASSUME NEW q \in Requests \ {r}, req[q].token = t
      PROVE  origin[t] \in disturbed'
  BY <1>1, <1>2 DEF Holding
<1>3. Alone'
  BY <1>1, <1>2 DEF Alone
<1>4. ASSUME NEW f \in Tokens, NEW q \in Requests
      PROVE  (Carries(q) /\ origin[req[q].token] = f)
             <=> (Carries(q)' /\ origin'[req'[q].token] = f)
  BY <1>1 DEF Carries, Idle
<1>5. \A f \in Tokens : Carriers(f)' = Carriers(f)
  BY <1>1, <1>4, CarriersKept
<1>6. OneCarrierPerLogin'
  BY <1>1, <1>5 DEF OneCarrierPerLogin
<1> QED
  BY <1>3, <1>6

LEMMA RevokeCarriers ==
    ASSUME CarrierInv, IInv', NEW r \in Requests, Revoke(r)
    PROVE  CarrierInv'
<1> USE SessionsAssumption DEF CarrierInv
<1> DEFINE t == req[r].token
<1>1. /\ t \in Tokens /\ origin[t] \in Tokens /\ origin[origin[t]] = origin[t]
      /\ req[r].step \in {"refresh", "logout"}
      /\ session' = [session EXCEPT ![t] = "revoked"]
      /\ origin' = origin
      /\ \A q \in Requests \ {r} : req'[q] = req[q]
      /\ req[r].step = "refresh" => req'[r].step = "revoked" /\ req'[r].token = t
                                    /\ disturbed' = disturbed
      /\ req[r].step = "logout" => req'[r] = Idle /\ disturbed' = disturbed \cup {origin[t]}
  BY DEF Revoke, RevokeSession, IInv, RequestFits, RowsFit, TypeOK
<1>2. Alone'
  <2>1. ASSUME NEW q \in Requests, req'[q].token \in Tokens,
               origin'[req'[q].token] \notin disturbed'
        PROVE  /\ req'[q].step \in {"refresh", "logout"} => session'[req'[q].token] = "open"
               /\ \A p \in Requests \ {q} : req'[p].token # req'[q].token
    <3>1. CASE q = r
      BY <1>1, <2>1, <3>1 DEF Alone, Idle
    <3>2. CASE q # r
      <4>1. /\ req'[q] = req[q] /\ req[q].token \in Tokens
            /\ origin[req[q].token] \notin disturbed
        BY <1>1, <2>1, <3>2
      <4>2. \A p \in Requests \ {q} : req[p].token # req[q].token
        BY <4>1 DEF Alone
      <4>3. req[q].token # t
        BY <3>2, <4>2
      <4>4. req'[q].step \in {"refresh", "logout"} => session'[req'[q].token] = "open"
        BY <1>1, <4>1, <4>3 DEF Alone, IInv, TypeOK
      <4> QED
        BY <1>1, <4>1, <4>2, <4>4 DEF Idle
    <3> QED
      BY <3>1, <3>2
  <2> QED
    BY <2>1 DEF Alone
<1>3. ASSUME NEW f \in Tokens, origin'[f] = f, f \notin disturbed', f # origin[t]
      PROVE  Carriers(f)' = Carriers(f)
  <2>1. ASSUME NEW s \in Tokens
        PROVE  (session[s] = "open" /\ origin[s] = f)
               <=> (session'[s] = "open" /\ origin'[s] = f)
    BY <1>1, <1>3 DEF IInv, TypeOK
  <2>2. ASSUME NEW q \in Requests
        PROVE  (Carries(q) /\ origin[req[q].token] = f)
               <=> (Carries(q)' /\ origin'[req'[q].token] = f)
    BY <1>1, <1>3 DEF Carries, Idle
  <2> QED
    BY <2>1, <2>2, CarriersKept
<1>4. ASSUME NEW f \in Tokens, f = origin[t], f \notin disturbed'
      PROVE  Carriers(f)' = {r}
  <2>1. /\ req[r].step = "refresh" /\ f \notin disturbed
        /\ session[t] = "open"
    BY <1>1, <1>4 DEF Alone
  <2>2. t \in Carriers(f) /\ Carriers(f) = {t}
    BY <1>1, <1>4, <2>1, CarriersAre DEF OneCarrierPerLogin
  <2>3. ASSUME NEW s \in Tokens
        PROVE  ~(session'[s] = "open" /\ origin'[s] = f)
    <3>1. CASE s = t
      BY <1>1, <3>1 DEF IInv, TypeOK
    <3>2. CASE s # t
      <4>1. ~(session[s] = "open" /\ origin[s] = f)
        BY <2>2, <3>2, CarriersAre
      <4> QED
        BY <1>1, <3>2, <4>1 DEF IInv, TypeOK
    <3> QED
      BY <3>1, <3>2
  <2>4. ASSUME NEW q \in Requests \ {r}
        PROVE  ~(Carries(q)' /\ origin'[req'[q].token] = f)
    <3>1. q \notin Carriers(f)
      BY <1>1, <2>2, Apart
    <3>2. ~(Carries(q) /\ origin[req[q].token] = f)
      BY <1>1, <3>1, CarriersAre
    <3>3. req'[q] = req[q] /\ Carries(q)' = Carries(q)
      BY <1>1 DEF Carries
    <3> QED
      BY <1>1, <3>2, <3>3
  <2>5. Carries(r)' /\ origin'[req'[r].token] = f
    BY <1>1, <1>4, <2>1 DEF Carries
  <2> QED
    BY <1>1, <2>3, <2>4, <2>5 DEF Carriers, Carries
<1>5. OneCarrierPerLogin'
  <2>1. ASSUME NEW f \in Tokens, origin'[f] = f, f \notin disturbed'
        PROVE  (\E c \in Carriers(f) : Carriers(f) = {c})'
    <3>1. CASE f = origin[t]
      BY <1>1, <1>4, <2>1, <3>1
    <3>2. CASE f # origin[t]
      BY <1>1, <1>3, <2>1, <3>2 DEF OneCarrierPerLogin
    <3> QED
      BY <3>1, <3>2
  <2> QED
    BY <2>1 DEF OneCarrierPerLogin
<1> QED
  BY <1>2, <1>5

LEMMA StoreCarriers ==
    ASSUME CarrierInv, IInv', NEW r \in Requests, NEW t \in Tokens,
           IssueTokens(r, t) \/ LoseAnswer(r, t)
    PROVE  CarrierInv'
<1> USE SessionsAssumption DEF CarrierInv
<1> DEFINE first == IF req[r].step = "login" THEN t ELSE origin[req[r].token]
<1>1. /\ session[t] = "unused" /\ origin[t] = NoToken
      /\ req[r].step \in {"login", "reissue"}
      /\ req[r].step = "login" => req[r].token = NoToken
      /\ session' = [session EXCEPT ![t] = "open"]
      /\ origin' = [origin EXCEPT ![t] = first]
      /\ req' = [req EXCEPT ![r] = Idle]
      /\ disturbed \subseteq disturbed'
  BY DEF IssueTokens, LoseAnswer, StoreSession, CreateSession, IInv, RowsFit, RequestFits, TypeOK
<1>2. first \in Tokens /\ first # NoToken
  BY <1>1 DEF IInv, RequestFits, RowsFit
<1>3. ASSUME NEW q \in Requests \ {r}, req[q].token \in Tokens
      PROVE  /\ req'[q] = req[q] /\ req[q].token # t
             /\ session'[req[q].token] = session[req[q].token]
             /\ origin'[req[q].token] = origin[req[q].token]
  <2>1. session[req[q].token] # "unused"
    BY <1>3 DEF IInv, RequestFits, TypeOK, Steps, Idle
  <2> QED
    BY <1>1, <1>3, <2>1 DEF IInv, TypeOK
<1>4. req'[r] = Idle /\ \A q \in Requests \ {r} : req'[q] = req[q]
  BY <1>1 DEF IInv, TypeOK
<1>5. Alone'
  <2>1. ASSUME NEW q \in Requests, req'[q].token \in Tokens,
               origin'[req'[q].token] \notin disturbed'
        PROVE  /\ req'[q].step \in {"refresh", "logout"} => session'[req'[q].token] = "open"
               /\ \A p \in Requests \ {q} : req'[p].token # req'[q].token
    <3>1. q # r /\ req'[q] = req[q]
      BY <1>4, <2>1 DEF Idle
    <3>2. /\ session'[req[q].token] = session[req[q].token]
          /\ origin[req[q].token] \notin disturbed
      BY <1>1, <1>3, <2>1, <3>1
    <3> QED
      BY <1>4, <2>1, <3>1, <3>2 DEF Alone, Idle
  <2> QED
    BY <2>1 DEF Alone
<1>6. ASSUME NEW q \in Requests, Carries(q)
      PROVE  req[q].token \in Tokens
  BY <1>6 DEF IInv, RequestFits, Carries
<1>7. ASSUME NEW f \in Tokens, f # first
      PROVE  Carriers(f)' = Carriers(f)
  <2>1. ASSUME NEW s \in Tokens
        PROVE  (session[s] = "open" /\ origin[s] = f)
               <=> (session'[s] = "open" /\ origin'[s] = f)
    BY <1>1, <1>7 DEF IInv, TypeOK
  <2>2. ASSUME NEW q \in Requests
        PROVE  (Carries(q) /\ origin[req[q].token] = f)
               <=> (Carries(q)' /\ origin'[req'[q].token] = f)
    <3>1. CASE q = r
      BY <1>1, <1>4, <1>7, <3>1 DEF Carries, Idle
    <3>2. CASE q # r
      BY <1>3, <1>4, <1>6, <3>2 DEF Carries
    <3> QED
      BY <3>1, <3>2
  <2> QED
    BY <2>1, <2>2, CarriersKept
<1>8. ASSUME NEW f \in Tokens, f = first, origin'[f] = f, f \notin disturbed'
      PROVE  Carriers(f)' = {t}
  <2>1. ASSUME NEW s \in Tokens \ {t}
        PROVE  ~(session[s] = "open" /\ origin[s] = f)
    <3>1. CASE req[r].step = "login"
      BY <1>1, <1>8, <3>1 DEF IInv, RowsFit
    <3>2. CASE req[r].step = "reissue"
      <4>1. f # t /\ origin[f] = f /\ f \notin disturbed
        BY <1>1, <1>2, <1>8, <3>2 DEF IInv, TypeOK, RowsFit, RequestFits
      <4>2. r \in Carriers(f)
        BY <1>8, <3>2, CarriersAre DEF Carries
      <4>3. s \notin Carriers(f)
        BY <4>1, <4>2, Apart DEF OneCarrierPerLogin
      <4> QED
        BY <4>3, CarriersAre
    <3> QED
      BY <1>1, <3>1, <3>2
  <2>2. ASSUME NEW q \in Requests \ {r}
        PROVE  ~(Carries(q) /\ origin[req[q].token] = f)
    <3>1. CASE req[r].step = "login"
      <4>1. ASSUME Carries(q)
            PROVE  origin[req[q].token] # t
        <5>1. session[req[q].token] # "unused" /\ req[q].token \in Tokens
          BY <4>1 DEF IInv, RequestFits, Carries
        <5> QED
          BY <1>1, <5>1 DEF IInv, RowsFit
      <4> QED
        BY <1>8, <3>1, <4>1
    <3>2. CASE req[r].step = "reissue"
      <4>1. f # t /\ origin[f] = f /\ f \notin disturbed
        BY <1>1, <1>2, <1>8, <3>2 DEF IInv, TypeOK, RowsFit, RequestFits
      <4>2. r \in Carriers(f)
        BY <1>8, <3>2, CarriersAre DEF Carries
      <4>3. q \notin Carriers(f)
        BY <4>1, <4>2, Apart DEF OneCarrierPerLogin
      <4> QED
        BY <4>3, CarriersAre
    <3> QED
      BY <1>1, <3>1, <3>2
  <2>3. session'[t] = "open" /\ origin'[t] = f
    BY <1>1, <1>8 DEF IInv, TypeOK
  <2>4. ASSUME NEW s \in Tokens \ {t}
        PROVE  ~(session'[s] = "open" /\ origin'[s] = f)
    BY <1>1, <2>1 DEF IInv, TypeOK
  <2>5. ASSUME NEW q \in Requests
        PROVE  ~(Carries(q)' /\ origin'[req'[q].token] = f)
    <3>1. CASE q = r
      BY <1>4, <3>1 DEF Carries, Idle
    <3>2. CASE q # r
      <4>1. Carries(q)' = Carries(q)
        BY <1>4, <3>2 DEF Carries
      <4>2. Carries(q) => req'[q] = req[q] /\ origin'[req[q].token] = origin[req[q].token]
        BY <1>3, <1>6, <3>2
      <4> QED
        BY <2>2, <3>2, <4>1, <4>2
    <3> QED
      BY <3>1, <3>2
  <2> QED
    BY <2>3, <2>4, <2>5 DEF Carriers, Carries
<1>9. OneCarrierPerLogin'
  <2>1. ASSUME NEW f \in Tokens, origin'[f] = f, f \notin disturbed'
        PROVE  (\E c \in Carriers(f) : Carriers(f) = {c})'
    <3>1. CASE f = first
      BY <1>8, <2>1, <3>1
    <3>2. CASE f # first
      <4>1. f # t /\ origin[f] = f /\ f \notin disturbed
        BY <1>1, <2>1, <3>2 DEF IInv, TypeOK
      <4> QED
        BY <1>7, <3>2, <4>1 DEF OneCarrierPerLogin
    <3> QED
      BY <3>1, <3>2
  <2> QED
    BY <2>1 DEF OneCarrierPerLogin
<1> QED
  BY <1>5, <1>9

LEMMA FailCarriers ==
    ASSUME CarrierInv, IInv', NEW r \in Requests, FailRequest(r)
    PROVE  CarrierInv'
<1> USE SessionsAssumption DEF CarrierInv
<1>1. /\ UNCHANGED <<session, origin>> /\ disturbed \subseteq disturbed'
      /\ req'[r] = Idle /\ \A q \in Requests \ {r} : req'[q] = req[q]
  BY DEF FailRequest, rows, IInv, TypeOK
<1>2. CASE ~Carries(r)
  BY <1>1, <1>2, QuietStep DEF Carries
<1>3. CASE Carries(r)
  <2>1. origin[req[r].token] \in disturbed'
    BY <1>3 DEF FailRequest, Carries
  <2>2. Alone'
    BY <1>1 DEF Alone, Idle
  <2>3. ASSUME NEW f \in Tokens, f \notin disturbed'
        PROVE  Carriers(f)' = Carriers(f)
    <3>1. ASSUME NEW q \in Requests
          PROVE  (Carries(q) /\ origin[req[q].token] = f)
                 <=> (Carries(q)' /\ origin'[req'[q].token] = f)
      BY <1>1, <2>1, <2>3 DEF Carries, Idle
    <3> QED
      BY <1>1, <3>1, CarriersKept
  <2>4. OneCarrierPerLogin'
    BY <1>1, <2>3 DEF OneCarrierPerLogin
  <2> QED
    BY <2>2, <2>4
<1> QED
  BY <1>2, <1>3

LEMMA NextCarriers ==
    ASSUME CarrierInv, [Next]_vars
    PROVE  CarrierInv'
<1> USE SessionsAssumption
<1>0. IInv'
  BY NextIInv DEF CarrierInv
<1>1. ASSUME NEW r \in Requests, NEW u \in Users, Login(r, u)
      PROVE  CarrierInv'
  <2>1. /\ req[r] = Idle /\ req'[r].token = NoToken /\ req'[r].step = "password"
        /\ UNCHANGED <<session, origin, disturbed>>
        /\ \A q \in Requests \ {r} : req'[q] = req[q]
    BY <1>1 DEF Login, rows, history, CarrierInv, IInv, TypeOK
  <2> QED
    BY <1>0, <2>1, QuietStep DEF Carries, Idle
<1>2. ASSUME NEW r \in Requests, LoadUser(r) \/ SignToken(r)
      PROVE  CarrierInv'
  <2>1. /\ <<req[r].step, req'[r].step>> \in {<<"revoked", "loaded">>, <<"loaded", "reissue">>,
                                             <<"password", "login">>}
        /\ req'[r].token = req[r].token
        /\ UNCHANGED <<session, origin, disturbed>>
        /\ \A q \in Requests \ {r} : req'[q] = req[q]
    BY <1>2 DEF LoadUser, SignToken, rows, history, CarrierInv, IInv, TypeOK
  <2> QED
    BY <1>0, <2>1, QuietStep DEF Carries
<1>3. CASE \E u \in Users : Register(u) \/ AdminDeleteUser(u)
  <2>1. UNCHANGED <<session, origin, disturbed, req>>
    BY <1>3 DEF Register, AdminDeleteUser, history
  <2> QED
    BY <1>0, <2>1, QuietStep DEF Carries
<1>4. CASE Tick
  <2>1. /\ UNCHANGED <<session, origin, disturbed>>
        /\ \A q \in Requests : req'[q].token = req[q].token /\ req'[q].step = req[q].step
    BY <1>4 DEF Tick, rows, CarrierInv, IInv, TypeOK
  <2> QED
    BY <1>0, <2>1, QuietStep DEF Carries
<1>5. CASE UNCHANGED vars
  BY <1>0, <1>5, QuietStep DEF vars, Carries
<1>6. ASSUME NEW r \in Requests, ServiceStep(r)
      PROVE  CarrierInv'
  BY <1>0, <1>1, <1>2, <1>6, PresentCarriers, RevokeCarriers, StoreCarriers, FailCarriers
     DEF ServiceStep, Refresh, Logout
<1> QED
  BY <1>3, <1>4, <1>5, <1>6 DEF Next

\* Whatever the number of users, tokens and requests and however they
\* interleave, an undisturbed login is carried on by exactly one open token
\* or one refresh under way.  Alone is what makes this inductive: the second
\* request for a token is noticed when it reads the row, long before it could
\* store a second successor.
THEOREM OneCarrierCorrect == Spec => []OneCarrierPerLogin
<1>1. Init => CarrierInv
  BY SessionsAssumption, InitIInv DEF Init, CarrierInv, Alone, OneCarrierPerLogin, Idle
<1>2. CarrierInv => OneCarrierPerLogin
  BY DEF CarrierInv
<1> QED
  BY <1>1, <1>2, NextCarriers, PTL DEF Spec
=============================================================================
