----------------------------- MODULE AuthProofs -----------------------------
(***************************************************************************)
(* Theorems about auth-enterprise: types, and how late an answer may be:   *)
(* the keys it follows, the roles it grants and those a session shows.     *)
(***************************************************************************)
EXTENDS Auth, TLAPS

-----------------------------------------------------------------------------
(* Roles.                                                                  *)

LEMMA RolesAre == Roles = {"user", "team_lead", "org_admin", "enterprise_admin"}
<1>1. DOMAIN RoleHierarchy = 1 .. 4
  BY DEF RoleHierarchy
<1>2. /\ RoleHierarchy[1] = "user" /\ RoleHierarchy[2] = "team_lead"
      /\ RoleHierarchy[3] = "org_admin" /\ RoleHierarchy[4] = "enterprise_admin"
  BY DEF RoleHierarchy
<1>3. 1 .. 4 = {1, 2, 3, 4}
  OBVIOUS
<1>4. Roles = {RoleHierarchy[i] : i \in {1, 2, 3, 4}}
  BY <1>1, <1>3 DEF Roles, ToSet
<1>. QED
  BY <1>2, <1>4

LEMMA RoleRankType == \A r \in Roles : RoleRank(r) \in 1 .. 4
<1>1. DOMAIN RoleHierarchy = 1 .. 4
  BY DEF RoleHierarchy
<1>2. \A r \in Roles : \E i \in 1 .. 4 : RoleHierarchy[i] = r
  BY <1>1 DEF Roles, ToSet
<1>. QED
  BY <1>1, <1>2 DEF RoleRank

\* Every user has a role.
LEMMA MapClaimsType ==
  ASSUME NEW groups
  PROVE  MapClaimsToRoles(groups) \subseteq Roles /\ MapClaimsToRoles(groups) # {}
<1>1. \A g \in DOMAIN RoleMappings : RoleMappings[g] \in Roles
  BY RolesAre DEF RoleMappings
<1>. QED
  BY <1>1, RolesAre DEF MapClaimsToRoles

\* Of the roles of a user one has the highest rank.
LEMMA HighestRoleType ==
  ASSUME NEW roles \in SUBSET Roles, roles # {}
  PROVE  HighestRole(roles) \in roles
<1>1. \E r \in roles : \A s \in roles : RoleRank(s) <= RoleRank(r)
  <2>. DEFINE P(n) == \E r \in roles : RoleRank(r) = n
  <2>1. \A r \in roles : RoleRank(r) \in 1 .. 4
    BY RoleRankType
  <2>2. PICK n \in 1 .. 4 : P(n) /\ \A m \in 1 .. 4 : P(m) => m <= n
    <3>1. P(1) \/ P(2) \/ P(3) \/ P(4)
      BY <2>1
    <3>2. CASE P(4)
      BY <3>2
    <3>3. CASE ~P(4) /\ P(3)
      <4>. HIDE DEF P
      <4>. QED
        BY <3>3
    <3>4. CASE ~P(4) /\ ~P(3) /\ P(2)
      <4>. HIDE DEF P
      <4>. QED
        BY <3>4
    <3>5. CASE ~P(4) /\ ~P(3) /\ ~P(2)
      <4>. HIDE DEF P
      <4>. QED
        BY <3>1, <3>5
    <3>. QED
      BY <3>2, <3>3, <3>4, <3>5
  <2>. QED
    BY <2>1, <2>2
<1>. QED
  BY <1>1 DEF HighestRole

LEMMA UserContextType ==
  ASSUME NEW token, token.user \in Users
  PROVE  /\ BuildUserContext(token) \in UserContext
         /\ BuildUserContext(token).userId = token.user
         /\ BuildUserContext(token).tenantId = DefaultTenant
         /\ BuildUserContext(token).roles = MapClaimsToRoles(token.groups)
<1>1. PICK roles : roles = MapClaimsToRoles(token.groups)
  OBVIOUS
<1>2. roles \in SUBSET Roles /\ roles # {}
  BY <1>1, MapClaimsType
<1>3. PICK role : role = HighestRole(roles)
  OBVIOUS
<1>4. role \in Roles
  BY <1>2, <1>3, HighestRoleType
<1>5. PolicyScopeOf(role) \in {"user", "team", "org", "enterprise"}
  BY <1>4, RolesAre DEF PolicyScopeOf
<1>6. BuildUserContext(token) =
        [userId |-> token.user, roles |-> roles, tenantId |-> DefaultTenant,
         policyScope |-> PolicyScopeOf(role)]
  BY <1>1, <1>3 DEF BuildUserContext
<1>. QED
  BY <1>1, <1>2, <1>5, <1>6, AuthAssumption DEF UserContext

-----------------------------------------------------------------------------
(* The inductive invariant.  What is kept from an answer of the provider,  *)
(* or is on its way from it, was true at a time that the invariant bounds  *)
(* from below: keys by the start of their fetch, the token of a callback   *)
(* by the start of its exchange, the roles of a session by its expiry.     *)

LEMMA Numbers ==
  /\ TokenTtl \in Nat /\ SessionTtl \in Nat /\ JwksTtl \in Nat /\ ClockSkew \in Nat
  /\ FetchTimeout \in Nat /\ MaxTime \in Nat /\ MaxChanges \in Nat
  /\ MaxConnectors \in Nat /\ FetchTimeout < JwksTtl
  BY AuthAssumption

\* The provider published just these keys at the time from or later.
Published(keys, from) == \E p \in past : from <= p.at /\ p.idp.keys = keys

\* The provider made the token at the time from or later.
Issued(token, from) ==
  \E u \in Users, p \in past : from <= p.at /\ token = IssuedAt(u, p.idp, p.at)

\* The user had these roles at the time from or later.
Granted(user, from) ==
  \E p \in past :
    from <= p.at /\ MapClaimsToRoles(p.idp.groups[user.userId]) = user.roles

Request ==
  [at : Waiting \cup {"idle"}, kind : {"route", "callback"}, token : Token \cup {NoToken},
   started : 0 .. MaxTime, keys : SUBSET Kids]

\* History: the provider as it is now belongs to it.
PastInv ==
  /\ now \in 0 .. MaxTime
  /\ idp \in Idp
  /\ past \subseteq [at : 0 .. MaxTime, idp : Idp]
  /\ \A p \in past : p.at <= now
  /\ [at |-> now, idp |-> idp] \in past

\* A fetch ends in time, and what it brings was true after it began.
RequestInv(r) ==
  /\ r \in Request
  /\ r.at = "idle" => r = Idle
  /\ r.at \in Waiting => r.started <= now /\ now <= r.started + FetchTimeout
  /\ r.at \in {"exchange", "exchanged"} => r.kind = "callback"
  /\ r.at = "exchanged" => Issued(r.token, r.started)
  /\ r.at \in {"jwks", "jwksAnswered"} /\ r.kind = "callback" =>
       Issued(r.token, r.started - FetchTimeout)
  /\ r.at = "jwksAnswered" => Published(r.keys, r.started)

\* The cached keys were published within their life.
JwksInv ==
  /\ jwks.keys \subseteq Kids /\ jwks.expiry \in Nat
  /\ now < jwks.expiry => Published(jwks.keys, jwks.expiry - JwksTtl)

\* The roles of a session are those of its login.
SessionInv(s) ==
  /\ s.userContext \in UserContext
  /\ s.expiresAt \in 0 .. (now + SessionTtl)
  /\ Granted(s.userContext, s.expiresAt - SessionTtl - 2 * FetchTimeout)

AnswerInv ==
  /\ answer # None => answer.user = None \/ answer.user \in UserContext
  /\ AnswersFollowRotation
  /\ AdminsWereAdmins
  /\ SessionsShowLateRoles

AuthInv ==
  /\ PastInv
  /\ request \in [Clients -> Request]
  /\ \A c \in Clients : RequestInv(request[c])
  /\ JwksInv
  /\ \A s \in sessions : SessionInv(s)
  /\ connectors \subseteq ConnectorRecord
  /\ AnswerInv
-----------------------------------------------------------------------------
(* History only grows.                                                     *)

LEMMA PastGrows ==
  ASSUME past \subseteq past', NEW x, NEW from
  PROVE  /\ Published(x, from) => Published(x, from)'
         /\ Issued(x, from) => Issued(x, from)'
         /\ Granted(x, from) => Granted(x, from)'
<1>1. Published(x, from) => Published(x, from)'
  BY DEF Published
<1>2. Issued(x, from) => Issued(x, from)'
  BY DEF Issued, IssuedAt
<1>3. Granted(x, from) => Granted(x, from)'
  BY DEF Granted, MapClaimsToRoles, RoleMappings
<1>. QED
  BY <1>1, <1>2, <1>3

LEMMA IssuedType ==
  ASSUME PastInv, NEW u \in Users, NEW p \in past
  PROVE  /\ IssuedAt(u, p.idp, p.at) \in Token
         /\ IssuedAt(u, p.idp, p.at).user = u
         /\ IssuedAt(u, p.idp, p.at).groups = p.idp.groups[u]
         /\ IssuedAt(u, p.idp, p.at).iat = p.at
         /\ IssuedAt(u, p.idp, p.at).kid = p.idp.signer
  BY DEF PastInv, IssuedAt, Token, Idp

LEMMA IdleRequest ==
  /\ Idle \in Request /\ Idle.at = "idle" /\ Idle.kind = "route"
  /\ "idle" \notin Waiting
<1>1. NoToken \in Token \cup {NoToken}
  OBVIOUS
<1>. QED
  BY <1>1, Numbers DEF Idle, Request, Waiting

LEMMA InitInv == Init => AuthInv
<1>. SUFFICES ASSUME Init PROVE AuthInv
  OBVIOUS
<1>1. PastInv
  BY Numbers DEF Init, PastInv
<1>2. \A c \in Clients : RequestInv(Idle)
  BY IdleRequest DEF RequestInv, Waiting
<1>3. request \in [Clients -> Request] /\ \A c \in Clients : RequestInv(request[c])
  BY <1>2, IdleRequest DEF Init
<1>4. JwksInv
  BY <1>1 DEF Init, JwksInv, PastInv
<1>5. \A s \in sessions : SessionInv(s)
  BY DEF Init
<1>6. connectors \subseteq ConnectorRecord
  BY AuthAssumption DEF Init
<1>7. AnswerInv
  BY DEF Init, AnswerInv, AnswersFollowRotation, AdminsWereAdmins, SessionsShowLateRoles
<1>. QED
  BY <1>1, <1>3, <1>4, <1>5, <1>6, <1>7 DEF AuthInv
-----------------------------------------------------------------------------
(* Steps of the world.                                                     *)

\* A request is no worse for time that passes within its timeout.
LEMMA RequestKept ==
  ASSUME NEW r, RequestInv(r), past \subseteq past', now \in Nat, now' \in Nat, now <= now',
         r.at \in Waiting => now' <= r.started + FetchTimeout
  PROVE  RequestInv(r)'
<1>1. /\ Published(r.keys, r.started) => Published(r.keys, r.started)'
      /\ Issued(r.token, r.started) => Issued(r.token, r.started)'
      /\ Issued(r.token, r.started - FetchTimeout) => Issued(r.token, r.started - FetchTimeout)'
  BY PastGrows
<1>2. r \in Request /\ (r.at \in Waiting => r.started <= now')
  BY Numbers DEF RequestInv, Request
<1>. QED
  BY <1>1, <1>2 DEF RequestInv

LEMMA SessionKept ==
  ASSUME NEW s, SessionInv(s), past \subseteq past', now \in Nat, now' \in Nat, now <= now'
  PROVE  SessionInv(s)'
<1>1. Granted(s.userContext, s.expiresAt - SessionTtl - 2 * FetchTimeout)'
  BY PastGrows DEF SessionInv
<1>2. s.expiresAt \in 0 .. (now' + SessionTtl)
  BY Numbers DEF SessionInv
<1>. QED
  BY <1>1, <1>2 DEF SessionInv

LEMMA JwksKept ==
  ASSUME JwksInv, past \subseteq past', now \in Nat, now' \in Nat, now <= now', jwks' = jwks
  PROVE  JwksInv'
<1>1. Published(jwks.keys, jwks.expiry - JwksTtl)
        => Published(jwks.keys, jwks.expiry - JwksTtl)'
  <2>1. PICK k : k = jwks.keys
    OBVIOUS
  <2>2. PICK e : e = jwks.expiry - JwksTtl
    OBVIOUS
  <2>3. Published(k, e) => Published(k, e)'
    BY PastGrows
  <2>4. jwks'.keys = k /\ jwks'.expiry - JwksTtl = e
    BY <2>1, <2>2
  <2>. QED
    BY <2>1, <2>2, <2>3, <2>4
<1>. QED
  BY <1>1 DEF JwksInv

LEMMA NoAnswer == answer' = None => AnswerInv'
  BY DEF AnswerInv, AnswersFollowRotation, AdminsWereAdmins, SessionsShowLateRoles

LEMMA TickInv == AuthInv /\ Tick => AuthInv'
<1>. SUFFICES ASSUME AuthInv, Tick PROVE AuthInv'
  OBVIOUS
<1>1. past \subseteq past' /\ now \in Nat /\ now' \in Nat /\ now <= now'
  BY Numbers DEF AuthInv, PastInv, Tick
<1>2. PastInv'
  BY Numbers DEF AuthInv, PastInv, Tick
<1>3. \A c \in Clients : RequestInv(request[c])'
  <2>. SUFFICES ASSUME NEW c \in Clients PROVE RequestInv(request[c])'
    OBVIOUS
  <2>1. PICK r : r = request[c]
    OBVIOUS
  <2>2. RequestInv(r) /\ request'[c] = r
    BY <2>1 DEF AuthInv, Tick
  <2>3. r.at \in Waiting => now' <= r.started + FetchTimeout
    BY <2>1, <2>2, Numbers DEF AuthInv, PastInv, RequestInv, Request, Tick
  <2>4. RequestInv(r)'
    BY <1>1, <2>2, <2>3, RequestKept
  <2>. QED
    BY <2>2, <2>4
<1>4. JwksInv'
  BY <1>1, JwksKept DEF AuthInv, Tick
<1>5. \A s \in sessions : SessionInv(s)'
  BY <1>1, SessionKept DEF AuthInv
<1>. QED
  BY <1>2, <1>3, <1>4, <1>5, NoAnswer DEF AuthInv, Tick

LEMMA ProviderStepInv == AuthInv /\ ProviderStep => AuthInv'
<1>. SUFFICES ASSUME AuthInv, ProviderStep PROVE AuthInv'
  OBVIOUS
<1>1. PICK new : new \in Idp /\ ProviderChanges(new)
  <2>1. ASSUME NEW k \in Kids, NEW kept \in SUBSET idp.keys, Rotate(k, kept)
        PROVE  \E new \in Idp : ProviderChanges(new)
    <3>1. [idp EXCEPT !.keys = {k} \cup kept, !.signer = k] \in Idp
      BY DEF AuthInv, PastInv, Idp
    <3>. QED
      BY <2>1, <3>1 DEF Rotate
  <2>2. ASSUME NEW u \in Users, NEW g \in Groups, Regroup(u, g)
        PROVE  \E new \in Idp : ProviderChanges(new)
    <3>1. [idp EXCEPT !.groups[u] = g] \in Idp
      BY DEF AuthInv, PastInv, Idp
    <3>. QED
      BY <2>2, <3>1 DEF Regroup
  <2>. QED
    BY <2>1, <2>2 DEF ProviderStep
<1>2. past \subseteq past' /\ now \in Nat /\ now' \in Nat /\ now <= now'
  BY <1>1, Numbers DEF AuthInv, PastInv, ProviderChanges
<1>3. PastInv'
  BY <1>1, Numbers DEF AuthInv, PastInv, ProviderChanges
<1>4. \A c \in Clients : RequestInv(request[c])'
  <2>. SUFFICES ASSUME NEW c \in Clients PROVE RequestInv(request[c])'
    OBVIOUS
  <2>1. PICK r : r = request[c]
    OBVIOUS
  <2>2. RequestInv(r) /\ request'[c] = r /\ now' = now
    BY <1>1, <2>1 DEF AuthInv, ProviderChanges
  <2>3. r.at \in Waiting => now' <= r.started + FetchTimeout
    BY <2>2 DEF RequestInv
  <2>4. RequestInv(r)'
    BY <1>2, <2>2, <2>3, RequestKept
  <2>. QED
    BY <2>2, <2>4
<1>5. JwksInv'
  BY <1>1, <1>2, JwksKept DEF AuthInv, ProviderChanges
<1>6. \A s \in sessions : SessionInv(s)'
  BY <1>2, SessionKept DEF AuthInv
<1>. QED
  BY <1>1, <1>3, <1>4, <1>5, <1>6, NoAnswer DEF AuthInv, ProviderChanges

LEMMA RestartInv == AuthInv /\ Restart => AuthInv'
<1>. SUFFICES ASSUME AuthInv, Restart PROVE AuthInv'
  OBVIOUS
<1>1. PastInv'
  BY DEF AuthInv, PastInv, Restart
<1>2. \A c \in Clients : RequestInv(request[c])'
  <2>1. RequestInv(Idle)'
    BY IdleRequest DEF RequestInv, Waiting
  <2>. QED
    BY <2>1 DEF Restart
<1>3. JwksInv'
  BY <1>1 DEF Restart, JwksInv, PastInv
<1>. QED
  BY <1>1, <1>2, <1>3, IdleRequest, NoAnswer DEF AuthInv, Restart

-----------------------------------------------------------------------------
(* Answers.                                                                *)

\* The key was published, or was not, within the life of the cache.
KeyKnown(kid) == \E p \in Lately(JwksTtl - 1) : kid \in p.idp.keys
KeyUnknown(kid) == \E p \in Lately(JwksTtl - 1) : kid \notin p.idp.keys

\* The user had the role that the route asks for within the life of a token.
WasAdmin(route, user) ==
  \E p \in Lately(TokenTtl + ClockSkew) :
    LET roles == MapClaimsToRoles(p.idp.groups[user.userId]) IN
    IF route = "tenants" THEN "enterprise_admin" \in roles
    ELSE roles \cap {"org_admin", "enterprise_admin"} # {}

WasLoggedIn(user) ==
  \E p \in Lately(SessionTtl + 2 * FetchTimeout) :
    MapClaimsToRoles(p.idp.groups[user.userId]) = user.roles

\* What an answer has to be.
Truthful(kid, route, status, reason, user) ==
  /\ user = None \/ user \in UserContext
  /\ status \in {200, 201} => KeyKnown(kid)
  /\ reason = "no_matching_key" => KeyUnknown(kid)
  /\ status \in {200, 201} /\ route \notin {"callback", "userinfo"} => WasAdmin(route, user)
  /\ route = "userinfo" /\ status = 200 => WasLoggedIn(user)

LEMMA ReplyInv ==
  ASSUME NoWorld, NEW c \in Clients, NEW r, NEW route, NEW status, NEW reason, NEW user,
         Reply(c, r, route, status, reason, user),
         Truthful(r.token.kid, route, status, reason, user)
  PROVE  AnswerInv' /\ request' = [request EXCEPT ![c] = Idle]
<1>1. PICK kid : kid = r.token.kid
  OBVIOUS
<1>2. answer' = [route |-> route, kid |-> kid, status |-> status, reason |-> reason,
                 user |-> user]
  BY <1>1 DEF Reply
<1>3. /\ answer'.route = route /\ answer'.kid = kid /\ answer'.status = status
      /\ answer'.reason = reason /\ answer'.user = user
  BY <1>2
<1>4. \A span : Lately(span)' = Lately(span)
  BY DEF NoWorld, Lately
<1>5. AnswersFollowRotation'
  BY <1>1, <1>3, <1>4 DEF AnswersFollowRotation, Truthful, KeyKnown, KeyUnknown
<1>6. AdminsWereAdmins'
  BY <1>3, <1>4 DEF AdminsWereAdmins, Truthful, WasAdmin
<1>7. SessionsShowLateRoles'
  BY <1>3, <1>4 DEF SessionsShowLateRoles, Truthful, WasLoggedIn
<1>. QED
  BY <1>3, <1>5, <1>6, <1>7 DEF AnswerInv, Truthful, Reply

LEMMA SessionsKept ==
  ASSUME AuthInv, NoWorld, sessions' \subseteq sessions
  PROVE  \A s \in sessions' : SessionInv(s)'
<1>1. past \subseteq past' /\ now \in Nat /\ now' \in Nat /\ now <= now'
  BY DEF AuthInv, PastInv, NoWorld
<1>. QED
  BY <1>1, SessionKept DEF AuthInv

Answered(c) ==
  /\ AnswerInv'
  /\ request' = [request EXCEPT ![c] = Idle]
  /\ \A s \in sessions' : SessionInv(s)'
  /\ connectors' \subseteq ConnectorRecord

LEMMA RefuseInv ==
  ASSUME AuthInv, NoWorld, NEW c \in Clients, NEW r, r.kind \in {"route", "callback"}, NEW reason,
         reason = "no_matching_key" => KeyUnknown(r.token.kid),
         Refuse(c, r, reason)
  PROVE  Answered(c)
<1>1. Truthful(r.token.kid, r.kind, 401, reason, None)
  BY DEF Truthful
<1>2. AnswerInv' /\ request' = [request EXCEPT ![c] = Idle]
  BY <1>1, ReplyInv DEF Refuse
<1>. QED
  BY <1>2, SessionsKept DEF Refuse, Answered, AuthInv

LEMMA CreateSessionInv ==
  ASSUME AuthInv, NoWorld, NEW c \in Clients, NEW r, KeyKnown(r.token.kid),
         NEW user \in UserContext, Granted(user, now - 2 * FetchTimeout),
         CreateSession(c, r, user)
  PROVE  Answered(c)
<1>1. Truthful(r.token.kid, "callback", 200, "", user)
  BY DEF Truthful
<1>2. AnswerInv' /\ request' = [request EXCEPT ![c] = Idle]
  BY <1>1, ReplyInv DEF CreateSession
<1>3. past \subseteq past' /\ now \in Nat /\ now' = now
  BY DEF AuthInv, PastInv, NoWorld
<1>4. \A s \in sessions : SessionInv(s)'
  BY <1>3, SessionKept DEF AuthInv
<1>5. PICK e : e = now + SessionTtl
  OBVIOUS
<1>6. PICK s : s = [id |-> Cardinality(sessions) + 1, userContext |-> user, expiresAt |-> e]
  OBVIOUS
<1>7. SessionInv(s)'
  <2>1. e - SessionTtl - 2 * FetchTimeout = now - 2 * FetchTimeout
    BY <1>3, <1>5, Numbers
  <2>2. Granted(user, e - SessionTtl - 2 * FetchTimeout)'
    BY <1>3, <2>1, PastGrows
  <2>3. s.userContext = user /\ s.expiresAt = e
    BY <1>6
  <2>4. e \in 0 .. (now' + SessionTtl)
    BY <1>3, <1>5, Numbers
  <2>. QED
    BY <2>2, <2>3, <2>4 DEF SessionInv
<1>8. sessions' = sessions \cup {s}
  BY <1>5, <1>6 DEF CreateSession
<1>. QED
  BY <1>2, <1>4, <1>7, <1>8 DEF CreateSession, Answered, AuthInv

LEMMA UserinfoInv ==
  ASSUME AuthInv, NoWorld, NEW c \in Clients, NEW r, KeyKnown(r.token.kid), NEW id,
         Userinfo(c, r, id)
  PROVE  Answered(c)
<1>1. sessions' \subseteq sessions /\ connectors' = connectors
  BY DEF Userinfo
<1>2. AnswerInv' /\ request' = [request EXCEPT ![c] = Idle]
  <2>1. \A reason \in {"session_not_found", "session_expired"} :
          Truthful(r.token.kid, "userinfo", 401, reason, None)
    BY DEF Truthful
  <2>2. CASE Reply(c, r, "userinfo", 401, "session_not_found", None)
    BY <2>1, <2>2, ReplyInv
  <2>3. CASE Reply(c, r, "userinfo", 401, "session_expired", None)
    BY <2>1, <2>3, ReplyInv
  <2>4. ASSUME NEW s \in sessions, now <= s.expiresAt,
               Reply(c, r, "userinfo", 200, "", s.userContext)
        PROVE  AnswerInv' /\ request' = [request EXCEPT ![c] = Idle]
    <3>1. PICK user : user = s.userContext
      OBVIOUS
    <3>2. PICK p \in past : /\ s.expiresAt - SessionTtl - 2 * FetchTimeout <= p.at
                            /\ MapClaimsToRoles(p.idp.groups[user.userId]) = user.roles
      BY <3>1 DEF AuthInv, SessionInv, Granted
    <3>3. s.expiresAt \in Nat /\ now \in Nat /\ p.at \in Nat /\ p.at <= now
      BY Numbers DEF AuthInv, SessionInv, PastInv
    <3>4. p.at \in (now - (SessionTtl + 2 * FetchTimeout)) .. now
      <4>1. PICK e \in Nat : e = s.expiresAt
        BY <3>3
      <4>2. PICK t \in Nat : t = p.at
        BY <3>3
      <4>3. now <= e /\ e - SessionTtl - 2 * FetchTimeout <= t /\ t <= now
        <5>1. now <= e
          BY <2>4, <3>3, <4>1
        <5>2. s.expiresAt - SessionTtl - 2 * FetchTimeout <= p.at
          BY <3>2
        <5>3. e - SessionTtl - 2 * FetchTimeout <= t
          BY <4>1, <4>2, <5>2
        <5>4. t <= now
          BY <3>3, <4>2
        <5>. QED
          BY <5>1, <5>3, <5>4
      <4>4. now - (SessionTtl + 2 * FetchTimeout) <= t
        BY <3>3, <4>3, Numbers
      <4>. QED
        BY <3>3, <4>2, <4>3, <4>4, Numbers
    <3>5. WasLoggedIn(user)
      BY <3>2, <3>4 DEF WasLoggedIn, Lately
    <3>6. user \in UserContext
      BY <3>1 DEF AuthInv, SessionInv
    <3>7. Truthful(r.token.kid, "userinfo", 200, "", user)
      BY <3>5, <3>6 DEF Truthful
    <3>. QED
      BY <2>4, <3>1, <3>7, ReplyInv
  <2>5. \A s \in sessions : ~(now > s.expiresAt) => now <= s.expiresAt
    BY Numbers DEF AuthInv, SessionInv, PastInv
  <2>. QED
    BY <2>2, <2>3, <2>4, <2>5 DEF Userinfo
<1>. QED
  BY <1>1, <1>2, SessionsKept DEF Answered, AuthInv

LEMMA ForbidInv ==
  ASSUME AuthInv, NoWorld, NEW c \in Clients, NEW r, NEW route, Forbid(c, r, route)
  PROVE  Answered(c)
<1>1. Truthful(r.token.kid, route, 403, "forbidden", None)
  BY DEF Truthful
<1>2. AnswerInv' /\ request' = [request EXCEPT ![c] = Idle]
  BY <1>1, ReplyInv DEF Forbid
<1>. QED
  BY <1>2, SessionsKept DEF Forbid, Answered, AuthInv

\* The answer to an administrator.
LEMMA AdminReplyInv ==
  ASSUME NoWorld, NEW c \in Clients, NEW r, KeyKnown(r.token.kid),
         NEW route, route \notin {"callback", "userinfo"}, NEW status,
         NEW user \in UserContext, WasAdmin(route, user),
         Reply(c, r, route, status, "", user)
  PROVE  AnswerInv' /\ request' = [request EXCEPT ![c] = Idle]
<1>1. Truthful(r.token.kid, route, status, "", user)
  BY DEF Truthful
<1>. QED
  BY <1>1, ReplyInv

LEMMA CreateConnectorInv ==
  ASSUME AuthInv, NoWorld, NEW c \in Clients, NEW r, KeyKnown(r.token.kid),
         NEW user \in UserContext, WasAdmin("createConnector", user),
         CreateConnector(c, r, user)
  PROVE  Answered(c)
<1>1. PICK id \in 1 .. MaxConnectors :
        /\ connectors' = connectors \cup
             {[id |-> id, tenantId |-> user.tenantId, status |-> "active"]}
        /\ Reply(c, r, "createConnector", 201, "", user)
        /\ UNCHANGED sessions
  BY DEF CreateConnector
<1>2. connectors' \subseteq ConnectorRecord
  <2>1. user.tenantId \in Tenants
    BY DEF UserContext
  <2>2. [id |-> id, tenantId |-> user.tenantId, status |-> "active"] \in ConnectorRecord
    BY <2>1 DEF ConnectorRecord
  <2>. QED
    BY <1>1, <2>2 DEF AuthInv
<1>3. AnswerInv' /\ request' = [request EXCEPT ![c] = Idle]
  BY <1>1, AdminReplyInv
<1>. QED
  BY <1>1, <1>2, <1>3, SessionsKept DEF Answered

LEMMA DeleteConnectorInv ==
  ASSUME AuthInv, NoWorld, NEW c \in Clients, NEW r, KeyKnown(r.token.kid),
         NEW user \in UserContext, WasAdmin("deleteConnector", user), NEW id,
         DeleteConnector(c, r, user, id)
  PROVE  Answered(c)
<1>1. CASE /\ Reply(c, r, "deleteConnector", 404, "not_found", None)
           /\ UNCHANGED <<sessions, connectors>>
  <2>1. Truthful(r.token.kid, "deleteConnector", 404, "not_found", None)
    BY DEF Truthful
  <2>2. AnswerInv' /\ request' = [request EXCEPT ![c] = Idle]
    BY <1>1, <2>1, ReplyInv
  <2>. QED
    BY <1>1, <2>2, SessionsKept DEF Answered, AuthInv
<1>2. CASE Forbid(c, r, "deleteConnector")
  BY <1>2, ForbidInv
<1>3. ASSUME NEW k \in connectors,
             connectors' = (connectors \ {k}) \cup {[k EXCEPT !.status = "disabled"]},
             Reply(c, r, "deleteConnector", 200, "", user), UNCHANGED sessions
      PROVE  Answered(c)
  <2>1. connectors' \subseteq ConnectorRecord
    <3>1. k \in ConnectorRecord
      BY DEF AuthInv
    <3>2. [k EXCEPT !.status = "disabled"] \in ConnectorRecord
      BY <3>1 DEF ConnectorRecord
    <3>. QED
      BY <1>3, <3>2 DEF AuthInv
  <2>2. AnswerInv' /\ request' = [request EXCEPT ![c] = Idle]
    BY <1>3, AdminReplyInv
  <2>. QED
    BY <1>3, <2>1, <2>2, SessionsKept DEF Answered
<1>. QED
  BY <1>1, <1>2, <1>3 DEF DeleteConnector

-----------------------------------------------------------------------------
(* The validation of a token.                                              *)

LEMMA HandleInv ==
  ASSUME AuthInv, NoWorld, NEW c \in Clients, NEW r,
         NEW u \in Users, NEW p \in past, r.token = IssuedAt(u, p.idp, p.at),
         ~Expired(r.token), KeyKnown(r.token.kid),
         r.kind = "callback" => now - 2 * FetchTimeout <= p.at,
         Handle(c, r, BuildUserContext(r.token))
  PROVE  Answered(c)
<1>1. PICK user : user = BuildUserContext(r.token)
  OBVIOUS
<1>2. /\ r.token.user = u /\ r.token.groups = p.idp.groups[u] /\ r.token.iat = p.at
  BY IssuedType DEF AuthInv
<1>3. /\ user \in UserContext /\ user.userId = u
      /\ user.roles = MapClaimsToRoles(p.idp.groups[u])
  BY <1>1, <1>2, UserContextType
<1>4. p \in Lately(TokenTtl + ClockSkew)
  <2>1. p.at \in Nat /\ p.at <= now /\ now \in Nat
    BY Numbers DEF AuthInv, PastInv
  <2>2. ~(now > p.at + TokenTtl + ClockSkew)
    BY <1>2 DEF Expired
  <2>3. now - (TokenTtl + ClockSkew) <= p.at
    BY <2>1, <2>2, Numbers
  <2>. QED
    BY <2>1, <2>3, Numbers DEF Lately
<1>5. RequireEnterpriseAdmin(user) => WasAdmin("tenants", user)
  BY <1>3, <1>4 DEF RequireEnterpriseAdmin, WasAdmin
<1>6. RequireAdmin(user) =>
        \A route \in {"connectors", "createConnector", "deleteConnector"} : WasAdmin(route, user)
  BY <1>3, <1>4 DEF RequireAdmin, WasAdmin
<1>7. CASE r.kind = "callback"
  <2>1. Granted(user, now - 2 * FetchTimeout)
    BY <1>3, <1>7 DEF Granted
  <2>2. CreateSession(c, r, user)
    BY <1>1, <1>7 DEF Handle
  <2>. QED
    BY <1>3, <2>1, <2>2, CreateSessionInv
<1>8. CASE r.kind # "callback"
  <2>1. ASSUME NEW id, Userinfo(c, r, id) PROVE Answered(c)
    BY <2>1, UserinfoInv
  <2>2. ASSUME NEW route, Forbid(c, r, route) PROVE Answered(c)
    BY <2>2, ForbidInv
  <2>3. ASSUME NEW route \in {"tenants", "connectors"}, WasAdmin(route, user),
               Read(c, r, route, user)
        PROVE  Answered(c)
    <3>1. route \notin {"callback", "userinfo"}
      OBVIOUS
    <3>2. AnswerInv' /\ request' = [request EXCEPT ![c] = Idle]
      BY <1>3, <2>3, <3>1, AdminReplyInv DEF Read
    <3>. QED
      BY <2>3, <3>2, SessionsKept DEF Read, Answered, AuthInv
  <2>4. ASSUME RequireAdmin(user), CreateConnector(c, r, user) PROVE Answered(c)
    BY <1>3, <1>6, <2>4, CreateConnectorInv
  <2>5. ASSUME RequireAdmin(user), NEW id, DeleteConnector(c, r, user, id) PROVE Answered(c)
    BY <1>3, <1>6, <2>5, DeleteConnectorInv
  <2>6. \/ \E id : Userinfo(c, r, id)
        \/ \E route : Forbid(c, r, route)
        \/ RequireEnterpriseAdmin(user) /\ Read(c, r, "tenants", user)
        \/ RequireAdmin(user) /\ Read(c, r, "connectors", user)
        \/ RequireAdmin(user) /\ CreateConnector(c, r, user)
        \/ RequireAdmin(user) /\ \E id : DeleteConnector(c, r, user, id)
    BY <1>1, <1>8, Zenon DEF Handle
  <2>. QED
    BY <1>5, <1>6, <2>1, <2>2, <2>3, <2>4, <2>5, <2>6
<1>. QED
  BY <1>7, <1>8

\* The keys were published within the life of the cache.
KeysKnown(keys) == \E q \in Lately(JwksTtl - 1) : q.idp.keys = keys

LEMMA ValidateTokenInv ==
  ASSUME AuthInv, NoWorld, NEW c \in Clients, NEW r, r.kind \in {"route", "callback"},
         NEW u \in Users, NEW p \in past, r.token = IssuedAt(u, p.idp, p.at),
         r.kind = "callback" => now - 2 * FetchTimeout <= p.at,
         NEW keys, KeysKnown(keys), ValidateToken(c, r, keys)
  PROVE  Answered(c)
<1>1. r.token.kid \notin keys => KeyUnknown(r.token.kid)
  BY DEF KeysKnown, KeyUnknown
<1>2. r.token.kid \in keys => KeyKnown(r.token.kid)
  BY DEF KeysKnown, KeyKnown
<1>3. CASE r.token.kid \notin keys
  BY <1>1, <1>3, RefuseInv DEF ValidateToken
<1>4. CASE r.token.kid \in keys
  <2>1. CASE Refuse(c, r, "invalid_token")
    BY <2>1, RefuseInv
  <2>2. CASE ~Expired(r.token) /\ Handle(c, r, BuildUserContext(r.token))
    BY <1>2, <1>4, <2>2, HandleInv
  <2>. QED
    BY <1>4, <2>1, <2>2 DEF ValidateToken
<1>. QED
  BY <1>3, <1>4

LEMMA ValidateInv ==
  ASSUME AuthInv, NoWorld, NEW c \in Clients, NEW r \in Request,
         r.kind = "callback" => Issued(r.token, now - 2 * FetchTimeout),
         NEW keys, KeysKnown(keys), Validate(c, r, keys)
  PROVE  Answered(c)
<1>1. r.kind \in {"route", "callback"}
  BY DEF Request
<1>2. CASE r.kind = "callback"
  <2>1. PICK u \in Users, p \in past :
          now - 2 * FetchTimeout <= p.at /\ r.token = IssuedAt(u, p.idp, p.at)
    BY <1>2 DEF Issued
  <2>2. ValidateToken(c, r, keys)
    BY <1>2 DEF Validate
  <2>. QED
    BY <1>1, <2>1, <2>2, ValidateTokenInv
<1>3. CASE r.kind # "callback"
  <2>1. PICK u \in Users, p \in past :
          ValidateToken(c, [r EXCEPT !.token = IssuedAt(u, p.idp, p.at)], keys)
    BY <1>3 DEF Validate
  <2>2. PICK q : q = [r EXCEPT !.token = IssuedAt(u, p.idp, p.at)]
    OBVIOUS
  <2>3. q.kind = r.kind /\ q.token = IssuedAt(u, p.idp, p.at)
    BY <2>2 DEF Request
  <2>4. ValidateToken(c, q, keys)
    BY <2>1, <2>2
  <2>5. /\ q.kind \in {"route", "callback"}
        /\ q.kind = "callback" => now - 2 * FetchTimeout <= p.at
    BY <1>1, <1>3, <2>3
  <2>. QED
    BY <2>3, <2>4, <2>5, ValidateTokenInv
<1>. QED
  BY <1>2, <1>3

\* Keys of a time within the life of the cache.
LEMMA PublishedIsKnown ==
  ASSUME AuthInv, NEW keys, NEW from \in Int, now < from + JwksTtl, Published(keys, from)
  PROVE  KeysKnown(keys)
<1>1. PICK p \in past : from <= p.at /\ p.idp.keys = keys
  BY DEF Published
<1>2. p.at \in Nat /\ p.at <= now /\ now \in Nat
  BY Numbers DEF AuthInv, PastInv
<1>3. now - (JwksTtl - 1) <= p.at
  <2>1. from <= p.at
    BY <1>1
  <2>. QED
    BY <1>2, <2>1, Numbers
<1>4. p \in Lately(JwksTtl - 1)
  BY <1>2, <1>3, Numbers DEF Lately
<1>. QED
  BY <1>1, <1>4 DEF KeysKnown
-----------------------------------------------------------------------------
(* Steps of requests.                                                      *)

LEMMA OthersKept ==
  ASSUME AuthInv, NoWorld
  PROVE  /\ PastInv' /\ \A r : RequestInv(r) => RequestInv(r)'
         /\ (UNCHANGED jwks => JwksInv')
<1>1. past \subseteq past' /\ now \in Nat /\ now' \in Nat /\ now <= now' /\ now' = now
  BY DEF AuthInv, PastInv, NoWorld
<1>2. PastInv'
  BY DEF AuthInv, PastInv, NoWorld
<1>3. ASSUME NEW r, RequestInv(r) PROVE RequestInv(r)'
  <2>1. r.at \in Waiting => now' <= r.started + FetchTimeout
    BY <1>1, <1>3 DEF RequestInv
  <2>. QED
    BY <1>1, <1>3, <2>1, RequestKept
<1>4. UNCHANGED jwks => JwksInv'
  BY <1>1, JwksKept DEF AuthInv
<1>. QED
  BY <1>2, <1>3, <1>4

LEMMA AnsweredInv ==
  ASSUME AuthInv, NoWorld, NEW c \in Clients, Answered(c), JwksInv'
  PROVE  AuthInv'
<1>1. RequestInv(Idle)'
  BY IdleRequest DEF RequestInv, Waiting
<1>2. request' \in [Clients -> Request]
  BY IdleRequest DEF AuthInv, Answered
<1>3. \A d \in Clients : RequestInv(request[d])'
  <2>. SUFFICES ASSUME NEW d \in Clients PROVE RequestInv(request[d])'
    OBVIOUS
  <2>1. PICK r : r = request[d]
    OBVIOUS
  <2>2. RequestInv(r)'
    BY <2>1, OthersKept DEF AuthInv
  <2>3. request'[d] = r \/ request'[d] = Idle
    BY <2>1 DEF Answered, AuthInv
  <2>. QED
    BY <1>1, <2>2, <2>3
<1>. QED
  BY <1>2, <1>3, OthersKept DEF AuthInv, Answered

LEMMA AwaitInv ==
  ASSUME AuthInv, NoWorld, NEW c \in Clients, NEW r, RequestInv(r), Await(c, r),
         UNCHANGED <<jwks, sessions, connectors>>
  PROVE  AuthInv'
<1>1. request' = [request EXCEPT ![c] = r]
  BY DEF Await
<1>2. request' \in [Clients -> Request]
  BY <1>1 DEF AuthInv, RequestInv
<1>3. \A d \in Clients : RequestInv(request[d])'
  <2>. SUFFICES ASSUME NEW d \in Clients PROVE RequestInv(request[d])'
    OBVIOUS
  <2>1. PICK q : q = request[d]
    OBVIOUS
  <2>2. RequestInv(q)' /\ RequestInv(r)'
    BY <2>1, OthersKept DEF AuthInv
  <2>3. request'[d] = q \/ request'[d] = r
    BY <1>1, <2>1 DEF AuthInv
  <2>. QED
    BY <2>2, <2>3
<1>4. AnswerInv'
  BY NoAnswer DEF Await
<1>5. \A s \in sessions' : SessionInv(s)'
  BY SessionsKept
<1>. QED
  BY <1>2, <1>3, <1>4, <1>5, OthersKept DEF AuthInv

LEMMA BeginValidationInv ==
  ASSUME AuthInv, NoWorld, NEW c \in Clients, NEW r \in Request,
         r.kind = "callback" => Issued(r.token, now - FetchTimeout),
         BeginValidation(c, r)
  PROVE  AuthInv'
<1>1. now \in Nat /\ now <= MaxTime
  BY Numbers DEF AuthInv, PastInv
<1>2. CASE now < jwks.expiry
  <2>1. KeysKnown(jwks.keys)
    <3>1. Published(jwks.keys, jwks.expiry - JwksTtl) /\ jwks.expiry \in Nat
      BY <1>2 DEF AuthInv, JwksInv
    <3>2. jwks.expiry - JwksTtl \in Int /\ now < (jwks.expiry - JwksTtl) + JwksTtl
      BY <1>1, <1>2, <3>1, Numbers
    <3>. QED
      BY <3>1, <3>2, PublishedIsKnown
  <2>2. r.kind = "callback" => Issued(r.token, now - 2 * FetchTimeout)
    <3>1. ASSUME NEW p \in past, now - FetchTimeout <= p.at
          PROVE  now - 2 * FetchTimeout <= p.at
      <4>1. p.at \in Nat
        BY DEF AuthInv, PastInv
      <4>. QED
        BY <1>1, <3>1, <4>1, Numbers
    <3>. QED
      BY <3>1 DEF Issued
  <2>3. Validate(c, r, jwks.keys) /\ UNCHANGED jwks
    BY <1>2 DEF BeginValidation
  <2>4. Answered(c)
    BY <2>1, <2>2, <2>3, ValidateInv
  <2>. QED
    BY <2>3, <2>4, OthersKept, AnsweredInv
<1>3. CASE ~(now < jwks.expiry)
  <2>1. PICK q : q = [r EXCEPT !.at = "jwks", !.started = now]
    OBVIOUS
  <2>2. /\ q \in Request /\ q.at = "jwks" /\ q.kind = r.kind /\ q.token = r.token
        /\ q.started = now
    <3>1. now \in 0 .. MaxTime
      BY <1>1, Numbers
    <3>2. "jwks" \in Waiting \cup {"idle"}
      BY DEF Waiting
    <3>. QED
      BY <2>1, <3>1, <3>2 DEF Request
  <2>3. RequestInv(q)
    BY <1>1, <2>2, Numbers DEF RequestInv, Waiting
  <2>. QED
    BY <1>3, <2>1, <2>3, AwaitInv DEF BeginValidation
<1>. QED
  BY <1>2, <1>3

LEMMA ArriveInv == ASSUME AuthInv, NEW c \in Clients, Arrive(c) PROVE AuthInv'
<1>1. NoWorld /\ request[c] = Idle
  BY DEF Arrive, AuthInv, RequestInv
<1>2. CASE Refuse(c, Idle, "missing_token") /\ UNCHANGED jwks
  <2>1. Answered(c)
    BY <1>1, <1>2, IdleRequest, RefuseInv
  <2>. QED
    BY <1>1, <1>2, <2>1, OthersKept, AnsweredInv
<1>3. CASE BeginValidation(c, [Idle EXCEPT !.started = now])
  <2>1. PICK r : r = [Idle EXCEPT !.started = now]
    OBVIOUS
  <2>2. r \in Request /\ r.kind = "route"
    <3>1. now \in 0 .. MaxTime
      BY DEF AuthInv, PastInv
    <3>. QED
      BY <2>1, <3>1, IdleRequest DEF Request
  <2>3. BeginValidation(c, r)
    BY <1>3, <2>1
  <2>. QED
    BY <1>1, <2>2, <2>3, BeginValidationInv
<1>. QED
  BY <1>1, <1>2, <1>3 DEF Arrive

LEMMA CallbackInv == ASSUME AuthInv, NEW c \in Clients, Callback(c) PROVE AuthInv'
<1>1. PICK r : r = [Idle EXCEPT !.at = "exchange", !.kind = "callback", !.started = now]
  OBVIOUS
<1>2. now \in 0 .. MaxTime
  BY DEF AuthInv, PastInv
<1>3. r \in Request /\ r.at = "exchange" /\ r.kind = "callback" /\ r.started = now
  <2>1. "exchange" \in Waiting \cup {"idle"}
    BY DEF Waiting
  <2>. QED
    BY <1>1, <1>2, <2>1, IdleRequest DEF Request
<1>4. RequestInv(r)
  BY <1>2, <1>3, Numbers DEF RequestInv, Waiting
<1>. QED
  BY <1>1, <1>4, AwaitInv DEF Callback

LEMMA ExchangeInv == ASSUME AuthInv, NEW c \in Clients, Exchange(c) PROVE AuthInv'
<1>1. PICK q : q = request[c]
  OBVIOUS
<1>2. RequestInv(q) /\ q.at = "exchange" /\ q \in Request
  BY <1>1 DEF AuthInv, RequestInv, Exchange
<1>3. PICK u \in Users :
        Await(c, [q EXCEPT !.at = "exchanged", !.token = IssuedAt(u, idp, now)])
  BY <1>1 DEF Exchange
<1>4. PICK token : token = IssuedAt(u, idp, now)
  OBVIOUS
<1>5. token \in Token
  <2>1. PICK p : p = [at |-> now, idp |-> idp]
    OBVIOUS
  <2>2. p \in past /\ p.at = now /\ p.idp = idp
    BY <2>1 DEF AuthInv, PastInv
  <2>. QED
    BY <1>4, <2>2, IssuedType DEF AuthInv
<1>6. PICK r : r = [q EXCEPT !.at = "exchanged", !.token = token]
  OBVIOUS
<1>7. /\ r \in Request /\ r.at = "exchanged" /\ r.token = token
      /\ r.started = q.started /\ r.kind = q.kind
  <2>1. "exchanged" \in Waiting \cup {"idle"} /\ token \in Token \cup {NoToken}
    BY <1>5 DEF Waiting
  <2>. QED
    BY <1>2, <1>6, <2>1 DEF Request
<1>8. /\ q.started <= now /\ now <= q.started + FetchTimeout /\ q.kind = "callback"
  BY <1>2 DEF RequestInv, Waiting
<1>9. Issued(token, r.started)
  <2>1. PICK p : p = [at |-> now, idp |-> idp]
    OBVIOUS
  <2>2. p \in past /\ p.at = now /\ p.idp = idp
    BY <2>1 DEF AuthInv, PastInv
  <2>3. r.started <= p.at /\ token = IssuedAt(u, p.idp, p.at)
    BY <1>4, <1>7, <1>8, <2>2
  <2>. QED
    BY <2>2, <2>3 DEF Issued
<1>10. RequestInv(r)
  BY <1>7, <1>8, <1>9 DEF RequestInv, Waiting
<1>. QED
  BY <1>3, <1>4, <1>6, <1>10, AwaitInv DEF Exchange

LEMMA ExchangedInv == ASSUME AuthInv, NEW c \in Clients, Exchanged(c) PROVE AuthInv'
<1>1. PICK r : r = request[c]
  OBVIOUS
<1>2. RequestInv(r) /\ r.at = "exchanged" /\ r \in Request /\ r.started \in Nat
  BY <1>1, Numbers DEF AuthInv, RequestInv, Request, Exchanged
<1>3. Issued(r.token, r.started) /\ now <= r.started + FetchTimeout /\ now \in Nat
  BY <1>2, Numbers DEF RequestInv, Waiting, AuthInv, PastInv
<1>4. Issued(r.token, now - FetchTimeout)
  <2>1. PICK u \in Users, p \in past : r.started <= p.at /\ r.token = IssuedAt(u, p.idp, p.at)
    BY <1>3 DEF Issued
  <2>2. r.started <= p.at /\ p.at \in Nat
    BY <2>1 DEF AuthInv, PastInv
  <2>3. now - FetchTimeout <= p.at
    BY <1>2, <1>3, <2>2, Numbers
  <2>. QED
    BY <2>1, <2>3 DEF Issued
<1>. QED
  BY <1>1, <1>2, <1>4, BeginValidationInv DEF Exchanged

LEMMA ExchangeFailsInv == ASSUME AuthInv, NEW c \in Clients, ExchangeFails(c) PROVE AuthInv'
<1>1. Truthful(request[c].token.kid, "callback", 502, "token_exchange_failed", None)
  BY DEF Truthful
<1>2. AnswerInv' /\ request' = [request EXCEPT ![c] = Idle]
  BY <1>1, ReplyInv DEF ExchangeFails
<1>3. Answered(c)
  BY <1>2, SessionsKept DEF ExchangeFails, Answered, AuthInv
<1>. QED
  BY <1>3, OthersKept, AnsweredInv DEF ExchangeFails

LEMMA ProviderSendsKeysInv ==
  ASSUME AuthInv, NEW c \in Clients, ProviderSendsKeys(c) PROVE AuthInv'
<1>1. PICK q : q = request[c]
  OBVIOUS
<1>2. RequestInv(q) /\ q.at = "jwks" /\ q \in Request
  BY <1>1 DEF AuthInv, RequestInv, ProviderSendsKeys
<1>3. PICK keys : keys = idp.keys
  OBVIOUS
<1>4. keys \subseteq Kids
  BY <1>3 DEF AuthInv, PastInv, Idp
<1>5. PICK r : r = [q EXCEPT !.at = "jwksAnswered", !.keys = keys]
  OBVIOUS
<1>6. /\ r \in Request /\ r.at = "jwksAnswered" /\ r.token = q.token
      /\ r.started = q.started /\ r.kind = q.kind /\ r.keys = keys
  <2>1. "jwksAnswered" \in Waiting \cup {"idle"}
    BY DEF Waiting
  <2>. QED
    BY <1>2, <1>4, <1>5, <2>1 DEF Request
<1>7. /\ q.started <= now /\ now <= q.started + FetchTimeout
  BY <1>2 DEF RequestInv, Waiting
<1>8. Published(keys, r.started)
  <2>1. PICK p : p = [at |-> now, idp |-> idp]
    OBVIOUS
  <2>2. p \in past /\ p.at = now /\ p.idp = idp
    BY <2>1 DEF AuthInv, PastInv
  <2>3. r.started <= p.at /\ p.idp.keys = keys
    BY <1>3, <1>6, <1>7, <2>2
  <2>. QED
    BY <2>2, <2>3 DEF Published
<1>9. r.kind = "callback" => Issued(r.token, r.started - FetchTimeout)
  BY <1>2, <1>6 DEF RequestInv
<1>10. RequestInv(r)
  BY <1>6, <1>7, <1>8, <1>9 DEF RequestInv, Waiting
<1>. QED
  BY <1>1, <1>3, <1>5, <1>10, AwaitInv DEF ProviderSendsKeys

LEMMA KeysArriveInv == ASSUME AuthInv, NEW c \in Clients, KeysArrive(c) PROVE AuthInv'
<1>1. PICK r : r = request[c]
  OBVIOUS
<1>2. RequestInv(r) /\ r.at = "jwksAnswered" /\ r \in Request
  BY <1>1 DEF AuthInv, RequestInv, KeysArrive
<1>3. PICK s \in Nat : s = r.started
  BY <1>2, Numbers DEF Request
<1>4. /\ Published(r.keys, s) /\ r.keys \subseteq Kids
      /\ r.kind = "callback" => Issued(r.token, s - FetchTimeout)
  BY <1>2, <1>3 DEF RequestInv, Request
<1>5. now \in Nat /\ now <= s + FetchTimeout
  BY <1>2, <1>3, Numbers DEF RequestInv, Waiting, AuthInv, PastInv
<1>6. KeysKnown(r.keys)
  <2>1. s \in Int /\ now < s + JwksTtl
    BY <1>5, Numbers
  <2>. QED
    BY <1>4, <2>1, PublishedIsKnown
<1>7. r.kind = "callback" => Issued(r.token, now - 2 * FetchTimeout)
  <2>1. ASSUME NEW p \in past, s - FetchTimeout <= p.at PROVE now - 2 * FetchTimeout <= p.at
    <3>1. p.at \in Nat
      BY DEF AuthInv, PastInv
    <3>. QED
      BY <1>5, <2>1, <3>1, Numbers
  <2>. QED
    BY <1>4, <2>1 DEF Issued
<1>8. Validate(c, r, r.keys) /\ NoWorld
  BY <1>1 DEF KeysArrive
<1>9. Answered(c)
  BY <1>2, <1>6, <1>7, <1>8, ValidateInv
<1>10. JwksInv'
  <2>1. jwks' = [keys |-> r.keys, expiry |-> s + JwksTtl]
    BY <1>1, <1>3 DEF KeysArrive, StoreKeys
  <2>2. jwks'.keys = r.keys /\ jwks'.expiry = s + JwksTtl
    BY <2>1
  <2>3. Published(r.keys, s)'
    BY <1>4, <1>8, PastGrows DEF NoWorld
  <2>4. s + JwksTtl \in Nat /\ (s + JwksTtl) - JwksTtl = s
    BY Numbers
  <2>. QED
    BY <1>4, <2>2, <2>3, <2>4 DEF JwksInv
<1>. QED
  BY <1>8, <1>9, <1>10, AnsweredInv

LEMMA KeysFailInv == ASSUME AuthInv, NEW c \in Clients, KeysFail(c) PROVE AuthInv'
<1>1. PICK r : r = request[c]
  OBVIOUS
<1>2. r.kind \in {"route", "callback"}
  BY <1>1 DEF AuthInv, Request
<1>3. Answered(c)
  BY <1>1, <1>2, RefuseInv DEF KeysFail
<1>. QED
  BY <1>3, OthersKept, AnsweredInv DEF KeysFail
-----------------------------------------------------------------------------
\* What the invariant asks of the past, the requests under way, the cached keys
\* and the sessions holds initially and survives every step.
LEMMA AuthInvStep == AuthInv /\ [Next]_vars => AuthInv'
<1>. SUFFICES ASSUME AuthInv, [Next]_vars PROVE AuthInv'
  OBVIOUS
<1>1. CASE Tick
  BY <1>1, TickInv
<1>2. CASE ProviderStep
  BY <1>2, ProviderStepInv
<1>3. CASE Restart
  BY <1>3, RestartInv
<1>4. ASSUME NEW c \in Clients, RequestStep(c) PROVE AuthInv'
  BY <1>4, ArriveInv, CallbackInv, ExchangeInv, ExchangedInv, ExchangeFailsInv,
     ProviderSendsKeysInv, KeysArriveInv, KeysFailInv DEF RequestStep
<1>5. CASE UNCHANGED vars
  <2>1. /\ NoWorld /\ UNCHANGED <<jwks, sessions, connectors, request>>
        /\ UNCHANGED <<answer, now, past>>
    BY <1>5 DEF vars, NoWorld
  <2>2. \A c \in Clients : RequestInv(request[c])'
    <3>. SUFFICES ASSUME NEW c \in Clients PROVE RequestInv(request[c])'
      OBVIOUS
    <3>1. PICK r : r = request[c]
      OBVIOUS
    <3>2. RequestInv(r)' /\ request'[c] = r
      BY <2>1, <3>1, OthersKept DEF AuthInv
    <3>. QED
      BY <3>2
  <2>3. AnswerInv'
    BY <2>1 DEF AuthInv, AnswerInv, AnswersFollowRotation, AdminsWereAdmins,
       SessionsShowLateRoles, Lately
  <2>. QED
    BY <2>1, <2>2, <2>3, OthersKept, SessionsKept DEF AuthInv
<1>. QED
  BY <1>1, <1>2, <1>3, <1>4, <1>5 DEF Next

LEMMA Invariance == Spec => []AuthInv
  BY InitInv, AuthInvStep, PTL DEF Spec

\* Every variable of auth-enterprise keeps its type.
THEOREM TypeCorrect == Spec => []TypeOK
<1>1. AuthInv => TypeOK
  BY DEF AuthInv, PastInv, RequestInv, Request, JwksInv, SessionInv, AnswerInv, TypeOK
<1>. QED
  BY <1>1, Invariance, PTL

\* A rotation of the provider's keys takes effect within the life of the key cache,
\* however the fetches of several requests overlap: fetchJWKS and validateToken.
THEOREM RotationFollowed == Spec => []AnswersFollowRotation
<1>1. AuthInv => AnswersFollowRotation
  BY DEF AuthInv, AnswerInv
<1>. QED
  BY <1>1, Invariance, PTL

\* Whoever an admin route lets in was an administrator at the provider within the
\* life of a token and the clock skew.
THEOREM AdminsOnly == Spec => []AdminsWereAdmins
<1>1. AuthInv => AdminsWereAdmins
  BY DEF AuthInv, AnswerInv
<1>. QED
  BY <1>1, Invariance, PTL

\* The roles that a session shows are those of its login, no older than the life of
\* a session and the two fetches of the callback.
THEOREM SessionsLate == Spec => []SessionsShowLateRoles
<1>1. AuthInv => SessionsShowLateRoles
  BY DEF AuthInv, AnswerInv
<1>. QED
  BY <1>1, Invariance, PTL
=============================================================================
