-------------------------------- MODULE Auth --------------------------------
(***************************************************************************)
(* plugins/auth-enterprise: the validation of the identity provider's      *)
(* tokens, the mapping of its groups to roles, the login callback and its  *)
(* sessions, the middleware before every request, and the admin routes.    *)
(*                                                                         *)
(* A request awaits the provider's token endpoint or its key endpoint; the *)
(* actions are the code between two awaits.  An answer says what was true  *)
(* at the provider when it was sent.  Time is counted in units that are    *)
(* coarse enough for a few of them to pass a TTL.                          *)
(*                                                                         *)
(* The provider and the host, which calls the middleware and then a route, *)
(* are external.  Requests that change and read nothing are left out: a    *)
(* callback without a code, a malformed cookie, a bypassed health check.   *)
(***************************************************************************)
EXTENDS Integers, FiniteSets, SequencesExt

CONSTANTS
  Users, Clients,          \* people, and the requests under way
  Kids,                    \* the signing keys of the provider
  Groups,                  \* the group memberships the provider may give
  Tenants, DefaultTenant,  \* tenants, and that of this gateway
  SeededConnectors,        \* the connectors put into the store at the start
  TokenTtl,                \* the life of a token, the provider's choice
  SessionTtl,              \* sessionTtlSeconds
  JwksTtl,                 \* JWKS_CACHE_TTL_MS
  ClockSkew,               \* clockSkewSeconds
  FetchTimeout,            \* when the runtime gives a fetch up
  MaxTime, MaxChanges, MaxSessions, MaxConnectors,  \* bounds
  None

VARIABLES
  now,        \* the clock
  idp,        \* the provider: published keys, signing key, groups of its users
  past,       \* history: what the provider was at each time
  jwks,       \* jwksCache and jwksCacheExpiry
  sessions,   \* the session store
  connectors, \* the connector store
  request,    \* the requests under way
  answer,     \* the answer that the last step gave to a request
  changes     \* changes at the provider and restarts so far

vars == <<now, idp, past, jwks, sessions, connectors, request, answer, changes>>

RoleHierarchy == <<"user", "team_lead", "org_admin", "enterprise_admin">>
Roles == ToSet(RoleHierarchy)

RoleMappings ==
  [g \in {"enterprise-admins", "org-admins", "team-leads", "users"} |->
     CASE g = "enterprise-admins" -> "enterprise_admin" [] g = "org-admins" -> "org_admin"
       [] g = "team-leads" -> "team_lead" [] g = "users" -> "user"]

Idp == [keys : SUBSET Kids, signer : Kids, groups : [Users -> Groups]]

\* An ID or access token.
Token == [user : Users, groups : Groups, kid : Kids, iat : 0..MaxTime]

UserContext == [userId : Users, roles : SUBSET Roles, tenantId : Tenants,
                policyScope : {"user", "team", "org", "enterprise"}]

ConnectorRecord == [id : 1..MaxConnectors, tenantId : Tenants, status : {"active", "disabled"}]

NoToken == [kid |-> None]

Idle == [at |-> "idle", kind |-> "route", token |-> NoToken, started |-> 0, keys |-> {}]

ASSUME AuthAssumption ==
  /\ DefaultTenant \in Tenants
  /\ SeededConnectors \subseteq ConnectorRecord
  /\ {TokenTtl, SessionTtl, JwksTtl, ClockSkew, FetchTimeout, MaxTime, MaxChanges,
      MaxSessions, MaxConnectors} \subseteq Nat
  /\ FetchTimeout < JwksTtl

Init ==
  /\ now = 0
  /\ idp \in {i \in Idp : i.keys = {i.signer}}
  /\ past = {[at |-> 0, idp |-> idp]}
  /\ jwks = [keys |-> {}, expiry |-> 0]
  /\ sessions = {}
  /\ connectors = SeededConnectors
  /\ request = [c \in Clients |-> Idle]
  /\ answer = None
  /\ changes = 0
-----------------------------------------------------------------------------
(* rbac/mapper.ts.                                                         *)

RoleRank(r) == CHOOSE i \in DOMAIN RoleHierarchy : RoleHierarchy[i] = r

MapClaimsToRoles(groups) ==
  LET matched == {RoleMappings[g] : g \in groups \cap DOMAIN RoleMappings} IN
  IF matched = {} THEN {"user"} ELSE matched

HighestRole(roles) == CHOOSE r \in roles : \A s \in roles : RoleRank(s) <= RoleRank(r)

PolicyScopeOf(role) ==
  CASE role = "enterprise_admin" -> "enterprise" [] role = "org_admin" -> "org"
    [] role = "team_lead" -> "team" [] role = "user" -> "user"

BuildUserContext(token) ==
  LET roles == MapClaimsToRoles(token.groups) IN
  [userId |-> token.user, roles |-> roles, tenantId |-> DefaultTenant,
   policyScope |-> PolicyScopeOf(HighestRole(roles))]
-----------------------------------------------------------------------------
(* The provider and the clock.                                             *)

Waiting == {"exchange", "exchanged", "jwks", "jwksAnswered"}

\* No fetch outlives the runtime's timeout.
Tick ==
  /\ now < MaxTime
  /\ \A c \in Clients : request[c].at \in Waiting => now < request[c].started + FetchTimeout
  /\ now' = now + 1
  /\ past' = past \cup {[at |-> now + 1, idp |-> idp]}
  /\ answer' = None
  /\ UNCHANGED <<idp, jwks, sessions, connectors, request, changes>>

ProviderChanges(new) ==
  /\ changes < MaxChanges
  /\ changes' = changes + 1
  /\ idp' = new
  /\ past' = past \cup {[at |-> now, idp |-> new]}
  /\ answer' = None
  /\ UNCHANGED <<now, jwks, sessions, connectors, request>>

\* The provider signs with another key; the old ones stay published, or are withdrawn.
Rotate(k, kept) ==
  k \notin idp.keys /\ ProviderChanges([idp EXCEPT !.keys = {k} \cup kept, !.signer = k])

Regroup(u, g) == idp.groups[u] # g /\ ProviderChanges([idp EXCEPT !.groups[u] = g])

\* The gateway restarts: what it kept was in memory.
Restart ==
  /\ changes < MaxChanges
  /\ changes' = changes + 1
  /\ jwks' = [keys |-> {}, expiry |-> 0]
  /\ sessions' = {}
  /\ connectors' = {}
  /\ request' = [c \in Clients |-> Idle] /\ answer' = None
  /\ UNCHANGED <<now, idp, past>>

\* A token the provider has made at some time.
IssuedAt(u, i, t) == [user |-> u, groups |-> i.groups[u], kid |-> i.signer, iat |-> t]
-----------------------------------------------------------------------------
(* Answers.                                                                *)

Await(c, r) == request' = [request EXCEPT ![c] = r] /\ answer' = None

Reply(c, r, route, status, reason, user) ==
  /\ request' = [request EXCEPT ![c] = Idle]
  /\ answer' = [route |-> route, kid |-> r.token.kid, status |-> status, reason |-> reason,
                user |-> user]

RequireAdmin(user) == user.roles \cap {"enterprise_admin", "org_admin"} # {}
RequireEnterpriseAdmin(user) == "enterprise_admin" \in user.roles

\* Mutant of CreateSession: the life of a session in milliseconds is taken for seconds.
CreateSessionForLong(c, r, user) ==
  /\ sessions' = sessions \cup
       {[id |-> Cardinality(sessions) + 1, userContext |-> user,
         expiresAt |-> now + 1000 * SessionTtl]}
  /\ Reply(c, r, "callback", 200, "", user)
  /\ UNCHANGED connectors

\* The end of the callback; ids are never used twice.
CreateSession(c, r, user) ==
  /\ sessions' = sessions \cup
       {[id |-> Cardinality(sessions) + 1, userContext |-> user, expiresAt |-> now + SessionTtl]}
  /\ Reply(c, r, "callback", 200, "", user)
  /\ UNCHANGED connectors

\* Mutant of Userinfo: an expired session is deleted, and answered all the same.
UserinfoAnyhow(c, r, id) ==
  /\ sessions' = {s \in sessions : s.id = id => now <= s.expiresAt}
  /\ \/ /\ \A s \in sessions : s.id # id
        /\ Reply(c, r, "userinfo", 401, "session_not_found", None)
     \/ \E s \in sessions : s.id = id /\ Reply(c, r, "userinfo", 200, "", s.userContext)
  /\ UNCHANGED connectors

\* A session is looked up by its id; an expired one is deleted when it is found.
Userinfo(c, r, id) ==
  /\ sessions' = {s \in sessions : s.id = id => now <= s.expiresAt}
  /\ \/ /\ \A s \in sessions : s.id # id
        /\ Reply(c, r, "userinfo", 401, "session_not_found", None)
     \/ \E s \in sessions :
          /\ s.id = id
          /\ IF now > s.expiresAt THEN Reply(c, r, "userinfo", 401, "session_expired", None)
             ELSE Reply(c, r, "userinfo", 200, "", s.userContext)
  /\ UNCHANGED connectors

Forbid(c, r, route) ==
  Reply(c, r, route, 403, "forbidden", None) /\ UNCHANGED <<sessions, connectors>>

\* The routes that only read: tenants and their status, the connectors of the
\* user's tenant, the metrics.
Read(c, r, route, user) ==
  Reply(c, r, route, 200, "", user) /\ UNCHANGED <<sessions, connectors>>

CreateConnector(c, r, user) ==
  \E id \in 1..MaxConnectors :
    /\ \A k \in connectors : k.id # id
    /\ connectors' = connectors \cup
         {[id |-> id, tenantId |-> user.tenantId, status |-> "active"]}
    /\ Reply(c, r, "createConnector", 201, "", user)
    /\ UNCHANGED sessions

\* Deleting disables, and only a connector of the user's tenant.
DeleteConnector(c, r, user, id) ==
  \/ /\ \A k \in connectors : k.id # id
     /\ Reply(c, r, "deleteConnector", 404, "not_found", None)
     /\ UNCHANGED <<sessions, connectors>>
  \/ \E k \in connectors :
       /\ k.id = id
       /\ IF k.tenantId # user.tenantId THEN Forbid(c, r, "deleteConnector")
          ELSE /\ connectors' = (connectors \ {k}) \cup {[k EXCEPT !.status = "disabled"]}
               /\ Reply(c, r, "deleteConnector", 200, "", user)
               /\ UNCHANGED sessions

\* The route that the validated token came with.
Handle(c, r, user) ==
  IF r.kind = "callback" THEN CreateSession(c, r, user)
  ELSE \/ \E id \in 1..MaxSessions : Userinfo(c, r, id)
       \/ IF RequireEnterpriseAdmin(user) THEN Read(c, r, "tenants", user)
          ELSE Forbid(c, r, "tenants")
       \/ /\ ~RequireAdmin(user)
          /\ Forbid(c, r, "connectors")
       \/ /\ RequireAdmin(user)
          /\ \/ Read(c, r, "connectors", user)
             \/ CreateConnector(c, r, user)
             \/ \E id \in 1..MaxConnectors : DeleteConnector(c, r, user, id)

Refuse(c, r, reason) ==
  Reply(c, r, r.kind, 401, reason, None) /\ UNCHANGED <<sessions, connectors>>
-----------------------------------------------------------------------------
(* oidc/validator.ts, hooks.ts.                                            *)

\* Mutant of Expired: the clock skew is granted twice.
ExpiredLate(token) == now > token.iat + TokenTtl + 2 * ClockSkew

Expired(token) == now > token.iat + TokenTtl + ClockSkew \/ token.iat > now + ClockSkew

\* validateToken once the keys are there, and what follows in the same step; the
\* signature and the issuer may be wrong.
ValidateToken(c, r, keys) ==
  IF r.token.kid \notin keys THEN Refuse(c, r, "no_matching_key")
  ELSE \/ Refuse(c, r, "invalid_token")
       \/ /\ ~Expired(r.token)
          /\ Handle(c, r, BuildUserContext(r.token))

\* The token of a request, which was made before the request came in, is looked at
\* only now.
Validate(c, r, keys) ==
  IF r.kind = "callback" THEN ValidateToken(c, r, keys)
  ELSE \E u \in Users, p \in past :
         /\ p.at <= r.started
         /\ ValidateToken(c, [r EXCEPT !.token = IssuedAt(u, p.idp, p.at)], keys)

\* fetchJWKS: the cached keys, or a fetch whose start is remembered.
BeginValidation(c, r) ==
  IF now < jwks.expiry THEN Validate(c, r, jwks.keys) /\ UNCHANGED jwks
  ELSE /\ Await(c, [r EXCEPT !.at = "jwks", !.started = now])
       /\ UNCHANGED <<jwks, sessions, connectors>>

NoWorld == UNCHANGED <<now, idp, past, changes>>

\* A request for a route arrives: the middleware wants a bearer token.
Arrive(c) ==
  /\ request[c].at = "idle"
  /\ \/ Refuse(c, request[c], "missing_token") /\ UNCHANGED jwks
     \/ BeginValidation(c, [request[c] EXCEPT !.started = now])
  /\ NoWorld

\* The callback sends the code to the token endpoint.
Callback(c) ==
  /\ request[c].at = "idle"
  /\ Cardinality(sessions) + Cardinality({d \in Clients : request[d].kind = "callback"})
       < MaxSessions
  /\ Await(c, [Idle EXCEPT !.at = "exchange", !.kind = "callback", !.started = now])
  /\ UNCHANGED <<jwks, sessions, connectors>> /\ NoWorld

\* The provider answers with a token, which then is on its way.
Exchange(c) ==
  /\ request[c].at = "exchange"
  /\ \E u \in Users :
       Await(c, [request[c] EXCEPT !.at = "exchanged", !.token = IssuedAt(u, idp, now)])
  /\ UNCHANGED <<jwks, sessions, connectors>> /\ NoWorld

Exchanged(c) ==
  /\ request[c].at = "exchanged"
  /\ BeginValidation(c, request[c])
  /\ NoWorld

\* The token endpoint cannot be reached, answers an error, or has no ID token.
ExchangeFails(c) ==
  /\ request[c].at \in {"exchange", "exchanged"}
  /\ Reply(c, request[c], "callback", 502, "token_exchange_failed", None)
  /\ UNCHANGED <<jwks, sessions, connectors>> /\ NoWorld

\* The provider answers with its keys, which then are on their way.
ProviderSendsKeys(c) ==
  /\ request[c].at = "jwks"
  /\ Await(c, [request[c] EXCEPT !.at = "jwksAnswered", !.keys = idp.keys])
  /\ UNCHANGED <<jwks, sessions, connectors>> /\ NoWorld

\* Mutant of StoreKeys: the life of the keys begins with their arrival.
StoreKeysOnArrival(c) ==
  jwks' = [keys |-> request[c].keys, expiry |-> now + JwksTtl]

\* The cache takes the keys of whichever fetch ends last; they live from the start
\* of that fetch.
StoreKeys(c) ==
  jwks' = [keys |-> request[c].keys, expiry |-> request[c].started + JwksTtl]

KeysArrive(c) ==
  /\ request[c].at = "jwksAnswered"
  /\ StoreKeys(c)
  /\ Validate(c, request[c], request[c].keys)
  /\ NoWorld

\* A key fetch that fails is an invalid token, too.
KeysFail(c) ==
  /\ request[c].at \in {"jwks", "jwksAnswered"}
  /\ Refuse(c, request[c], "invalid_token")
  /\ UNCHANGED jwks /\ NoWorld
-----------------------------------------------------------------------------
ProviderStep ==
  \/ \E k \in Kids, kept \in SUBSET idp.keys : Rotate(k, kept)
  \/ \E u \in Users, g \in Groups : Regroup(u, g)

RequestStep(c) ==
  \/ Arrive(c) \/ Callback(c) \/ Exchange(c) \/ Exchanged(c) \/ ExchangeFails(c)
  \/ ProviderSendsKeys(c) \/ KeysArrive(c) \/ KeysFail(c)

Next == Tick \/ ProviderStep \/ Restart \/ \E c \in Clients : RequestStep(c)

Spec == Init /\ [][Next]_vars
-----------------------------------------------------------------------------
(* What the code keeps.                                                    *)

\* Every variable has its type.
TypeOK ==
  /\ now \in 0..MaxTime
  /\ idp \in Idp /\ \A p \in past : p.at \in 0..now /\ p.idp \in Idp
  /\ jwks.keys \subseteq Kids /\ jwks.expiry \in Nat
  /\ \A s \in sessions : s.userContext \in UserContext /\ s.expiresAt \in 0..(now + SessionTtl)
  /\ connectors \subseteq ConnectorRecord
  /\ \A c \in Clients :
       /\ request[c].token = NoToken \/ request[c].token \in Token
       /\ request[c].at \in Waiting \cup {"idle"}
  /\ answer # None => answer.user = None \/ answer.user \in UserContext

\* The provider as it was in the last span time units.
Lately(span) == {p \in past : p.at \in (now - span)..now}

\* Key rotation takes effect within the life of the cache: a token is accepted only
\* if its key was published in that time, and is refused for its key only if it was not
\* published at some time of it, however the fetches of several requests overlap.
AnswersFollowRotation ==
  answer # None =>
    /\ answer.status \in {200, 201} =>
         \E p \in Lately(JwksTtl - 1) : answer.kid \in p.idp.keys
    /\ answer.reason = "no_matching_key" =>
         \E p \in Lately(JwksTtl - 1) : answer.kid \notin p.idp.keys

\* Whoever is let into an admin route had the admin role at the provider within the
\* life of a token and the clock skew.
AdminsWereAdmins ==
  answer # None /\ answer.status \in {200, 201} /\ answer.route \notin {"callback", "userinfo"} =>
    \E p \in Lately(TokenTtl + ClockSkew) :
      LET roles == MapClaimsToRoles(p.idp.groups[answer.user.userId]) IN
      IF answer.route = "tenants" THEN "enterprise_admin" \in roles
      ELSE roles \cap {"org_admin", "enterprise_admin"} # {}

\* A session shows the roles of the login: of a time no longer ago than the life of a
\* session and the two fetches of the callback.
SessionsShowLateRoles ==
  answer # None /\ answer.route = "userinfo" /\ answer.status = 200 =>
    \E p \in Lately(SessionTtl + 2 * FetchTimeout) :
      MapClaimsToRoles(p.idp.groups[answer.user.userId]) = answer.user.roles
=============================================================================
