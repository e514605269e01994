-------------------------- MODULE PolicyHierarchy --------------------------
(***************************************************************************)
(* The policy hierarchy of the policy engine: PolicyRoutes creates,        *)
(* updates and deprecates policies, PolicyHierarchyValidator admits a      *)
(* content below the scope above it, and PolicyHierarchyResolver merges    *)
(* the policies of a user's scopes into the effective policy.              *)
(*                                                                         *)
(* Requests interleave at their awaits: each action is the code between    *)
(* two of them.  The policy store and the audit log are external; a call   *)
(* of theirs takes effect and answers in one step, or rejects.  Nothing is *)
(* kept in the process, so a crash is the failure of what is under way.    *)
(***************************************************************************)
EXTENDS Naturals

CONSTANTS
  PolicyIds,       \* ids the store gives to policies
  Units, Domains,  \* scopeIds, and the domains of policies
  Fields,          \* keys of a policy's content
  Permissions,     \* what the values of the fields permit
  Bodies,          \* the policies the users may create
  Contents,        \* the contents they may write
  Chains,          \* the scope chains of the users
  InitialPolicies, \* the policies table when the requests begin
  None,            \* null and undefined
  MaxRequests,     \* bound: requests that change policies
  MaxResolutions   \* bound: calls of policy.resolve

Scopes == 1..4   \* enterprise, org, team, user

\* A parsed value by what it permits: a list its members, a flag something or
\* nothing, a limit the numbers up to it, a classification level the levels up
\* to it.  Of other text only its identity counts.
Value == [kind : {"list", "flag", "limit", "level", "text"}, permits : SUBSET Permissions]

Content == [Fields -> Value \cup {None}]
Place == [scope : Scopes, unit : Units, domain : Domains]
Body == [place : Place, content : Content]
Chain == [Scopes -> Units \cup {None}]

\* What a resolution has read of a policy.
Reading == [id : PolicyIds, content : Content]

\* checked is not in the code: see writes.
Policy ==
  [place : Place, content : Content, status : {"active", "deprecated"},
   checked : Nat \cup {None}]

ASSUME PolicyHierarchyAssumption ==
  /\ Bodies \subseteq Body
  /\ Contents \subseteq Content
  /\ Chains \subseteq Chain
  /\ InitialPolicies \in [PolicyIds -> Policy \cup {None}]
  /\ \A id \in PolicyIds :
       InitialPolicies[id] # None => InitialPolicies[id].checked = None
  /\ None \notin Value /\ None \notin Content /\ None \notin Policy /\ None \notin Reading
  /\ None \notin Place /\ None \notin PolicyIds /\ None \notin Units /\ None \notin Nat
  /\ MaxRequests \in Nat
  /\ MaxResolutions \in Nat

VARIABLES
  policies,        \* the policies table
  writes,          \* history: how often the policies of each scope were written
  requests,        \* createPolicy, updatePolicy and deprecatePolicy calls under way
  responses,       \* how the finished ones ended
  audit,           \* the policy_change entries of the audit log
  resolutions,     \* policy.resolve calls
  nextRequest, nextResolution

vars == <<policies, writes, requests, responses, audit, resolutions, nextRequest,
          nextResolution>>
store == <<policies, writes>>

Op == {"create", "update", "deprecate"}
Request ==
  [request : 1..MaxRequests, op : Op, pc : {"find", "validate", "store", "audit"},
   id : PolicyIds \cup {None}, place : Place \cup {None}, content : Content \cup {None},
   checked : Nat \cup {None}]
Response ==
  [request : 1..MaxRequests, op : Op, id : PolicyIds \cup {None},
   status : {"success", "not_found", "rejected", "error"}]
AuditEntry == [request : 1..MaxRequests, op : Op, id : PolicyIds]

\* level is the scope the loop is at.  read (the policies merged so far) holds
\* ResolvedPolicy.hierarchy; gone is history: what was deprecated at the start.
Resolution ==
  [resolution : 1..MaxResolutions, domain : Domains, chain : Chain, level : 1..5,
   effective : Content, gone : SUBSET PolicyIds,
   read : [Scopes -> Reading \cup {None}]]
-----------------------------------------------------------------------------
Init ==
  /\ policies = InitialPolicies
  /\ writes = [s \in Scopes |-> 0]
  /\ requests = {}
  /\ responses = {}
  /\ audit = {}
  /\ resolutions = {}
  /\ nextRequest = 1
  /\ nextResolution = 1
-----------------------------------------------------------------------------
(* The pure parts.                                                         *)

\* validator.ts: two values of one ordered kind are compared, others are not.
Within(parent, child) ==
  \A f \in Fields :
    /\ parent[f] # None /\ child[f] # None
    /\ parent[f].kind = child[f].kind
    /\ parent[f].kind # "text"
    => child[f].permits \subseteq parent[f].permits

\* The kinds that are merged: arrays, booleans and numbers.
Merged == {"list", "flag", "limit"}

\* Mutant: the lower scope's value replaces the higher one's.
MergeOverriding(parent, child) ==
  [f \in Fields |-> IF child[f] = None THEN parent[f] ELSE child[f]]

\* resolver.ts: mergeRestrictive: two arrays, booleans or numbers by what both
\* permit (intersection, AND, minimum); otherwise the child's value.
MergeRestrictive(parent, child) ==
  [f \in Fields |->
     IF child[f] = None THEN parent[f]
     ELSE IF /\ parent[f] # None
             /\ parent[f].kind = child[f].kind
             /\ child[f].kind \in Merged
       THEN [child[f] EXCEPT !.permits = @ \cap parent[f].permits]
     ELSE child[f]]

Exists(id) == policies[id] # None
IsActive(id) == Exists(id) /\ policies[id].status = "active"
IsDeprecated(id) == Exists(id) /\ policies[id].status = "deprecated"

\* findByFilter({ scope, status: 'active' }): of every domain and every unit.
ActiveAt(scope) == {id \in PolicyIds : IsActive(id) /\ policies[id].place.scope = scope}

\* The next await once the place is known: a content below the enterprise scope
\* is validated.  (An update with the empty string is not, but has nothing to
\* exceed.)
AwaitAfter(place, content) ==
  IF place.scope # 1 /\ content # None THEN "validate" ELSE "store"

Advance(r, s) == requests' = (requests \ {r}) \cup {s}

Respond(r, status) ==
  /\ requests' = requests \ {r}
  /\ responses' = responses \cup
       {[request |-> r.request, op |-> r.op, id |-> r.id, status |-> status]}
-----------------------------------------------------------------------------
(* Requests.                                                               *)

Begin(r) ==
  /\ nextRequest <= MaxRequests
  /\ requests' = requests \cup {r}
  /\ nextRequest' = nextRequest + 1
  /\ UNCHANGED <<store, responses, audit, resolutions, nextResolution>>

CreatePolicy(body) ==
  Begin([request |-> nextRequest, op |-> "create",
         pc |-> AwaitAfter(body.place, body.content), id |-> None,
         place |-> body.place, content |-> body.content, checked |-> None])

UpdatePolicy(id, content) ==
  Begin([request |-> nextRequest, op |-> "update", pc |-> "find", id |-> id,
         place |-> None, content |-> content, checked |-> None])

DeprecatePolicy(id) ==
  Begin([request |-> nextRequest, op |-> "deprecate", pc |-> "find", id |-> id,
         place |-> None, content |-> None, checked |-> None])

\* findById answers.
Found(r) ==
  /\ r.pc = "find"
  /\ Exists(r.id)
  /\ Advance(r, [r EXCEPT !.place = policies[r.id].place,
                          !.pc = AwaitAfter(policies[r.id].place, r.content)])
  /\ UNCHANGED <<store, responses, audit, resolutions, nextRequest, nextResolution>>

NotFound(r) ==
  /\ r.pc = "find"
  /\ ~Exists(r.id)
  /\ Respond(r, "not_found")
  /\ UNCHANGED <<store, audit, resolutions, nextRequest, nextResolution>>

Ceilings(r) == ActiveAt(r.place.scope - 1)

\* Mutant: the filter forgets the status.
AdmitBelowAnyStatus(r) ==
  /\ r.pc = "validate"
  /\ \/ Ceilings(r) = {}
     \/ \E first \in PolicyIds :
          /\ Exists(first)
          /\ policies[first].place.scope = r.place.scope - 1
          /\ Within(policies[first].content, r.content)
  /\ Advance(r, [r EXCEPT !.pc = "store", !.checked = writes[r.place.scope - 1]])
  /\ UNCHANGED <<store, responses, audit, resolutions, nextRequest, nextResolution>>

\* findByFilter answers, and the content does not exceed the first policy found:
\* any one, the order is the store's.
Admit(r) ==
  /\ r.pc = "validate"
  /\ \/ Ceilings(r) = {}
     \/ \E first \in Ceilings(r) : Within(policies[first].content, r.content)
  /\ Advance(r, [r EXCEPT !.pc = "store", !.checked = writes[r.place.scope - 1]])
  /\ UNCHANGED <<store, responses, audit, resolutions, nextRequest, nextResolution>>

\* It exceeds the first one: POLICY_HIERARCHY_VIOLATION.
Reject(r) ==
  /\ r.pc = "validate"
  /\ \E first \in Ceilings(r) : ~Within(policies[first].content, r.content)
  /\ Respond(r, "rejected")
  /\ UNCHANGED <<store, audit, resolutions, nextRequest, nextResolution>>

\* The store writes the policy, and the write is to be audited.
Write(r, id, policy) ==
  /\ policies' = [policies EXCEPT ![id] = policy]
  /\ writes' = [writes EXCEPT ![r.place.scope] = @ + 1]
  /\ Advance(r, [r EXCEPT !.pc = "audit", !.id = id])
  /\ UNCHANGED <<responses, audit, resolutions, nextRequest, nextResolution>>

StoreCreate(r, id) ==
  /\ r.pc = "store" /\ r.op = "create"
  /\ ~Exists(id)
  /\ Write(r, id, [place |-> r.place, content |-> r.content, status |-> "active",
                   checked |-> r.checked])

\* Mutant: an update writes the whole row, and its status is active again.
UpdatedAsFound(p, r) ==
  [place |-> p.place, content |-> IF r.content = None THEN p.content ELSE r.content,
   status |-> "active", checked |-> IF r.content = None THEN p.checked ELSE r.checked]

\* Mutant: a content that is not given is written too.
UpdatedWithAbsent(p, r) == [p EXCEPT !.content = r.content, !.checked = r.checked]

\* The columns that are given are written.  The status never is: updatePolicy
\* does not pass it on.
Updated(p, r) ==
  IF r.content = None THEN p
                      ELSE [p EXCEPT !.content = r.content, !.checked = r.checked]

StoreUpdate(r) ==
  /\ r.pc = "store" /\ r.op = "update"
  /\ Write(r, r.id, Updated(policies[r.id], r))

StoreDeprecate(r) ==
  /\ r.pc = "store" /\ r.op = "deprecate"
  /\ Write(r, r.id, [policies[r.id] EXCEPT !.status = "deprecated"])

\* Mutant: the answer does not wait for audit.log.
AuditNotAwaited(r) ==
  /\ r.pc = "audit"
  /\ Respond(r, "success")
  /\ UNCHANGED <<store, audit, resolutions, nextRequest, nextResolution>>

AuditLogged(r) ==
  /\ r.pc = "audit"
  /\ audit' = audit \cup {[request |-> r.request, op |-> r.op, id |-> r.id]}
  /\ Respond(r, "success")
  /\ UNCHANGED <<store, resolutions, nextRequest, nextResolution>>

\* Mutant: the request ends without an answer.
RequestVanishes(r) ==
  /\ requests' = requests \ {r}
  /\ UNCHANGED <<store, responses, audit, resolutions, nextRequest, nextResolution>>

\* A call of the store or of the audit log rejects, or the process ends.  What is
\* written stays.
RequestFails(r) ==
  /\ Respond(r, "error")
  /\ UNCHANGED <<store, audit, resolutions, nextRequest, nextResolution>>
-----------------------------------------------------------------------------
(* policy.resolve.                                                         *)

Nothing == [f \in Fields |-> None]

\* lookupScopeChain answers.
Resolve(domain, chain) ==
  /\ nextResolution <= MaxResolutions
  /\ nextResolution' = nextResolution + 1
  /\ resolutions' = resolutions \cup
       {[resolution |-> nextResolution, domain |-> domain, chain |-> chain, level |-> 1,
         effective |-> Nothing, gone |-> {id \in PolicyIds : IsDeprecated(id)},
         read |-> [s \in Scopes |-> None]]}
  /\ UNCHANGED <<store, requests, responses, audit, nextRequest>>

\* The policies fetchPolicies may answer with at this level.
Fetched(r) ==
  {id \in PolicyIds :
     /\ Exists(id)
     /\ policies[id].place = [scope |-> r.level, unit |-> r.chain[r.level],
                              domain |-> r.domain]}

\* No unit at this scope, no policy, or one that is not active.
PassOver(r) ==
  /\ r.level \in Scopes
  /\ \/ r.chain[r.level] = None
     \/ Fetched(r) = {}
     \/ \E id \in Fetched(r) : ~IsActive(id)
  /\ resolutions' = (resolutions \ {r}) \cup {[r EXCEPT !.level = @ + 1]}
  /\ UNCHANGED <<store, requests, responses, audit, nextRequest, nextResolution>>

\* The effective policy with one more policy below it: the enterprise's is the base.
Restricted(r, content) ==
  IF r.level = 1 THEN content ELSE MergeRestrictive(r.effective, content)

MergePolicy(r, id) ==
  /\ r.level \in Scopes
  /\ r.chain[r.level] # None
  /\ id \in Fetched(r)
  /\ IsActive(id)
  /\ resolutions' = (resolutions \ {r}) \cup
       {[r EXCEPT !.level = @ + 1,
                  !.effective = Restricted(r, policies[id].content),
                  !.read[r.level] = [id |-> id, content |-> policies[id].content]]}
  /\ UNCHANGED <<store, requests, responses, audit, nextRequest, nextResolution>>

\* fetchPolicies rejects: the caller gets no policy.
ResolveFails(r) ==
  /\ r.level \in Scopes
  /\ resolutions' = resolutions \ {r}
  /\ UNCHANGED <<store, requests, responses, audit, nextRequest, nextResolution>>

BeginRequest ==
  \/ \E body \in Bodies : CreatePolicy(body)
  \/ \E id \in PolicyIds, content \in Contents \cup {None} : UpdatePolicy(id, content)
  \/ \E id \in PolicyIds : DeprecatePolicy(id)

Step(r) ==
  \/ Found(r)
  \/ NotFound(r)
  \/ Admit(r)
  \/ Reject(r)
  \/ \E id \in PolicyIds : StoreCreate(r, id)
  \/ StoreUpdate(r)
  \/ StoreDeprecate(r)
  \/ AuditLogged(r)
  \/ RequestFails(r)

ResolveStep(r) ==
  \/ PassOver(r)
  \/ \E id \in PolicyIds : MergePolicy(r, id)
  \/ ResolveFails(r)

Next ==
  \/ BeginRequest
  \/ \E r \in requests : Step(r)
  \/ \E domain \in Domains, chain \in Chains : Resolve(domain, chain)
  \/ \E r \in resolutions : ResolveStep(r)

Spec == Init /\ [][Next]_vars
-----------------------------------------------------------------------------
(* What the code keeps.                                                    *)

\* Every variable has its type.
TypeOK ==
  /\ policies \in [PolicyIds -> Policy \cup {None}]
  /\ writes \in [Scopes -> Nat]
  /\ requests \subseteq Request
  /\ responses \subseteq Response
  /\ audit \subseteq AuditEntry
  /\ resolutions \subseteq Resolution
  /\ nextRequest \in 1..(MaxRequests + 1)
  /\ nextResolution \in 1..(MaxResolutions + 1)

\* The scopes whose policy a resolution has merged and that sets the field.
Setting(r, f) == {s \in Scopes : r.read[s] # None /\ r.read[s].content[f] # None}

\* The effective value permits nothing that the value of a policy in Setting denies.
NoWider(r, f) ==
  \A s \in Setting(r, f) :
    /\ r.effective[f] # None
    /\ r.effective[f].permits \subseteq r.read[s].content[f].permits

\* "Lower scopes restrict, never expand": where all the policies read give a
\* field an array, all a boolean or all a number, the effective value stays
\* within every one of them, however the policies change during the resolution.
EffectiveWithinChain ==
  \A r \in resolutions, f \in Fields :
    (\E kind \in Merged : \A s \in Setting(r, f) : r.read[s].content[f].kind = kind)
      => NoWider(r, f)

\* "Cannot be re-activated": no request, also not an update that found the
\* policy active and is stored after the deprecation, brings a policy back.
DeprecatedIsFinal ==
  [][\A id \in PolicyIds : IsDeprecated(id) => IsDeprecated(id)']_vars

\* "No longer enforced": a resolution that begins after a deprecation does not
\* merge that policy.
DeprecatedIsNotEnforced ==
  \A r \in resolutions, s \in Scopes : r.read[s] # None => r.read[s].id \notin r.gone

\* A change answered with success is in the audit log, the policy it names
\* exists, and a deprecation is still in force.
AcknowledgedIsAudited ==
  \A r \in responses : r.status = "success" =>
    /\ [request |-> r.request, op |-> r.op, id |-> r.id] \in audit
    /\ Exists(r.id)
    /\ r.op = "deprecate" => IsDeprecated(r.id)

\* A request has logged the change, still awaits audit.log, or got an error.
AccountedFor(op, id) ==
  \/ \E e \in audit : e.op = op /\ e.id = id
  \/ \E r \in requests : r.op = op /\ r.id = id /\ r.pc = "audit"
  \/ \E r \in responses : r.op = op /\ r.id = id /\ r.status = "error"

\* No policy is created or deprecated without an entry and without a caller who got
\* an error for it, although the store is written before audit.log may reject.
UnloggedIsReported ==
  \A id \in PolicyIds :
    /\ Exists(id) /\ InitialPolicies[id] = None => AccountedFor("create", id)
    /\ IsDeprecated(id) =>
         \/ AccountedFor("deprecate", id)
         \/ InitialPolicies[id] # None /\ InitialPolicies[id].status = "deprecated"

\* No field of the lower content is wider than the same kind of value above it.
Exceeds(lower, upper) ==
  \E f \in Fields :
    /\ lower[f] # None /\ upper[f] # None
    /\ lower[f].kind = upper[f].kind
    /\ lower[f].kind # "text"
    /\ ~(lower[f].permits \subseteq upper[f].permits)

\* An active policy does not exceed every policy of the scope above it, so not
\* the only one, as long as none was written there since its content was
\* validated: however many requests are validated and stored in between.
WithinSomeCeiling ==
  \A id \in PolicyIds :
    LET above == policies[id].place.scope - 1
    IN  /\ IsActive(id)
        /\ policies[id].place.scope # 1
        /\ policies[id].checked = writes[above]
        /\ ActiveAt(above) # {}
        => \E c \in ActiveAt(above) : ~Exceeds(policies[id].content, policies[c].content)
-----------------------------------------------------------------------------
(* The inductive invariant.                                                *)

\* What a request knows at each of its awaits.
RequestIsFound(r) ==
  /\ r.op = "create" => r.pc # "find" /\ r.content # None
  /\ r.op # "create" \/ r.pc = "audit" => r.id # None
  /\ r.pc # "find" => r.place # None
  /\ r.pc = "validate" => r.place.scope # 1 /\ r.content # None
  /\ r.op # "create" /\ r.pc # "find" => Exists(r.id) /\ policies[r.id].place = r.place
  /\ r.pc = "audit" => Exists(r.id)
  /\ r.pc = "audit" /\ r.op = "deprecate" => IsDeprecated(r.id)

RequestsAreFound == \A r \in requests : RequestIsFound(r)

\* A content was validated against what its parent scope held by then.
CheckedBefore(place, checked) ==
  checked # None => place # None /\ place.scope # 1 /\ checked <= writes[place.scope - 1]

NotOutdated(place, checked) == checked # None /\ checked = writes[place.scope - 1]

BelowSomeCeiling(place, content) ==
  ActiveAt(place.scope - 1) = {}
    \/ \E c \in ActiveAt(place.scope - 1) : ~Exceeds(content, policies[c].content)

IsChecked(place, content, checked) ==
  /\ CheckedBefore(place, checked)
  /\ NotOutdated(place, checked) => BelowSomeCeiling(place, content)

ContentsAreChecked ==
  /\ \A r \in requests :
       /\ r.pc = "find" => r.checked = None
       /\ r.pc = "store" => IsChecked(r.place, r.content, r.checked)
  /\ \A id \in PolicyIds : Exists(id) =>
       IsChecked(policies[id].place, policies[id].content, policies[id].checked)

\* The effective policy sets the fields that a policy read sets, and where these
\* agree on a merged kind it has that kind and is within each of them.
IsMerge(r) ==
  /\ \A s \in Scopes : s >= r.level => r.read[s] = None
  /\ \A f \in Fields :
       /\ r.effective[f] # None <=> Setting(r, f) # {}
       /\ \A kind \in Merged :
            (\A s \in Setting(r, f) : r.read[s].content[f].kind = kind) =>
              \A s \in Setting(r, f) :
                /\ r.effective[f].kind = kind
                /\ r.effective[f].permits \subseteq r.read[s].content[f].permits

EffectiveIsMerge == \A r \in resolutions : IsMerge(r)

GoneIsDeprecated == \A r \in resolutions : \A id \in r.gone : IsDeprecated(id)

HierarchyInv ==
  /\ RequestsAreFound
  /\ ContentsAreChecked
  /\ EffectiveIsMerge
  /\ GoneIsDeprecated
  /\ DeprecatedIsNotEnforced
  /\ AcknowledgedIsAudited
  /\ UnloggedIsReported
=============================================================================
