----------------------- MODULE PolicyHierarchyProofs -----------------------
(* Theorems about PolicyHierarchy, for any tables, contents and bounds.    *)
EXTENDS PolicyHierarchy, TLAPS

\* A place and a content decide where a request waits.
LEMMA AwaitType ==
  ASSUME NEW place, NEW content
  PROVE  AwaitAfter(place, content) \in {"validate", "store"}
  BY DEF AwaitAfter

\* A finished request leaves requests and responses with their types.
LEMMA RespondType ==
  ASSUME TypeOK, NEW r \in requests,
         NEW status \in {"success", "not_found", "rejected", "error"}, Respond(r, status)
  PROVE  requests' \subseteq Request /\ responses' \subseteq Response
<1>1. r \in Request
  BY DEF TypeOK
<1>2. [request |-> r.request, op |-> r.op, id |-> r.id, status |-> status] \in Response
  BY <1>1 DEF Request, Response
<1>. QED
  BY <1>2 DEF Respond, TypeOK

\* A value restricted by another is a value of its kind, within both.
LEMMA RestrictType ==
  ASSUME NEW v \in Value, NEW w \in Value
  PROVE  LET m == [v EXCEPT !.permits = @ \cap w.permits]
         IN  /\ m \in Value
             /\ m.kind = v.kind
             /\ m.permits = v.permits \cap w.permits
<1>. DEFINE m == [kind |-> v.kind, permits |-> v.permits \cap w.permits]
<1>1. v.permits \cap w.permits \in SUBSET Permissions
  BY DEF Value
<1>2. m \in Value
  BY <1>1 DEF Value
<1>3. [v EXCEPT !.permits = @ \cap w.permits] = m
  BY DEF Value
<1>. QED
  BY <1>2, <1>3

\* Merging keeps a content a content.
LEMMA MergeType ==
  ASSUME NEW parent \in Content, NEW child \in Content
  PROVE  MergeRestrictive(parent, child) \in Content
<1>1. ASSUME NEW f \in Fields, child[f] # None, parent[f] # None
      PROVE  [child[f] EXCEPT !.permits = @ \cap parent[f].permits] \in Value
  BY <1>1, RestrictType DEF Content
<1>2. ASSUME NEW f \in Fields
      PROVE  MergeRestrictive(parent, child)[f] \in Value \cup {None}
  <2>1. child[f] \in Value \cup {None} /\ parent[f] \in Value \cup {None}
    BY DEF Content
  <2>2. CASE child[f] # None /\ parent[f] # None
    BY <1>1, <2>1, <2>2 DEF MergeRestrictive
  <2>. QED
    BY <2>1, <2>2 DEF MergeRestrictive
<1>. QED
  BY <1>2 DEF MergeRestrictive, Content

\* What a request writes is a policy.
LEMMA WrittenType ==
  ASSUME TypeOK, RequestsAreFound, NEW r \in requests, r.pc = "store"
  PROVE  /\ r.place \in Place
         /\ r.op = "create" =>
              [place |-> r.place, content |-> r.content, status |-> "active",
               checked |-> r.checked] \in Policy
         /\ r.op = "update" =>
              r.id \in PolicyIds /\ policies[r.id] \in Policy
                /\ Updated(policies[r.id], r) \in Policy
         /\ r.op = "deprecate" =>
              r.id \in PolicyIds /\ policies[r.id] \in Policy
                /\ [policies[r.id] EXCEPT !.status = "deprecated"] \in Policy
<1>1. r \in Request /\ r.place \in Place
  BY DEF TypeOK, RequestsAreFound, RequestIsFound, Request
<1>2. r.op = "create" => r.content \in Content
  BY <1>1 DEF RequestsAreFound, RequestIsFound, Request
<1>3. r.op # "create" => r.id \in PolicyIds /\ policies[r.id] \in Policy
  BY <1>1 DEF TypeOK, RequestsAreFound, RequestIsFound, Request, Exists
<1>4. r.op = "update" => Updated(policies[r.id], r) \in Policy
  <2>1. CASE r.content = None
    BY <1>3, <2>1 DEF Updated
  <2>2. CASE r.content # None /\ r.op = "update"
    <3>1. r.content \in Content /\ r.checked \in Nat \cup {None}
      BY <1>1, <2>2 DEF Request
    <3>2. Updated(policies[r.id], r)
            = [policies[r.id] EXCEPT !.content = r.content, !.checked = r.checked]
      BY <2>2 DEF Updated
    <3>. QED
      BY <1>3, <2>2, <3>1, <3>2 DEF Policy
  <2>. QED
    BY <2>1, <2>2
<1>. QED
  BY <1>1, <1>2, <1>3, <1>4 DEF Policy, Request

\* Init has the types.
LEMMA Types == Init => TypeOK
  BY PolicyHierarchyAssumption DEF Init, TypeOK, Scopes

\* A write of a policy keeps the types.
LEMMA WriteType ==
  ASSUME TypeOK, NEW r \in requests, r.place \in Place, NEW id \in PolicyIds,
         NEW policy \in Policy, Write(r, id, policy)
  PROVE  TypeOK'
<1>1. r \in Request
  BY DEF TypeOK
<1>2. [r EXCEPT !.pc = "audit", !.id = id] \in Request
  BY <1>1 DEF Request
<1>3. writes' \in [Scopes -> Nat]
  BY DEF Write, TypeOK, Place
<1>4. policies' \in [PolicyIds -> Policy \cup {None}]
  BY DEF Write, TypeOK
<1>. QED
  BY <1>2, <1>3, <1>4 DEF Write, Advance, TypeOK

\* So does a request that goes on to its next await.
LEMMA AdvanceType ==
  ASSUME TypeOK, NEW r \in requests, NEW s \in Request, Advance(r, s),
         UNCHANGED <<store, responses, audit, resolutions, nextRequest, nextResolution>>
  PROVE  TypeOK'
  BY DEF TypeOK, Advance, store

\* And a resolution that goes on.
LEMMA ResolutionType ==
  ASSUME TypeOK, NEW r \in resolutions, NEW s \in Resolution,
         resolutions' = (resolutions \ {r}) \cup {s},
         UNCHANGED <<store, requests, responses, audit, nextRequest, nextResolution>>
  PROVE  TypeOK'
  BY DEF TypeOK, store

\* And a new request.
LEMMA BeginType ==
  ASSUME TypeOK, NEW op \in Op, NEW pc \in {"find", "validate", "store"},
         NEW id \in PolicyIds \cup {None}, NEW place \in Place \cup {None},
         NEW content \in Content \cup {None},
         Begin([request |-> nextRequest, op |-> op, pc |-> pc, id |-> id,
                place |-> place, content |-> content, checked |-> None])
  PROVE  TypeOK'
<1>1. nextRequest \in 1..MaxRequests /\ nextRequest' \in 1..(MaxRequests + 1)
  BY PolicyHierarchyAssumption DEF Begin, TypeOK
<1>2. [request |-> nextRequest, op |-> op, pc |-> pc, id |-> id,
       place |-> place, content |-> content, checked |-> None] \in Request
  BY <1>1 DEF Request
<1>. QED
  BY <1>1, <1>2 DEF Begin, TypeOK, store

\* The next state has the types.
LEMMA TypesPreserved ==
  ASSUME TypeOK, RequestsAreFound, [Next]_vars
  PROVE  TypeOK'
<1>. USE PolicyHierarchyAssumption
<1>1. ASSUME NEW body \in Bodies, CreatePolicy(body)
      PROVE  TypeOK'
  BY <1>1, AwaitType, BeginType DEF CreatePolicy, Body, Op
<1>2. ASSUME NEW id \in PolicyIds, NEW content \in Contents \cup {None},
             UpdatePolicy(id, content)
      PROVE  TypeOK'
  BY <1>2, BeginType DEF UpdatePolicy, Op
<1>3. ASSUME NEW id \in PolicyIds, DeprecatePolicy(id)
      PROVE  TypeOK'
  BY <1>3, BeginType DEF DeprecatePolicy, Op
<1>4. ASSUME NEW r \in requests, Found(r)
      PROVE  TypeOK'
  <2>1. r \in Request /\ policies[r.id] \in Policy
    BY <1>4 DEF TypeOK, RequestsAreFound, RequestIsFound, Found, Exists, Request
  <2>2. [r EXCEPT !.place = policies[r.id].place,
                  !.pc = AwaitAfter(policies[r.id].place, r.content)] \in Request
    <3>1. policies[r.id].place \in Place
      BY <2>1 DEF Policy
    <3>2. AwaitAfter(policies[r.id].place, r.content) \in {"validate", "store"}
      BY AwaitType
    <3>. QED
      BY <2>1, <3>1, <3>2 DEF Request
  <2>. QED
    BY <1>4, <2>2, AdvanceType DEF Found
<1>5. ASSUME NEW r \in requests, NotFound(r) \/ Reject(r) \/ RequestFails(r)
      PROVE  TypeOK'
  BY <1>5, RespondType DEF TypeOK, NotFound, Reject, RequestFails, store
<1>6. ASSUME NEW r \in requests, Admit(r)
      PROVE  TypeOK'
  <2>1. r \in Request /\ r.place \in Place /\ r.place.scope # 1
    BY <1>6 DEF TypeOK, RequestsAreFound, RequestIsFound, Request, Admit
  <2>2. r.place.scope - 1 \in Scopes
    BY <2>1 DEF Place, Scopes
  <2>3. writes[r.place.scope - 1] \in Nat
    BY <2>2 DEF TypeOK
  <2>4. [r EXCEPT !.pc = "store", !.checked = writes[r.place.scope - 1]] \in Request
    BY <2>1, <2>3 DEF Request
  <2>. QED
    BY <1>6, <2>4, AdvanceType DEF Admit
<1>7. ASSUME NEW r \in requests, NEW id \in PolicyIds, StoreCreate(r, id)
      PROVE  TypeOK'
  BY <1>7, WrittenType, WriteType DEF StoreCreate
<1>8. ASSUME NEW r \in requests, StoreUpdate(r)
      PROVE  TypeOK'
  BY <1>8, WrittenType, WriteType DEF StoreUpdate
<1>9. ASSUME NEW r \in requests, StoreDeprecate(r)
      PROVE  TypeOK'
  BY <1>9, WrittenType, WriteType DEF StoreDeprecate
<1>10. ASSUME NEW r \in requests, AuditLogged(r)
       PROVE  TypeOK'
  <2>1. r \in Request /\ r.id \in PolicyIds
    BY <1>10 DEF TypeOK, RequestsAreFound, RequestIsFound, Request, AuditLogged
  <2>2. [request |-> r.request, op |-> r.op, id |-> r.id] \in AuditEntry
    BY <2>1 DEF Request, AuditEntry
  <2>. QED
    BY <1>10, <2>2, RespondType DEF AuditLogged, TypeOK, store
<1>11. ASSUME NEW domain \in Domains, NEW chain \in Chains, Resolve(domain, chain)
       PROVE  TypeOK'
  <2>1. nextResolution \in 1..MaxResolutions /\ nextResolution' \in 1..(MaxResolutions + 1)
    BY <1>11 DEF TypeOK, Resolve
  <2>2. Nothing \in Content
    BY DEF Nothing, Content
  <2>3. [resolution |-> nextResolution, domain |-> domain, chain |-> chain, level |-> 1,
         effective |-> Nothing, gone |-> {id \in PolicyIds : IsDeprecated(id)},
         read |-> [s \in Scopes |-> None]] \in Resolution
    BY <2>1, <2>2 DEF Resolution
  <2>. QED
    BY <1>11, <2>1, <2>3 DEF TypeOK, Resolve, store
<1>12. ASSUME NEW r \in resolutions, PassOver(r)
       PROVE  TypeOK'
  <2>1. r \in Resolution /\ r.level + 1 \in 1..5
    BY <1>12 DEF TypeOK, PassOver, Scopes
  <2>2. [r EXCEPT !.level = @ + 1] \in Resolution
    BY <2>1 DEF Resolution
  <2>. QED
    BY <1>12, <2>2, ResolutionType DEF PassOver
<1>13. ASSUME NEW r \in resolutions, NEW id \in PolicyIds, MergePolicy(r, id)
       PROVE  TypeOK'
  <2>1. r \in Resolution /\ r.level \in Scopes /\ r.level + 1 \in 1..5
    BY <1>13 DEF TypeOK, MergePolicy, Scopes
  <2>2. policies[id].content \in Content
    BY <1>13 DEF TypeOK, MergePolicy, IsActive, Exists, Policy
  <2>3. Restricted(r, policies[id].content) \in Content
    BY <2>1, <2>2, MergeType DEF Restricted, Resolution
  <2>4. [r.read EXCEPT ![r.level] = [id |-> id, content |-> policies[id].content]]
          \in [Scopes -> Reading \cup {None}]
    BY <2>1, <2>2 DEF Resolution, Reading
  <2>5. [r EXCEPT !.level = @ + 1,
                  !.effective = Restricted(r, policies[id].content),
                  !.read[r.level] = [id |-> id, content |-> policies[id].content]]
          \in Resolution
    BY <2>1, <2>3, <2>4 DEF Resolution
  <2>. QED
    BY <1>13, <2>5, ResolutionType DEF MergePolicy
<1>14. ASSUME NEW r \in resolutions, ResolveFails(r)
       PROVE  TypeOK'
  BY <1>14 DEF TypeOK, ResolveFails, store
<1>15. CASE UNCHANGED vars
  BY <1>15 DEF TypeOK, vars
<1>. QED
  BY <1>1, <1>2, <1>3, <1>4, <1>5, <1>6, <1>7, <1>8, <1>9, <1>10, <1>11, <1>12,
     <1>13, <1>14, <1>15 DEF Next, BeginRequest, Step, ResolveStep

\* A write keeps the other policies, and the place and a deprecation of its own.
LEMMA WriteKeeps ==
  ASSUME TypeOK, NEW r \in requests, NEW id \in PolicyIds, NEW policy \in Policy,
         Write(r, id, policy),
         Exists(id) => policy.place = policies[id].place,
         IsDeprecated(id) => policy.status = "deprecated"
  PROVE  \A p \in PolicyIds :
           /\ Exists(p) => Exists(p)' /\ policies'[p].place = policies[p].place
           /\ IsDeprecated(p) => IsDeprecated(p)'
<1>1. policies' = [policies EXCEPT ![id] = policy] /\ policy # None
  BY PolicyHierarchyAssumption DEF Write
<1>2. policies'[id] = policy /\ \A p \in PolicyIds : p # id => policies'[p] = policies[p]
  BY <1>1 DEF TypeOK
<1>. QED
  BY <1>1, <1>2 DEF Exists, IsDeprecated

\* What a request writes keeps the place and a deprecation.
LEMMA WrittenKeeps ==
  ASSUME TypeOK, RequestsAreFound, NEW r \in requests, r.pc = "store"
  PROVE  /\ r.op = "update" =>
              /\ Updated(policies[r.id], r).place = policies[r.id].place
              /\ Updated(policies[r.id], r).status = policies[r.id].status
         /\ r.op = "deprecate" =>
              LET p == [policies[r.id] EXCEPT !.status = "deprecated"]
              IN  p.place = policies[r.id].place /\ p.status = "deprecated"
  BY WrittenType DEF Updated, Policy

\* No step removes a policy, moves it or brings it back.
LEMMA TableGrows ==
  ASSUME TypeOK, RequestsAreFound, [Next]_vars
  PROVE  \A p \in PolicyIds :
           /\ Exists(p) => Exists(p)' /\ policies'[p].place = policies[p].place
           /\ IsDeprecated(p) => IsDeprecated(p)'
<1>. DEFINE Kept ==
       \A p \in PolicyIds :
         /\ Exists(p) => Exists(p)' /\ policies'[p].place = policies[p].place
         /\ IsDeprecated(p) => IsDeprecated(p)'
<1>1. ASSUME UNCHANGED policies
      PROVE  Kept
  BY <1>1 DEF Exists, IsDeprecated
<1>2. ASSUME NEW r \in requests, NEW id \in PolicyIds, StoreCreate(r, id)
      PROVE  Kept
  BY <1>2, WrittenType, WriteKeeps DEF StoreCreate, IsDeprecated
<1>3. ASSUME NEW r \in requests, StoreUpdate(r)
      PROVE  Kept
  BY <1>3, WrittenType, WrittenKeeps, WriteKeeps DEF StoreUpdate, IsDeprecated
<1>4. ASSUME NEW r \in requests, StoreDeprecate(r)
      PROVE  Kept
  BY <1>4, WrittenType, WrittenKeeps, WriteKeeps DEF StoreDeprecate, IsDeprecated
<1>5. ASSUME BeginRequest
      PROVE  Kept
  BY <1>1, <1>5 DEF BeginRequest, CreatePolicy, UpdatePolicy, DeprecatePolicy, Begin,
                    store
<1>6. ASSUME NEW r \in requests,
             Found(r) \/ NotFound(r) \/ Admit(r) \/ Reject(r) \/ AuditLogged(r)
               \/ RequestFails(r)
      PROVE  Kept
  BY <1>1, <1>6 DEF Found, NotFound, Admit, Reject, AuditLogged, RequestFails, store
<1>7. ASSUME NEW r \in resolutions, ResolveStep(r)
      PROVE  Kept
  BY <1>1, <1>7 DEF ResolveStep, PassOver, MergePolicy, ResolveFails, store
<1>8. ASSUME NEW domain, NEW chain, Resolve(domain, chain)
      PROVE  Kept
  BY <1>1, <1>8 DEF Resolve, store
<1>9. CASE UNCHANGED vars
  BY <1>1, <1>9 DEF vars
<1>. QED
  BY <1>2, <1>3, <1>4, <1>5, <1>6, <1>7, <1>8, <1>9 DEF Next, Step

\* A request keeps what it knows while others step.
LEMMA StaysFound ==
  ASSUME TypeOK, RequestsAreFound, [Next]_vars, NEW r \in requests
  PROVE  RequestIsFound(r)'
<1>1. r.id # None => r.id \in PolicyIds
  BY DEF TypeOK, Request
<1>2. RequestIsFound(r)
  BY DEF RequestsAreFound
<1>. QED
  BY <1>1, <1>2, TableGrows DEF RequestIsFound

\* Where one request goes on, only that one has to be found.
LEMMA AdvanceFound ==
  ASSUME TypeOK, RequestsAreFound, [Next]_vars, NEW r, NEW s, Advance(r, s),
         RequestIsFound(s)'
  PROVE  RequestsAreFound'
  BY StaysFound DEF RequestsAreFound, Advance

LEMMA RequestsPreserved ==
  ASSUME TypeOK, RequestsAreFound, [Next]_vars
  PROVE  RequestsAreFound'
<1>. USE PolicyHierarchyAssumption
<1>1. ASSUME requests' \subseteq requests
      PROVE  RequestsAreFound'
  BY <1>1, StaysFound DEF RequestsAreFound
<1>2. ASSUME NEW s, requests' = requests \cup {s}, RequestIsFound(s)'
      PROVE  RequestsAreFound'
  BY <1>2, StaysFound DEF RequestsAreFound
<1>3. ASSUME NEW body \in Bodies, CreatePolicy(body)
      PROVE  RequestsAreFound'
  <2>. SUFFICES
         ASSUME NEW s,
                s = [request |-> nextRequest, op |-> "create",
                     pc |-> AwaitAfter(body.place, body.content), id |-> None,
                     place |-> body.place, content |-> body.content, checked |-> None],
                Begin(s)
         PROVE  RequestsAreFound'
    BY <1>3 DEF CreatePolicy
  <2>1. body.content # None /\ body.place # None
    BY DEF Body, Place
  <2>2. RequestIsFound(s)'
    BY <2>1 DEF RequestIsFound, AwaitAfter
  <2>. QED
    BY <1>2, <2>2 DEF Begin
<1>4. ASSUME NEW id \in PolicyIds, NEW content \in Contents \cup {None},
             UpdatePolicy(id, content)
      PROVE  RequestsAreFound'
  <2>. SUFFICES
         ASSUME NEW s,
                s = [request |-> nextRequest, op |-> "update", pc |-> "find", id |-> id,
                     place |-> None, content |-> content, checked |-> None],
                Begin(s)
         PROVE  RequestsAreFound'
    BY <1>4 DEF UpdatePolicy
  <2>1. RequestIsFound(s)'
    BY DEF RequestIsFound
  <2>. QED
    BY <1>2, <2>1 DEF Begin
<1>5. ASSUME NEW id \in PolicyIds, DeprecatePolicy(id)
      PROVE  RequestsAreFound'
  <2>. SUFFICES
         ASSUME NEW s,
                s = [request |-> nextRequest, op |-> "deprecate", pc |-> "find", id |-> id,
                     place |-> None, content |-> None, checked |-> None],
                Begin(s)
         PROVE  RequestsAreFound'
    BY <1>5 DEF DeprecatePolicy
  <2>1. RequestIsFound(s)'
    BY DEF RequestIsFound
  <2>. QED
    BY <1>2, <2>1 DEF Begin
<1>6. ASSUME NEW r \in requests, Found(r)
      PROVE  RequestsAreFound'
  <2>. SUFFICES
         ASSUME NEW place, NEW s, place = policies[r.id].place,
                s = [r EXCEPT !.place = place, !.pc = AwaitAfter(place, r.content)],
                Advance(r, s)
         PROVE  RequestsAreFound'
    BY <1>6 DEF Found
  <2>1. r \in Request /\ RequestIsFound(r) /\ UNCHANGED policies
    BY <1>6 DEF TypeOK, RequestsAreFound, Found, store
  <2>2. /\ s.op = r.op /\ s.id = r.id /\ s.content = r.content
        /\ s.place = place /\ s.pc = AwaitAfter(place, r.content)
    BY <2>1 DEF Request
  <2>3. r.pc = "find" /\ Exists(r.id) /\ r.id \in PolicyIds /\ r.op # "create"
    BY <1>6, <2>1 DEF Found, RequestIsFound, Request
  <2>4. place # None
    BY <2>3 DEF TypeOK, Exists, Policy, Place
  <2>5. RequestIsFound(s)'
    BY <2>1, <2>2, <2>3, <2>4 DEF RequestIsFound, AwaitAfter, Exists
  <2>. QED
    BY <2>5, AdvanceFound
<1>7. ASSUME NEW r \in requests, Admit(r)
      PROVE  RequestsAreFound'
  <2>. SUFFICES
         ASSUME NEW s, s = [r EXCEPT !.pc = "store", !.checked = writes[r.place.scope - 1]],
                Advance(r, s)
         PROVE  RequestsAreFound'
    BY <1>7 DEF Admit
  <2>1. r \in Request /\ RequestIsFound(r) /\ UNCHANGED policies /\ r.pc = "validate"
    BY <1>7 DEF TypeOK, RequestsAreFound, Admit, store
  <2>2. /\ s.op = r.op /\ s.id = r.id /\ s.content = r.content
        /\ s.place = r.place /\ s.pc = "store"
    BY <2>1 DEF Request
  <2>3. RequestIsFound(s)'
    BY <2>1, <2>2 DEF RequestIsFound, Exists
  <2>. QED
    BY <2>3, AdvanceFound
<1>8. ASSUME NEW r \in requests, r.pc = "store", NEW id \in PolicyIds,
             NEW policy, policy \in Policy, Write(r, id, policy), policy.place = r.place,
             r.op = "deprecate" => policy.status = "deprecated"
      PROVE  RequestsAreFound'
  <2>. DEFINE s == [r EXCEPT !.pc = "audit", !.id = id]
  <2>1. r \in Request /\ RequestIsFound(r)
    BY DEF TypeOK, RequestsAreFound
  <2>2. /\ s.op = r.op /\ s.id = id /\ s.content = r.content
        /\ s.place = r.place /\ s.pc = "audit"
    BY <2>1 DEF Request
  <2>3. policies'[id] = policy /\ policy # None /\ id # None
    BY <1>8, <2>1 DEF Write, TypeOK
  <2>4. RequestIsFound(s)'
    BY <1>8, <2>1, <2>2, <2>3 DEF RequestIsFound, Exists, IsDeprecated
  <2>. QED
    BY <1>8, <2>4, AdvanceFound DEF Write
<1>9. ASSUME NEW r \in requests, NEW id \in PolicyIds, StoreCreate(r, id)
      PROVE  RequestsAreFound'
  BY <1>8, <1>9, WrittenType DEF StoreCreate
<1>10. ASSUME NEW r \in requests, StoreUpdate(r) \/ StoreDeprecate(r)
       PROVE  RequestsAreFound'
  <2>1. policies[r.id].place = r.place
    BY <1>10 DEF RequestsAreFound, RequestIsFound, StoreUpdate, StoreDeprecate
  <2>. QED
    BY <1>8, <1>10, <2>1, WrittenType, WrittenKeeps DEF StoreUpdate, StoreDeprecate
<1>11. ASSUME NEW r \in requests,
              NotFound(r) \/ Reject(r) \/ AuditLogged(r) \/ RequestFails(r)
       PROVE  RequestsAreFound'
  BY <1>1, <1>11 DEF NotFound, Reject, AuditLogged, RequestFails, Respond
<1>12. ASSUME NEW r \in resolutions, ResolveStep(r)
       PROVE  RequestsAreFound'
  BY <1>1, <1>12 DEF ResolveStep, PassOver, MergePolicy, ResolveFails
<1>13. ASSUME NEW domain, NEW chain, Resolve(domain, chain)
       PROVE  RequestsAreFound'
  BY <1>1, <1>13 DEF Resolve
<1>14. CASE UNCHANGED vars
  BY <1>1, <1>14 DEF vars
<1>. QED
  BY <1>3, <1>4, <1>5, <1>6, <1>7, <1>9, <1>10, <1>11, <1>12, <1>13, <1>14
     DEF Next, BeginRequest, Step

\* The steps that change the resolutions.
LEMMA ResolutionSteps ==
  ASSUME [Next]_vars
  PROVE  \/ UNCHANGED resolutions
         \/ \E domain \in Domains, chain \in Chains : Resolve(domain, chain)
         \/ \E r \in resolutions : ResolveStep(r)
<1>1. BeginRequest => UNCHANGED resolutions
  BY DEF BeginRequest, CreatePolicy, UpdatePolicy, DeprecatePolicy, Begin
<1>2. ASSUME NEW r \in requests, Step(r)
      PROVE  UNCHANGED resolutions
  BY <1>2 DEF Step, Found, NotFound, Admit, Reject, StoreCreate, StoreUpdate,
              StoreDeprecate, Write, AuditLogged, RequestFails
<1>. QED
  BY <1>1, <1>2 DEF Next, vars

\* Where a field has a value above and below, the merged one is below both if
\* both are of one merged kind, and the lower one otherwise.
LEMMA MergedValue ==
  ASSUME NEW parent \in Content, NEW child \in Content, NEW f \in Fields
  PROVE  LET m == MergeRestrictive(parent, child)[f]
         IN  /\ child[f] = None => m = parent[f]
             /\ child[f] # None => m # None /\ m.kind = child[f].kind
                                     /\ m.permits \subseteq child[f].permits
             /\ /\ child[f] # None /\ parent[f] # None
                /\ parent[f].kind = child[f].kind /\ child[f].kind \in Merged
                => m.permits \subseteq parent[f].permits
<1>. DEFINE m == MergeRestrictive(parent, child)[f]
            w == [child[f] EXCEPT !.permits = @ \cap parent[f].permits]
<1>1. child[f] = None => m = parent[f]
  BY DEF MergeRestrictive
<1>2. ASSUME child[f] # None, parent[f] # None,
             parent[f].kind = child[f].kind, child[f].kind \in Merged
      PROVE  /\ m # None /\ m.kind = child[f].kind
             /\ m.permits \subseteq child[f].permits /\ m.permits \subseteq parent[f].permits
  <2>1. child[f] \in Value /\ parent[f] \in Value
    BY <1>2 DEF Content
  <2>2. m = w
    BY <1>2 DEF MergeRestrictive
  <2>3. w \in Value /\ w.kind = child[f].kind /\ w.permits = child[f].permits \cap parent[f].permits
    BY <2>1, RestrictType
  <2>. QED
    BY <2>2, <2>3, PolicyHierarchyAssumption
<1>3. ASSUME child[f] # None,
             ~(parent[f] # None /\ parent[f].kind = child[f].kind /\ child[f].kind \in Merged)
      PROVE  m = child[f]
  BY <1>3 DEF MergeRestrictive
<1>. QED
  BY <1>1, <1>2, <1>3

\* The loop's step keeps the effective policy a merge of what was read.
LEMMA MergeStep ==
  ASSUME NEW r \in Resolution, IsMerge(r), r.level \in Scopes,
         NEW id \in PolicyIds, NEW content \in Content
  PROVE  IsMerge([r EXCEPT !.level = @ + 1, !.effective = Restricted(r, content),
                           !.read[r.level] = [id |-> id, content |-> content]])
<1>. DEFINE entry == [id |-> id, content |-> content]
            read == [r.read EXCEPT ![r.level] = entry]
            effective == Restricted(r, content)
<1>. SUFFICES ASSUME NEW n, n = [r EXCEPT !.level = @ + 1, !.effective = effective,
                                          !.read[r.level] = entry]
              PROVE  IsMerge(n)
  OBVIOUS
<1>1. n.level = r.level + 1 /\ n.effective = effective /\ n.read = read
  BY DEF Resolution
<1>2. /\ \A s \in Scopes : s # r.level => n.read[s] = r.read[s]
      /\ n.read[r.level] = entry
  BY <1>1 DEF Resolution
<1>3. entry # None /\ entry.content = content
  BY PolicyHierarchyAssumption DEF Reading
<1>4. \A s \in Scopes : s >= n.level => n.read[s] = None
  BY <1>1, <1>2 DEF IsMerge, Scopes
<1>5. ASSUME NEW f \in Fields
      PROVE  /\ n.effective[f] # None <=> Setting(n, f) # {}
             /\ \A kind \in Merged :
                  (\A s \in Setting(n, f) : n.read[s].content[f].kind = kind) =>
                    \A s \in Setting(n, f) :
                      /\ n.effective[f].kind = kind
                      /\ n.effective[f].permits \subseteq n.read[s].content[f].permits
  <2>. DEFINE above == r.effective[f]
              own == content[f]
              merged == n.effective[f]
  <2>1. /\ own = None => merged = above
        /\ own # None => /\ merged # None /\ merged.kind = own.kind
                         /\ merged.permits \subseteq own.permits
        /\ own # None /\ above # None /\ above.kind = own.kind /\ own.kind \in Merged
           => merged.permits \subseteq above.permits
    <3>1. CASE r.level = 1
      <4>1. merged = own
        BY <1>1, <3>1 DEF Restricted
      <4>2. Setting(r, f) = {}
        BY <3>1 DEF IsMerge, Setting, Scopes
      <4>3. above = None
        BY <4>2 DEF IsMerge
      <4>. QED
        BY <4>1, <4>3
    <3>2. CASE r.level # 1
      <4>1. merged = MergeRestrictive(r.effective, content)[f] /\ r.effective \in Content
        BY <1>1, <3>2 DEF Restricted, Resolution
      <4>. QED
        BY <4>1, MergedValue
    <3>. QED
      BY <3>1, <3>2
  <2>2. r.level \notin Setting(r, f)
    BY DEF IsMerge, Setting, Scopes
  <2>3. \A s \in Setting(r, f) : n.read[s] = r.read[s]
    BY <1>2, <2>2 DEF Setting
  <2>4. Setting(n, f) = IF own = None THEN Setting(r, f) ELSE Setting(r, f) \cup {r.level}
    BY <1>2, <1>3, <2>2 DEF Setting
  <2>5. above # None <=> Setting(r, f) # {}
    BY DEF IsMerge
  <2>6. merged # None <=> Setting(n, f) # {}
    BY <2>1, <2>4, <2>5
  <2>7. ASSUME NEW kind \in Merged,
               \A s \in Setting(n, f) : n.read[s].content[f].kind = kind
        PROVE  \A s \in Setting(n, f) :
                 merged.kind = kind /\ merged.permits \subseteq n.read[s].content[f].permits
    <3>1. \A s \in Setting(r, f) : r.read[s].content[f].kind = kind
      BY <2>3, <2>4, <2>7
    <3>2. \A s \in Setting(r, f) :
            above.kind = kind /\ above.permits \subseteq r.read[s].content[f].permits
      BY <3>1 DEF IsMerge
    <3>3. CASE own = None
      BY <2>1, <2>3, <2>4, <3>2, <3>3
    <3>4. CASE own # None
      <4>1. own.kind = kind
        BY <1>2, <1>3, <2>4, <2>7, <3>4
      <4>2. ASSUME NEW s \in Setting(r, f)
            PROVE  merged.permits \subseteq n.read[s].content[f].permits
        BY <2>1, <2>3, <2>5, <3>2, <3>4, <4>1
      <4>. QED
        BY <1>2, <1>3, <2>1, <2>4, <3>4, <4>1, <4>2
    <3>. QED
      BY <3>3, <3>4
  <2>. QED
    BY <2>6, <2>7
<1>. QED
  BY <1>4, <1>5 DEF IsMerge

LEMMA MergesPreserved ==
  ASSUME TypeOK, EffectiveIsMerge, [Next]_vars
  PROVE  EffectiveIsMerge'
<1>1. ASSUME NEW domain \in Domains, NEW chain \in Chains, Resolve(domain, chain)
      PROVE  EffectiveIsMerge'
  <2>. SUFFICES
         ASSUME NEW n,
                n = [resolution |-> nextResolution, domain |-> domain, chain |-> chain,
                     level |-> 1, effective |-> Nothing,
                     gone |-> {id \in PolicyIds : IsDeprecated(id)},
                     read |-> [s \in Scopes |-> None]],
                resolutions' = resolutions \cup {n}
         PROVE  EffectiveIsMerge'
    BY <1>1 DEF Resolve
  <2>1. \A f \in Fields : n.effective[f] = None /\ Setting(n, f) = {}
    BY DEF Nothing, Setting
  <2>2. IsMerge(n)
    BY <2>1 DEF IsMerge
  <2>. QED
    BY <2>2 DEF EffectiveIsMerge
<1>2. ASSUME NEW r \in resolutions, PassOver(r)
      PROVE  EffectiveIsMerge'
  <2>. SUFFICES ASSUME NEW n, n = [r EXCEPT !.level = @ + 1]
                PROVE  IsMerge(n)
    BY <1>2 DEF PassOver, EffectiveIsMerge
  <2>1. r \in Resolution /\ IsMerge(r) /\ r.level \in Scopes
    BY <1>2 DEF TypeOK, EffectiveIsMerge, PassOver
  <2>2. n.level = r.level + 1 /\ n.read = r.read /\ n.effective = r.effective
    BY <2>1 DEF Resolution
  <2>3. \A f \in Fields : Setting(n, f) = Setting(r, f)
    BY <2>2 DEF Setting
  <2>4. \A s \in Scopes : s >= n.level => s >= r.level
    BY <2>1, <2>2 DEF Scopes
  <2>. QED
    BY <2>1, <2>2, <2>3, <2>4 DEF IsMerge
<1>3. ASSUME NEW r \in resolutions, NEW id \in PolicyIds, MergePolicy(r, id)
      PROVE  EffectiveIsMerge'
  <2>1. r \in Resolution /\ IsMerge(r) /\ r.level \in Scopes
    BY <1>3 DEF TypeOK, EffectiveIsMerge, MergePolicy
  <2>2. policies[id].content \in Content
    BY <1>3 DEF TypeOK, MergePolicy, IsActive, Exists, Policy
  <2>3. IsMerge([r EXCEPT !.level = @ + 1,
                          !.effective = Restricted(r, policies[id].content),
                          !.read[r.level] = [id |-> id, content |-> policies[id].content]])
    BY <2>1, <2>2, MergeStep
  <2>. QED
    BY <1>3, <2>3 DEF MergePolicy, EffectiveIsMerge
<1>4. ASSUME NEW r \in resolutions, ResolveFails(r)
      PROVE  EffectiveIsMerge'
  BY <1>4 DEF ResolveFails, EffectiveIsMerge
<1>5. CASE UNCHANGED resolutions
  BY <1>5 DEF EffectiveIsMerge
<1>. QED
  BY <1>1, <1>2, <1>3, <1>4, <1>5, ResolutionSteps DEF ResolveStep

\* What was deprecated when a resolution began stays so, and is not merged.
LEMMA GonePreserved ==
  ASSUME TypeOK, RequestsAreFound, GoneIsDeprecated, DeprecatedIsNotEnforced, [Next]_vars
  PROVE  GoneIsDeprecated' /\ DeprecatedIsNotEnforced'
<1>. DEFINE Kept(r) == /\ r.gone \subseteq PolicyIds
                       /\ \A id \in r.gone : IsDeprecated(id)'
                       /\ \A s \in Scopes : r.read[s] # None => r.read[s].id \notin r.gone
<1>1. ASSUME NEW r \in resolutions
      PROVE  Kept(r)
  <2>1. r.gone \subseteq PolicyIds
    BY DEF TypeOK, Resolution
  <2>. QED
    BY <2>1, TableGrows DEF GoneIsDeprecated, DeprecatedIsNotEnforced
<1>2. SUFFICES \A r \in resolutions' : Kept(r)
  BY <1>2 DEF GoneIsDeprecated, DeprecatedIsNotEnforced
<1>3. ASSUME NEW domain \in Domains, NEW chain \in Chains, Resolve(domain, chain)
      PROVE  \A r \in resolutions' : Kept(r)
  <2>. SUFFICES
         ASSUME NEW n,
                n = [resolution |-> nextResolution, domain |-> domain, chain |-> chain,
                     level |-> 1, effective |-> Nothing,
                     gone |-> {id \in PolicyIds : IsDeprecated(id)},
                     read |-> [s \in Scopes |-> None]],
                resolutions' = resolutions \cup {n}
         PROVE  Kept(n)
    BY <1>1, <1>3 DEF Resolve
  <2>. QED
    BY TableGrows
<1>4. ASSUME NEW r \in resolutions, PassOver(r)
      PROVE  \A n \in resolutions' : Kept(n)
  <2>. SUFFICES ASSUME NEW n, n = [r EXCEPT !.level = @ + 1]
                PROVE  Kept(n)
    BY <1>1, <1>4 DEF PassOver
  <2>1. n.gone = r.gone /\ n.read = r.read
    BY DEF TypeOK, Resolution
  <2>. QED
    BY <1>1, <2>1
<1>5. ASSUME NEW r \in resolutions, NEW id \in PolicyIds, MergePolicy(r, id)
      PROVE  \A n \in resolutions' : Kept(n)
  <2>. DEFINE entry == [id |-> id, content |-> policies[id].content]
  <2>. SUFFICES
         ASSUME NEW n,
                n = [r EXCEPT !.level = @ + 1,
                              !.effective = Restricted(r, policies[id].content),
                              !.read[r.level] = entry]
         PROVE  Kept(n)
    BY <1>1, <1>5 DEF MergePolicy
  <2>1. r \in Resolution /\ r.level \in Scopes
    BY <1>5 DEF TypeOK, MergePolicy
  <2>2. n.gone = r.gone /\ n.read = [r.read EXCEPT ![r.level] = entry]
    BY <2>1 DEF Resolution
  <2>3. \A s \in Scopes : n.read[s] = IF s = r.level THEN entry ELSE r.read[s]
    BY <2>1, <2>2 DEF Resolution
  <2>4. id \notin r.gone
    BY <1>5 DEF GoneIsDeprecated, MergePolicy, IsActive, IsDeprecated
  <2>. QED
    BY <1>1, <2>2, <2>3, <2>4
<1>6. ASSUME NEW r \in resolutions, ResolveFails(r)
      PROVE  \A n \in resolutions' : Kept(n)
  BY <1>1, <1>6 DEF ResolveFails
<1>7. CASE UNCHANGED resolutions
  BY <1>1, <1>7
<1>. QED
  BY <1>3, <1>4, <1>5, <1>6, <1>7, ResolutionSteps DEF ResolveStep

\* Whatever has been answered with success stays audited and in force.
LEMMA AcknowledgedPreserved ==
  ASSUME TypeOK, RequestsAreFound, AcknowledgedIsAudited, [Next]_vars
  PROVE  AcknowledgedIsAudited'
<1>. DEFINE Kept(a) == a.status = "success" =>
              /\ [request |-> a.request, op |-> a.op, id |-> a.id] \in audit'
              /\ Exists(a.id)'
              /\ a.op = "deprecate" => IsDeprecated(a.id)'
<1>1. audit \subseteq audit'
  BY DEF Next, vars, BeginRequest, CreatePolicy, UpdatePolicy, DeprecatePolicy, Begin,
         Step, Found, NotFound, Admit, Reject, StoreCreate, StoreUpdate, StoreDeprecate,
         Write, AuditLogged, RequestFails, Resolve, ResolveStep, PassOver, MergePolicy,
         ResolveFails
<1>2. ASSUME NEW a \in responses
      PROVE  Kept(a)
  <2>1. a.status = "success" => a.id \in PolicyIds
    BY DEF TypeOK, AcknowledgedIsAudited, AuditEntry
  <2>. QED
    BY <1>1, <2>1, TableGrows DEF AcknowledgedIsAudited
<1>3. ASSUME NEW r \in requests, AuditLogged(r)
      PROVE  \A a \in responses' : Kept(a)
  <2>. SUFFICES
         ASSUME NEW a, a = [request |-> r.request, op |-> r.op, id |-> r.id,
                            status |-> "success"]
         PROVE  Kept(a)
    BY <1>2, <1>3 DEF AuditLogged, Respond
  <2>1. RequestIsFound(r) /\ r.pc = "audit" /\ UNCHANGED policies
    BY <1>3 DEF RequestsAreFound, AuditLogged, store
  <2>. QED
    BY <1>3, <2>1 DEF AuditLogged, RequestIsFound, Exists, IsDeprecated
<1>4. ASSUME NEW r \in requests, NotFound(r) \/ Reject(r) \/ RequestFails(r)
      PROVE  \A a \in responses' : Kept(a)
  BY <1>2, <1>4 DEF NotFound, Reject, RequestFails, Respond
<1>5. ASSUME UNCHANGED responses
      PROVE  \A a \in responses' : Kept(a)
  BY <1>2, <1>5
<1>6. \/ UNCHANGED responses
      \/ \E r \in requests : AuditLogged(r) \/ NotFound(r) \/ Reject(r) \/ RequestFails(r)
  BY DEF Next, vars, BeginRequest, CreatePolicy, UpdatePolicy, DeprecatePolicy, Begin,
         Step, Found, Admit, StoreCreate, StoreUpdate, StoreDeprecate, Write, Resolve,
         ResolveStep, PassOver, MergePolicy, ResolveFails
<1>. QED
  BY <1>3, <1>4, <1>5, <1>6 DEF AcknowledgedIsAudited

\* A change that is accounted for stays so: a request leaves the audit log with an
\* entry or with an error.
LEMMA AccountingKept ==
  ASSUME [Next]_vars, NEW op, NEW id, AccountedFor(op, id)
  PROVE  AccountedFor(op, id)'
<1>1. audit \subseteq audit' /\ responses \subseteq responses'
  BY DEF Next, vars, BeginRequest, CreatePolicy, UpdatePolicy, DeprecatePolicy, Begin,
         Step, Found, NotFound, Admit, Reject, StoreCreate, StoreUpdate, StoreDeprecate,
         Write, AuditLogged, RequestFails, Respond, Resolve, ResolveStep, PassOver,
         MergePolicy, ResolveFails
<1>2. ASSUME NEW r \in requests, r.op = op, r.id = id, r.pc = "audit", r \notin requests'
      PROVE  AccountedFor(op, id)'
  <2>1. AuditLogged(r) \/ RequestFails(r)
    <3>1. PICK s \in requests : Step(s)
      BY <1>2 DEF Next, vars, BeginRequest, CreatePolicy, UpdatePolicy, DeprecatePolicy,
           Begin, Resolve, ResolveStep, PassOver, MergePolicy, ResolveFails
    <3>2. requests \ {s} \subseteq requests'
      BY <3>1 DEF Step, Found, NotFound, Admit, Reject, StoreCreate, StoreUpdate,
           StoreDeprecate, Write, Advance, AuditLogged, RequestFails, Respond
    <3>3. s = r
      BY <1>2, <3>2
    <3>. QED
      BY <1>2, <3>1, <3>3 DEF Step, Found, NotFound, Admit, Reject, StoreCreate,
         StoreUpdate, StoreDeprecate
  <2>2. CASE AuditLogged(r)
    <3>. DEFINE e == [request |-> r.request, op |-> r.op, id |-> r.id]
    <3>1. e \in audit'
      BY <2>2 DEF AuditLogged
    <3>2. e.op = op /\ e.id = id
      BY <1>2
    <3>. HIDE DEF e
    <3>. QED
      BY <3>1, <3>2 DEF AccountedFor
  <2>3. CASE RequestFails(r)
    <3>. DEFINE a == [request |-> r.request, op |-> r.op, id |-> r.id, status |-> "error"]
    <3>1. a \in responses'
      BY <2>3 DEF RequestFails, Respond
    <3>2. a.op = op /\ a.id = id /\ a.status = "error"
      BY <1>2
    <3>. HIDE DEF a
    <3>. QED
      BY <3>1, <3>2 DEF AccountedFor
  <2>. QED
    BY <2>1, <2>2, <2>3
<1>. QED
  BY <1>1, <1>2 DEF AccountedFor

\* A policy that appears or is deprecated in a step is that of a request that goes
\* on to the audit log.
LEMMA WritesAwaitAudit ==
  ASSUME TypeOK, RequestsAreFound, [Next]_vars, NEW id \in PolicyIds
  PROVE  /\ ~Exists(id) /\ Exists(id)' => AccountedFor("create", id)'
         /\ ~IsDeprecated(id) /\ IsDeprecated(id)' => AccountedFor("deprecate", id)'
<1>1. ASSUME NEW r \in requests, NEW n \in PolicyIds, StoreCreate(r, n)
      PROVE  /\ ~Exists(id) /\ Exists(id)' => AccountedFor("create", id)'
             /\ ~IsDeprecated(id) /\ IsDeprecated(id)' => AccountedFor("deprecate", id)'
  <2>. DEFINE next == [r EXCEPT !.pc = "audit", !.id = n]
  <2>1. next \in requests' /\ next.op = "create" /\ next.id = n /\ next.pc = "audit"
    BY <1>1 DEF StoreCreate, Write, Advance, TypeOK, Request
  <2>2. policies' = [policies EXCEPT ![n] = [place |-> r.place, content |-> r.content,
                       status |-> "active", checked |-> r.checked]]
    BY <1>1 DEF StoreCreate, Write
  <2>3. CASE id = n
    <3>1. policies'[id].status = "active"
      BY <2>2, <2>3 DEF TypeOK
    <3>. QED
      BY <2>1, <2>3, <3>1 DEF IsDeprecated, AccountedFor
  <2>4. CASE id # n
    BY <2>2, <2>4 DEF Exists, IsDeprecated, TypeOK
  <2>. QED
    BY <2>3, <2>4
<1>2. ASSUME NEW r \in requests, StoreUpdate(r)
      PROVE  /\ Exists(id)' => Exists(id)
             /\ IsDeprecated(id)' => IsDeprecated(id)
  <2>1. r.id \in PolicyIds /\ Exists(r.id) /\ policies[r.id] \in Policy
    BY <1>2, PolicyHierarchyAssumption
    DEF StoreUpdate, RequestsAreFound, RequestIsFound, TypeOK, Request, Exists
  <2>2. policies' = [policies EXCEPT ![r.id] = Updated(policies[r.id], r)]
    BY <1>2 DEF StoreUpdate, Write
  <2>3. Updated(policies[r.id], r).status = policies[r.id].status
    BY <2>1 DEF Updated, Policy
  <2>. QED
    BY <2>1, <2>2, <2>3 DEF Exists, IsDeprecated, TypeOK
<1>3. ASSUME NEW r \in requests, StoreDeprecate(r)
      PROVE  /\ Exists(id)' => Exists(id)
             /\ ~IsDeprecated(id) /\ IsDeprecated(id)' => AccountedFor("deprecate", id)'
  <2>. DEFINE next == [r EXCEPT !.pc = "audit", !.id = r.id]
  <2>1. r.id \in PolicyIds /\ Exists(r.id)
    BY <1>3, PolicyHierarchyAssumption
    DEF StoreDeprecate, RequestsAreFound, RequestIsFound, TypeOK, Request
  <2>2. next \in requests' /\ next.op = "deprecate" /\ next.id = r.id /\ next.pc = "audit"
    BY <1>3 DEF StoreDeprecate, Write, Advance, TypeOK, Request
  <2>3. policies' = [policies EXCEPT ![r.id] = [policies[r.id] EXCEPT !.status = "deprecated"]]
    BY <1>3 DEF StoreDeprecate, Write
  <2>. QED
    BY <2>1, <2>2, <2>3 DEF Exists, IsDeprecated, AccountedFor, TypeOK
<1>4. CASE UNCHANGED policies
  BY <1>4 DEF Exists, IsDeprecated
<1>5. \/ UNCHANGED policies
      \/ \E r \in requests : \/ \E n \in PolicyIds : StoreCreate(r, n)
                             \/ StoreUpdate(r) \/ StoreDeprecate(r)
  BY DEF Next, vars, store, BeginRequest, CreatePolicy, UpdatePolicy, DeprecatePolicy, Begin,
         Step, Found, NotFound, Admit, Reject, AuditLogged, RequestFails, Resolve,
         ResolveStep, PassOver, MergePolicy, ResolveFails
<1>. QED
  BY <1>1, <1>2, <1>3, <1>4, <1>5

\* Whatever has been created or deprecated stays logged or reported.
LEMMA ReportedPreserved ==
  ASSUME TypeOK, RequestsAreFound, UnloggedIsReported, [Next]_vars
  PROVE  UnloggedIsReported'
<1>. SUFFICES
       ASSUME NEW id \in PolicyIds
       PROVE  /\ Exists(id)' /\ InitialPolicies[id] = None => AccountedFor("create", id)'
              /\ IsDeprecated(id)' =>
                   \/ AccountedFor("deprecate", id)'
                   \/ InitialPolicies[id] # None /\ InitialPolicies[id].status = "deprecated"
  BY DEF UnloggedIsReported
<1>1. \A op \in {"create", "deprecate"} : AccountedFor(op, id) => AccountedFor(op, id)'
  BY AccountingKept
<1>. QED
  BY <1>1, WritesAwaitAudit DEF UnloggedIsReported

\* A step leaves the table alone or writes one policy at its place: the content
\* the request was admitted with, or the one the policy has.
LEMMA StoreSteps ==
  ASSUME TypeOK, RequestsAreFound, [Next]_vars
  PROVE  \/ UNCHANGED store
         \/ \E r \in requests, id \in PolicyIds, policy \in Policy :
              /\ Write(r, id, policy)
              /\ r.pc = "store"
              /\ policy.place = r.place
              /\ Exists(id) => policies[id].place = r.place
              /\ \/ policy.content = r.content /\ policy.checked = r.checked
                 \/ /\ Exists(id)
                    /\ policy.content = policies[id].content
                    /\ policy.checked = policies[id].checked
<1>. DEFINE Written(r, id, policy) ==
              /\ Write(r, id, policy)
              /\ r.pc = "store"
              /\ policy.place = r.place
              /\ Exists(id) => policies[id].place = r.place
              /\ \/ policy.content = r.content /\ policy.checked = r.checked
                 \/ /\ Exists(id)
                    /\ policy.content = policies[id].content
                    /\ policy.checked = policies[id].checked
<1>1. ASSUME NEW r \in requests, NEW id \in PolicyIds, StoreCreate(r, id)
      PROVE  \E policy \in Policy : Written(r, id, policy)
  <2>. DEFINE policy == [place |-> r.place, content |-> r.content, status |-> "active",
                         checked |-> r.checked]
  <2>1. policy \in Policy /\ Written(r, id, policy)
    BY <1>1, WrittenType DEF StoreCreate
  <2>. QED
    BY <2>1
<1>2. ASSUME NEW r \in requests, StoreUpdate(r)
      PROVE  r.id \in PolicyIds /\ \E policy \in Policy : Written(r, r.id, policy)
  <2>. DEFINE policy == Updated(policies[r.id], r)
  <2>1. /\ r.id \in PolicyIds /\ policies[r.id] \in Policy /\ policy \in Policy
        /\ policy.place = policies[r.id].place /\ r.pc = "store" /\ Write(r, r.id, policy)
    BY <1>2, WrittenType, WrittenKeeps DEF StoreUpdate
  <2>2. Exists(r.id) /\ policies[r.id].place = r.place
    BY <1>2 DEF StoreUpdate, RequestsAreFound, RequestIsFound
  <2>3. \/ policy.content = r.content /\ policy.checked = r.checked
        \/ policy = policies[r.id]
    BY <2>1 DEF Updated, Policy
  <2>. QED
    BY <2>1, <2>2, <2>3
<1>3. ASSUME NEW r \in requests, StoreDeprecate(r)
      PROVE  r.id \in PolicyIds /\ \E policy \in Policy : Written(r, r.id, policy)
  <2>. DEFINE policy == [policies[r.id] EXCEPT !.status = "deprecated"]
  <2>1. /\ r.id \in PolicyIds /\ policies[r.id] \in Policy /\ policy \in Policy
        /\ policy.place = policies[r.id].place /\ r.pc = "store" /\ Write(r, r.id, policy)
    BY <1>3, WrittenType, WrittenKeeps DEF StoreDeprecate
  <2>2. Exists(r.id) /\ policies[r.id].place = r.place
    BY <1>3 DEF StoreDeprecate, RequestsAreFound, RequestIsFound
  <2>3. policy.content = policies[r.id].content /\ policy.checked = policies[r.id].checked
    BY <2>1 DEF Policy
  <2>. QED
    BY <2>1, <2>2, <2>3
<1>4. ASSUME NEW r \in requests,
             Found(r) \/ NotFound(r) \/ Admit(r) \/ Reject(r) \/ AuditLogged(r)
               \/ RequestFails(r)
      PROVE  UNCHANGED store
  BY <1>4 DEF Found, NotFound, Admit, Reject, AuditLogged, RequestFails, store
<1>5. BeginRequest => UNCHANGED store
  BY DEF BeginRequest, CreatePolicy, UpdatePolicy, DeprecatePolicy, Begin, store
<1>6. ASSUME NEW r \in resolutions, ResolveStep(r)
      PROVE  UNCHANGED store
  BY <1>6 DEF ResolveStep, PassOver, MergePolicy, ResolveFails, store
<1>7. ASSUME NEW domain, NEW chain, Resolve(domain, chain)
      PROVE  UNCHANGED store
  BY <1>7 DEF Resolve, store
<1>8. UNCHANGED vars => UNCHANGED store
  BY DEF vars, store
<1>9. CASE \E r \in requests : StoreUpdate(r)
  <2>1. PICK r \in requests : StoreUpdate(r)
    BY <1>9
  <2>. QED
    BY <1>2, <2>1
<1>10. CASE \E r \in requests : StoreDeprecate(r)
  <2>1. PICK r \in requests : StoreDeprecate(r)
    BY <1>10
  <2>. QED
    BY <1>3, <2>1
<1>11. CASE \E r \in requests, id \in PolicyIds : StoreCreate(r, id)
  <2>1. PICK r \in requests, id \in PolicyIds : StoreCreate(r, id)
    BY <1>11
  <2>. QED
    BY <1>1, <2>1
<1>. QED
  BY <1>4, <1>5, <1>6, <1>7, <1>8, <1>9, <1>10, <1>11 DEF Next, Step

\* A write of one scope leaves the active policies of the others.
LEMMA OtherScopes ==
  ASSUME TypeOK, NEW r \in requests, NEW id \in PolicyIds, NEW policy \in Policy,
         Write(r, id, policy), policy.place = r.place,
         Exists(id) => policies[id].place = r.place,
         NEW scope, scope # r.place.scope
  PROVE  /\ ActiveAt(scope)' = ActiveAt(scope)
         /\ \A c \in ActiveAt(scope) : policies'[c] = policies[c]
<1>1. /\ policies'[id] = policy
      /\ \A p \in PolicyIds : p # id => policies'[p] = policies[p]
  BY DEF TypeOK, Write
<1>2. id \notin ActiveAt(scope) /\ policies'[id].place.scope # scope
  BY <1>1 DEF ActiveAt, IsActive
<1>3. \A p \in PolicyIds : p \in ActiveAt(scope) <=>
        IsActive(p)' /\ policies'[p].place.scope = scope
  BY <1>1, <1>2 DEF ActiveAt, IsActive, Exists
<1>4. ActiveAt(scope)' = {p \in PolicyIds : IsActive(p)' /\ policies'[p].place.scope = scope}
  BY DEF ActiveAt
<1>5. ActiveAt(scope)' = ActiveAt(scope)
  BY <1>3, <1>4 DEF ActiveAt
<1>. QED
  BY <1>1, <1>2, <1>5 DEF ActiveAt

\* A content checked before a step is checked after it; and if it is not outdated
\* then, it was not outdated before, and the policies above are the same.
LEMMA StaysChecked ==
  ASSUME TypeOK, RequestsAreFound, [Next]_vars,
         NEW place \in Place, NEW content, NEW checked \in Nat \cup {None},
         IsChecked(place, content, checked)
  PROVE  IsChecked(place, content, checked)'
<1>. USE DEF IsChecked
<1>1. CASE UNCHANGED store
  BY <1>1 DEF store, CheckedBefore, NotOutdated, BelowSomeCeiling, ActiveAt, IsActive, Exists
<1>2. CASE checked = None
  BY <1>2 DEF CheckedBefore, NotOutdated
<1>3. ASSUME checked # None,
             NEW r \in requests, NEW id \in PolicyIds, NEW policy \in Policy,
             Write(r, id, policy), policy.place = r.place,
             Exists(id) => policies[id].place = r.place
      PROVE  IsChecked(place, content, checked)'
  <2>. DEFINE above == place.scope - 1
  <2>1. checked \in Nat /\ checked <= writes[above] /\ place.scope # 1
    BY <1>3 DEF CheckedBefore
  <2>2. above \in Scopes /\ r.place.scope \in Scopes
    BY <1>3, <2>1 DEF Place, Policy, Scopes
  <2>3. /\ writes[above] \in Nat
        /\ writes'[above] = IF above = r.place.scope THEN writes[above] + 1
                                                     ELSE writes[above]
    BY <1>3, <2>2 DEF Write, TypeOK
  <2>4. CheckedBefore(place, checked)'
    BY <2>1, <2>3, PolicyHierarchyAssumption DEF CheckedBefore
  <2>5. ASSUME NotOutdated(place, checked)'
        PROVE  BelowSomeCeiling(place, content)'
    <3>1. above # r.place.scope /\ NotOutdated(place, checked)
      BY <2>1, <2>3, <2>5 DEF NotOutdated
    <3>2. /\ ActiveAt(above)' = ActiveAt(above)
          /\ \A c \in ActiveAt(above) : policies'[c] = policies[c]
      BY <1>3, <3>1, OtherScopes
    <3>. QED
      BY <3>1, <3>2 DEF BelowSomeCeiling
  <2>. QED
    BY <2>4, <2>5
<1>. QED
  BY <1>1, <1>2, <1>3, StoreSteps

\* Validation and Exceeds are one comparison.
LEMMA WithinIsNotExceeds ==
  ASSUME NEW upper, NEW lower
  PROVE  Within(upper, lower) <=> ~Exceeds(lower, upper)
  BY DEF Within, Exceeds

\* A content that was not validated claims nothing.
LEMMA Unchecked ==
  ASSUME NEW place, NEW content
  PROVE  IsChecked(place, content, None)
  BY DEF IsChecked, CheckedBefore, NotOutdated

\* A request under way stays checked, as long as it does not step itself.
LEMMA RequestStaysChecked ==
  ASSUME TypeOK, RequestsAreFound, ContentsAreChecked, [Next]_vars, NEW r \in requests,
         r.pc = "store"
  PROVE  IsChecked(r.place, r.content, r.checked)'
<1>1. r.place \in Place /\ r.checked \in Nat \cup {None}
  BY DEF TypeOK, Request, RequestsAreFound, RequestIsFound
<1>. QED
  BY <1>1, StaysChecked DEF ContentsAreChecked

\* The requests of the next state are checked.
LEMMA RequestsStayChecked ==
  ASSUME TypeOK, RequestsAreFound, ContentsAreChecked, [Next]_vars
  PROVE  \A r \in requests' :
           /\ r.pc = "find" => r.checked = None
           /\ r.pc = "store" => IsChecked(r.place, r.content, r.checked)'
<1>. DEFINE Kept(r) == /\ r.pc = "find" => r.checked = None
                       /\ r.pc = "store" => IsChecked(r.place, r.content, r.checked)'
<1>1. ASSUME NEW r \in requests
      PROVE  Kept(r)
  BY RequestStaysChecked DEF ContentsAreChecked
<1>2. ASSUME NEW s, s.checked = None
      PROVE  Kept(s)
  BY <1>2 DEF IsChecked, CheckedBefore, NotOutdated
<1>3. ASSUME BeginRequest
      PROVE  \A r \in requests' : Kept(r)
  <2>1. PICK s : s.checked = None /\ Begin(s)
    BY <1>3 DEF BeginRequest, CreatePolicy, UpdatePolicy, DeprecatePolicy
  <2>. QED
    BY <1>1, <1>2, <2>1 DEF Begin
<1>4. ASSUME NEW r \in requests, Found(r)
      PROVE  \A q \in requests' : Kept(q)
  <2>. SUFFICES
         ASSUME NEW s, s = [r EXCEPT !.place = policies[r.id].place,
                                     !.pc = AwaitAfter(policies[r.id].place, r.content)]
         PROVE  Kept(s)
    BY <1>1, <1>4 DEF Found, Advance
  <2>1. s.checked = None
    BY <1>4 DEF TypeOK, Request, Found, ContentsAreChecked
  <2>. QED
    BY <1>2, <2>1
<1>5. ASSUME NEW r \in requests, Admit(r)
      PROVE  \A q \in requests' : Kept(q)
  <2>. DEFINE above == r.place.scope - 1
  <2>. SUFFICES
         ASSUME NEW s, s = [r EXCEPT !.pc = "store", !.checked = writes[above]]
         PROVE  Kept(s)
    BY <1>1, <1>5 DEF Admit, Advance
  <2>1. r \in Request /\ r.place \in Place /\ r.place.scope # 1 /\ UNCHANGED store
    BY <1>5 DEF TypeOK, RequestsAreFound, RequestIsFound, Request, Admit
  <2>2. s.place = r.place /\ s.content = r.content /\ s.checked = writes[above]
        /\ s.pc = "store"
    BY <2>1 DEF Request
  <2>3. writes[above] \in Nat
    BY <2>1 DEF TypeOK, Place, Scopes
  <2>4. CheckedBefore(s.place, s.checked)
    BY <2>1, <2>2, <2>3, PolicyHierarchyAssumption DEF CheckedBefore, Place
  <2>5. BelowSomeCeiling(s.place, s.content)
    BY <1>5, <2>2, WithinIsNotExceeds DEF Admit, Ceilings, BelowSomeCeiling
  <2>6. IsChecked(s.place, s.content, s.checked)'
    BY <2>1, <2>4, <2>5 DEF IsChecked, store, CheckedBefore, NotOutdated,
         BelowSomeCeiling, ActiveAt, IsActive, Exists
  <2>. QED
    BY <2>2, <2>6
<1>6. ASSUME NEW r \in requests, NEW id, NEW policy, Write(r, id, policy)
      PROVE  \A q \in requests' : Kept(q)
  <2>. SUFFICES ASSUME NEW s, s = [r EXCEPT !.pc = "audit", !.id = id]
                PROVE  Kept(s)
    BY <1>1, <1>6 DEF Write, Advance
  <2>1. s.pc = "audit"
    BY DEF TypeOK, Request
  <2>. QED
    BY <2>1
<1>7. ASSUME requests' \subseteq requests
      PROVE  \A q \in requests' : Kept(q)
  BY <1>1, <1>7
<1>8. ASSUME NEW r \in requests,
             NotFound(r) \/ Reject(r) \/ AuditLogged(r) \/ RequestFails(r)
      PROVE  \A q \in requests' : Kept(q)
  BY <1>7, <1>8 DEF NotFound, Reject, AuditLogged, RequestFails, Respond
<1>9. ASSUME NEW r \in requests, NEW id, StoreCreate(r, id) \/ StoreUpdate(r)
               \/ StoreDeprecate(r)
      PROVE  \A q \in requests' : Kept(q)
  BY <1>6, <1>9 DEF StoreCreate, StoreUpdate, StoreDeprecate
<1>10. ASSUME NEW r \in resolutions, ResolveStep(r)
       PROVE  \A q \in requests' : Kept(q)
  BY <1>7, <1>10 DEF ResolveStep, PassOver, MergePolicy, ResolveFails
<1>11. ASSUME NEW domain, NEW chain, Resolve(domain, chain)
       PROVE  \A q \in requests' : Kept(q)
  BY <1>7, <1>11 DEF Resolve
<1>12. CASE UNCHANGED vars
  BY <1>7, <1>12 DEF vars
<1>. QED
  BY <1>3, <1>4, <1>5, <1>8, <1>9, <1>10, <1>11, <1>12 DEF Next, Step

LEMMA ChecksPreserved ==
  ASSUME TypeOK, RequestsAreFound, ContentsAreChecked, [Next]_vars
  PROVE  ContentsAreChecked'
<1>. DEFINE Kept(p) ==
       Exists(p) => IsChecked(policies[p].place, policies[p].content, policies[p].checked)
<1>1. ASSUME NEW p \in PolicyIds, NEW place \in Place, NEW content,
             NEW checked \in Nat \cup {None},
             policies'[p].place = place, policies'[p].content = content,
             policies'[p].checked = checked, IsChecked(place, content, checked)
      PROVE  Kept(p)'
  <2>1. IsChecked(place, content, checked)'
    BY <1>1, StaysChecked
  <2>. QED
    BY <1>1, <2>1
<1>2. ASSUME NEW p \in PolicyIds, policies'[p] = policies[p]
      PROVE  Kept(p)'
  <2>1. CASE Exists(p)
    <3>1. policies[p] \in Policy /\ Kept(p)
      BY <2>1 DEF TypeOK, Exists, ContentsAreChecked
    <3>2. policies[p].place \in Place /\ policies[p].checked \in Nat \cup {None}
      BY <3>1 DEF Policy
    <3>. QED
      BY <1>1, <1>2, <2>1, <3>1, <3>2
  <2>2. CASE ~Exists(p)
    BY <1>2, <2>2 DEF Exists
  <2>. QED
    BY <2>1, <2>2
<1>3. ASSUME NEW r \in requests, NEW id \in PolicyIds, NEW policy \in Policy,
             Write(r, id, policy), r.pc = "store", policy.place = r.place,
             \/ policy.content = r.content /\ policy.checked = r.checked
             \/ /\ Exists(id)
                /\ policies[id].place = r.place
                /\ policy.content = policies[id].content
                /\ policy.checked = policies[id].checked
      PROVE  \A p \in PolicyIds : Kept(p)'
  <2>1. /\ policies'[id] = policy
        /\ \A p \in PolicyIds : p # id => policies'[p] = policies[p]
    BY <1>3 DEF TypeOK, Write
  <2>2. policy.place \in Place /\ policy.checked \in Nat \cup {None}
    BY DEF Policy
  <2>3. IsChecked(policy.place, policy.content, policy.checked)
    BY <1>3 DEF ContentsAreChecked
  <2>4. Kept(id)'
    BY <1>1, <2>1, <2>2, <2>3
  <2>. QED
    BY <1>2, <2>1, <2>4
<1>4. \A p \in PolicyIds : Kept(p)'
  <2>1. CASE UNCHANGED store
    BY <1>2, <2>1 DEF store
  <2>. QED
    BY <1>3, <2>1, StoreSteps
<1>. QED
  BY <1>4, RequestsStayChecked DEF ContentsAreChecked
-----------------------------------------------------------------------------
LEMMA InitHolds == Init => HierarchyInv
<1>. USE PolicyHierarchyAssumption
<1>1. ASSUME Init, NEW id \in PolicyIds, Exists(id)
      PROVE  IsChecked(policies[id].place, policies[id].content, policies[id].checked)
  BY <1>1, Unchecked DEF Init, Exists
<1>. QED
  BY <1>1 DEF Init, HierarchyInv, RequestsAreFound, ContentsAreChecked, EffectiveIsMerge,
              GoneIsDeprecated, DeprecatedIsNotEnforced, AcknowledgedIsAudited,
              UnloggedIsReported, Exists, IsDeprecated

\* The inductive invariant holds in every behaviour.
THEOREM PolicyInvariance == Spec => [](TypeOK /\ HierarchyInv)
<1>1. Init => TypeOK /\ HierarchyInv
  BY Types, InitHolds
<1>2. TypeOK /\ HierarchyInv /\ [Next]_vars => TypeOK' /\ HierarchyInv'
  BY TypesPreserved, RequestsPreserved, ChecksPreserved, MergesPreserved, GonePreserved,
     AcknowledgedPreserved, ReportedPreserved DEF HierarchyInv
<1>. QED
  BY <1>1, <1>2, PTL DEF Spec

\* Every variable has its type in every behaviour.
THEOREM PolicyTypeCorrect == Spec => []TypeOK
  BY PolicyInvariance, PTL

\* Lower scopes restrict: where the policies read give a field values of one
\* merged kind, the effective value is within each of them.
THEOREM MergeIsRestrictive == Spec => []EffectiveWithinChain
<1>1. HierarchyInv => EffectiveWithinChain
  BY DEF HierarchyInv, EffectiveIsMerge, IsMerge, EffectiveWithinChain, NoWider
<1>. QED
  BY <1>1, PolicyInvariance, PTL

\* A content below the enterprise was within a policy above it, and still is
\* unless that scope was written since.
THEOREM ValidationCounts == Spec => []WithinSomeCeiling
<1>1. ASSUME TypeOK, HierarchyInv, NEW id \in PolicyIds, IsActive(id),
             policies[id].place.scope # 1,
             policies[id].checked = writes[policies[id].place.scope - 1]
      PROVE  BelowSomeCeiling(policies[id].place, policies[id].content)
  <2>1. policies[id] \in Policy /\ Exists(id)
    BY <1>1 DEF TypeOK, IsActive, Exists
  <2>2. policies[id].place.scope - 1 \in Scopes
    BY <1>1, <2>1 DEF Policy, Place, Scopes
  <2>3. policies[id].checked # None
    BY <1>1, <2>2, PolicyHierarchyAssumption DEF TypeOK
  <2>. QED
    BY <1>1, <2>1, <2>3 DEF HierarchyInv, ContentsAreChecked, IsChecked, NotOutdated
<1>2. TypeOK /\ HierarchyInv => WithinSomeCeiling
  BY <1>1 DEF BelowSomeCeiling, WithinSomeCeiling
<1>. QED
  BY <1>2, PolicyInvariance, PTL

\* A deprecated policy is never active again, whatever requests overlap.
THEOREM DeprecationIsFinal == Spec => DeprecatedIsFinal
<1>1. TypeOK /\ HierarchyInv /\ [Next]_vars =>
        [\A id \in PolicyIds : IsDeprecated(id) => IsDeprecated(id)']_vars
  BY TableGrows DEF HierarchyInv
<1>. QED
  BY <1>1, PolicyInvariance, PTL DEF Spec, DeprecatedIsFinal

\* No resolution merges a policy that was deprecated before it began.
THEOREM DeprecationIsEnforced == Spec => []DeprecatedIsNotEnforced
<1>1. HierarchyInv => DeprecatedIsNotEnforced
  BY DEF HierarchyInv
<1>. QED
  BY <1>1, PolicyInvariance, PTL

\* What was answered with success is audited and stays in force.
THEOREM SuccessIsAudited == Spec => []AcknowledgedIsAudited
<1>1. HierarchyInv => AcknowledgedIsAudited
  BY DEF HierarchyInv
<1>. QED
  BY <1>1, PolicyInvariance, PTL

\* No creation and no deprecation is in force of which neither the audit log nor
\* its caller knows, for any requests and failures.
THEOREM NothingUnreported == Spec => []UnloggedIsReported
<1>1. HierarchyInv => UnloggedIsReported
  BY DEF HierarchyInv
<1>. QED
  BY <1>1, PolicyInvariance, PTL
=============================================================================
