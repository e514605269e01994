\* Three policies of two scopes, three changes that overlap, one resolution.
SPECIFICATION Spec
CONSTANTS
  acme = acme  sales = sales  models = models  actions = actions  p1 = p1  p2 = p2  p3 = p3
  PolicyIds = {p1, p2, p3}
  Units = {acme, sales}
  Domains = {models}
  Fields = {"allowed", "limit"}
  Permissions = {1, 2}
  Bodies <- SomeBodies
  Contents <- SomeContents
  Chains <- OneChain
  InitialPolicies <- WideAtFirst
  None = None
  MaxRequests = 3
  MaxResolutions = 1
SYMMETRY NewIds
INVARIANTS TypeOK EffectiveWithinChain AcknowledgedIsAudited UnloggedIsReported WithinSomeCeiling
PROPERTY DeprecatedIsFinal
\* The bounded requests are used up and the system stops.
CHECK_DEADLOCK FALSE
