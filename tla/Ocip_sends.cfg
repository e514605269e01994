\* Overlapping sends of two agents, deliveries between them, and a restart.
SPECIFICATION Spec
CONSTANTS
  alice = alice  bob = bob  carol = carol
  Agents = {alice, bob}
  Tenant <- OneTenant
  OrgUnit <- OneOrg
  MaxShared <- ShareInternal
  Exchanges = {x1}
  Drafts <- Queries
  DefaultMaxRounds = 1
  Unset = Unset
  NoExchange = NoExchange
  MaxSends = 3
  MaxDeliveries = 1
  MaxRestarts = 1
INVARIANTS RoundsAreDistinctAndBounded NoSendAfterEscalation WithheldIsAudited AuditRoundNotBehind
PROPERTY ImplementsBoundedExchange
\* The bounded calls are used up and the system stops.
CHECK_DEADLOCK FALSE
