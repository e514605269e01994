\* Three agents, two tenants and two org units: what is passed on.
SPECIFICATION Spec
CONSTANTS
  alice = alice  bob = bob  carol = carol
  Agents = {alice, bob, carol}
  Tenant <- TwoTenants
  OrgUnit <- TwoOrgs
  MaxShared <- ShareInternal
  Exchanges = {x1}
  Drafts <- Commitments
  DefaultMaxRounds = 1
  Unset = Unset
  NoExchange = NoExchange
  MaxSends = 2
  MaxDeliveries = 2
  MaxRestarts = 0
INVARIANTS TypeOK AuditedBeforePassedOn AcceptedIsPermitted
PROPERTY LimitIsNeverExtended
\* The bounded calls are used up and the system stops.
CHECK_DEADLOCK FALSE
