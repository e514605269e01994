SPECIFICATION FairSpec
CONSTANTS
  InstanceName = "production"
  BundleName = "production"
  InstanceSpecs <- MCInstanceSpecs
  PolicyLists <- MCPolicyLists
  SanitizeName <- MCSanitizeName
  DefaultGatewayImage = "default"
  WebhookEnabled = FALSE
  None = none
  MaxLag = 1
  MaxEvents = 4
  none = none
INVARIANTS
  TypeOK
  StatusNeverAhead
PROPERTIES
  NothingMadeForTheGone
  Converges
CHECK_DEADLOCK FALSE
