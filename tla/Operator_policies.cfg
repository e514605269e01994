SPECIFICATION FairSpec
CONSTANTS
  InstanceName = "my-enterprise"
  BundleName = "baseline-enterprise"
  InstanceSpecs <- MCInstanceSpecs
  PolicyLists <- MCValidLists
  SanitizeName <- MCSanitizeName
  DefaultGatewayImage = "default"
  WebhookEnabled = TRUE
  None = none
  MaxLag = 1
  MaxEvents = 4
  none = none
PROPERTY PoliciesReachOPA
CHECK_DEADLOCK FALSE
