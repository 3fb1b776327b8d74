\* A store that answers the monitoring descriptor, as spec section 2 allows.
CONSTANTS
  MaxVersion = 1
  MaxPlatform = 1
  MaxRestarts = 0
  MaxAge = 0
  ProvisioningTimeout = 1
  InitializationTimeout = 1
  Faults = FALSE
  Deletion = FALSE
  HandleDropShutsDown = TRUE
  MonitoringViewPossible = TRUE
SPECIFICATION Spec
PROPERTY AutomatonEndsOnlyOnStoreError
