\* Healthy environment: no faults, no edits, no upgrade, one plain restart.
CONSTANTS
  MaxVersion = 1
  MaxPlatform = 1
  MaxRestarts = 1
  MaxAge = 0
  ProvisioningTimeout = 1
  InitializationTimeout = 1
  Faults = FALSE
  Deletion = FALSE
  HandleDropShutsDown = TRUE
  MonitoringViewPossible = FALSE
SPECIFICATION Spec
PROPERTY Convergence
