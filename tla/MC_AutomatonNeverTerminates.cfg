\* Faults: errors, lost replies, timeouts, two edits, an upgrade restart.
CONSTANTS
  MaxVersion = 2
  MaxPlatform = 2
  MaxRestarts = 1
  MaxAge = 2
  ProvisioningTimeout = 1
  InitializationTimeout = 1
  Faults = TRUE
  Deletion = FALSE
  HandleDropShutsDown = TRUE
  MonitoringViewPossible = FALSE
SPECIFICATION Spec
INVARIANT AutomatonNeverTerminates
