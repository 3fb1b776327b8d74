\* The code's handle drop, with a controller restart after a deletion.
CONSTANTS
  MaxVersion = 2
  MaxPlatform = 1
  MaxRestarts = 1
  MaxAge = 2
  ProvisioningTimeout = 1
  InitializationTimeout = 1
  Faults = TRUE
  Deletion = TRUE
  HandleDropShutsDown = TRUE
  MonitoringViewPossible = FALSE
SPECIFICATION Spec
PROPERTY DeletionReleasesRuntime
\* A deleted pipeline whose automaton has ended has nothing left to do.
CHECK_DEADLOCK FALSE
