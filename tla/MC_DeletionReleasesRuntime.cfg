\* The executor of the spec: dropping the handle detaches from the runtime.
CONSTANTS
  MaxVersion = 2
  MaxPlatform = 1
  MaxRestarts = 0
  MaxAge = 2
  ProvisioningTimeout = 1
  InitializationTimeout = 1
  Faults = TRUE
  Deletion = TRUE
  HandleDropShutsDown = FALSE
  MonitoringViewPossible = FALSE
SPECIFICATION Spec
PROPERTY DeletionReleasesRuntime
\* A deleted pipeline whose automaton has ended has nothing left to do.
CHECK_DEADLOCK FALSE
