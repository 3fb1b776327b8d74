\* Deletion at any point of a deployment, with faults and the code's
\* dropping of the handle.
CONSTANTS
  MaxVersion = 2
  MaxPlatform = 1
  MaxRestarts = 0
  MaxAge = 2
  ProvisioningTimeout = 1
  InitializationTimeout = 1
  Faults = TRUE
  Deletion = TRUE
  HandleDropShutsDown = TRUE
  MonitoringViewPossible = FALSE
SPECIFICATION Spec
PROPERTY DeletionReleasesRuntime
\* A deleted pipeline whose automaton has ended has nothing left to do.
CHECK_DEADLOCK FALSE
