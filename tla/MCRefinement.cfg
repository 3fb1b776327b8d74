\* The automaton against the abstract lifecycle: faults, edits, an upgrade
\* restart, deletion and a store that may answer the monitoring descriptor.
CONSTANTS
  MaxVersion = 2
  MaxPlatform = 2
  MaxRestarts = 1
  MaxAge = 2
  ProvisioningTimeout = 1
  InitializationTimeout = 1
  Faults = TRUE
  Deletion = TRUE
  HandleDropShutsDown = TRUE
  MonitoringViewPossible = TRUE
SPECIFICATION Spec
PROPERTY LifecycleSpec
\* A deleted pipeline whose automaton has ended has nothing left to do.
CHECK_DEADLOCK FALSE
