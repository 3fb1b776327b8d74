\* A controller upgrade while a pipeline's program is compiled at the old
\* platform, then the user starts the pipeline: the automaton requests a
\* recompilation, which the compiler's queue does not pick up.
CONSTANTS
  MaxVersion = 1
  MaxPlatform = 2
  MaxRestarts = 1
  MaxAge = 0
  ProvisioningTimeout = 1
  InitializationTimeout = 1
  Faults = FALSE
  Deletion = FALSE
  HandleDropShutsDown = TRUE
  MonitoringViewPossible = FALSE
SPECIFICATION Spec
PROPERTY RecompilationProgresses
