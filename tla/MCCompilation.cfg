\* The automaton against the compiler hand-off: faults, two program edits,
\* an upgrade restart and deletion.
CONSTANTS
  MaxVersion = 2
  MaxPlatform = 2
  MaxRestarts = 1
  MaxAge = 2
  ProvisioningTimeout = 1
  InitializationTimeout = 1
  Faults = TRUE
  Deletion = TRUE
  HandleDropShutsDown = TRUE
  MonitoringViewPossible = TRUE
SPECIFICATION Spec
PROPERTY CompilationSpec
INVARIANT CompilingForRunnerPlatform
\* A deleted pipeline whose automaton has ended has nothing left to do.
CHECK_DEADLOCK FALSE
