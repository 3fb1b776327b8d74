------------------------- MODULE PipelineAutomaton -------------------------
(***************************************************************************)
(* The deployment automaton of one pipeline (pipeline_automata.rs) and the *)
(* parties it shares the pipeline descriptor with.                         *)
(*                                                                         *)
(*  - the descriptor store: the persisted fields the automaton reads and   *)
(*    the version-guarded transit_* writes (spec-modelled: the Postgres    *)
(*    implementation is not part of this repository);                     *)
(*  - the automaton: one run cycle is split into Decide, which reads the   *)
(*    descriptor, computes the State transition and performs the executor *)
(*    and HTTP side effects of its handler, and Write, which stores the    *)
(*    transition.  Other parties may act between the two;                 *)
(*  - the environment: the user API, the compiler, the pipeline runtime    *)
(*    behind the executor, the remote pipeline's HTTP server, time, and    *)
(*    controller restarts.                                                 *)
(*  - the end of the automaton task: run returns on a database error or on *)
(*    the deletion of the pipeline, or the task panics on a monitoring-only *)
(*    descriptor, and the dropped pipeline handle may take the runtime    *)
(*    down with it.                                                        *)
(*                                                                         *)
(* Reading the descriptor and computing the transition are one step: what  *)
(* happens between them changes only the store, which the decision does    *)
(* not look at again, so it commutes to after the decision.                *)
(***************************************************************************)
EXTENDS Naturals

CONSTANTS
  MaxVersion,              \* bound on user edits (descriptor version)
  MaxPlatform,             \* platform versions are 1..MaxPlatform
  MaxRestarts,             \* bound on controller restarts
  MaxAge,                  \* bound on the age of deployment_status_since
  ProvisioningTimeout,     \* provisioning_timeout, in age units
  InitializationTimeout,   \* INITIALIZATION_TIMEOUT, in age units
  Faults,                  \* whether errors, lost replies and timeouts occur
  Deletion,                \* whether the user may delete the pipeline
  HandleDropShutsDown,     \* whether dropping the pipeline handle shuts the
                           \* runtime down (run's comment) or detaches (spec)
  MonitoringViewPossible   \* whether the store may answer the monitoring
                           \* descriptor when the complete one is needed

ASSUME ConstantsAssumption ==
  /\ MaxVersion \in Nat \ {0}
  /\ MaxPlatform \in Nat \ {0}
  /\ MaxRestarts \in Nat
  /\ MaxAge \in Nat
  /\ ProvisioningTimeout \in Nat
  /\ InitializationTimeout \in Nat
  /\ Faults \in BOOLEAN
  /\ Deletion \in BOOLEAN
  /\ HandleDropShutsDown \in BOOLEAN
  /\ MonitoringViewPossible \in BOOLEAN

(* PipelineStatus and PipelineDesiredStatus.                               *)
PipelineStatus == {"Shutdown", "Provisioning", "Initializing", "Paused",
                   "Running", "Unavailable", "Failed", "ShuttingDown"}
PipelineDesiredStatus == {"Shutdown", "Paused", "Running"}

(* ProgramStatus: SqlError, RustError and SystemError are handled alike    *)
(* and are one value; the compiler's intermediate stages are "Compiling".  *)
ProgramStatus == {"Pending", "Compiling", "Success", "CompilationError"}

(* The values of the automaton's State enum (plus the recompilation        *)
(* request of the early-start phase, which is a store write of its own).   *)
Transition == {"Provisioning", "Initializing", "Paused", "Running",
               "Unavailable", "Failed", "ShuttingDown", "Shutdown",
               "Unchanged", "ProgramPending"}

(* The runtime behind the PipelineExecutor and the remote pipeline's       *)
(* HTTP control surface.                                                   *)
RuntimeState == {"Absent", "Starting", "Ready"}
RemoteState == {"Down", "Init", "Paused", "Running", "Error"}

(* The poll periods of do_run, by name.                                    *)
PollPeriod == {"shutdown_poll_period", "provisioning_poll_period",
               "INITIALIZATION_POLL_PERIOD", "DEFAULT_PIPELINE_POLL_PERIOD"}

NoConfig == 0
NoLocation == "none"
Location == "location"

VARIABLES
  \* the pipeline descriptor (store)
  deployment_status, deployment_desired_status, version, program_status,
  program_version, platform_version, deployment_config, deployment_location,
  runtime_config_valid, status_age, deleted,
  \* the automaton task and the controller running it
  runner_platform, alive, phase, pending, first_run_cycle, provision_called,
  poll_timeout, restarts,
  \* the pipeline runtime and its HTTP server
  runtime, remote

store == <<deployment_status, deployment_desired_status, version,
           program_status, program_version, platform_version,
           deployment_config, deployment_location, runtime_config_valid,
           status_age, deleted>>
task == <<runner_platform, alive, phase, pending, first_run_cycle,
          provision_called, poll_timeout, restarts>>
env == <<runtime, remote>>
vars == <<store, task, env>>

(* The refinement mapping: the descriptor's fields are the lifecycle's, and *)
(* the lifecycle's resources are held while the executor has a runtime.    *)
Lifecycle == INSTANCE DeploymentLifecycle
               WITH status <- deployment_status,
                    desired <- deployment_desired_status,
                    version <- version,
                    config <- deployment_config,
                    held <- runtime # "Absent",
                    deleted <- deleted

NoTransition == [to |-> "Unchanged", guard |-> 0, cfg |-> NoConfig,
                 from |-> "Shutdown"]

(* A transition decided by a cycle and not yet stored.                     *)
PendingTransition == [to : Transition, guard : 0..MaxVersion,
                      cfg : 0..MaxVersion, from : PipelineStatus]

(* Type invariant: every variable of the descriptor, the automaton task   *)
(* and the runtime stays within its domain across all handlers.            *)
TypeOK ==
  /\ deployment_status \in PipelineStatus
  /\ deployment_desired_status \in PipelineDesiredStatus
  /\ version \in 1..MaxVersion
  /\ program_status \in ProgramStatus
  /\ program_version \in 1..MaxVersion
  /\ platform_version \in 1..MaxPlatform
  /\ deployment_config \in 0..MaxVersion
  /\ deployment_location \in {NoLocation, Location}
  /\ runtime_config_valid \in BOOLEAN
  /\ status_age \in 0..MaxAge
  /\ deleted \in BOOLEAN
  /\ runner_platform \in 1..MaxPlatform
  /\ alive \in BOOLEAN
  /\ phase \in {"Idle", "Writing"}
  /\ pending \in PendingTransition
  /\ first_run_cycle \in BOOLEAN
  /\ provision_called \in BOOLEAN
  /\ poll_timeout \in PollPeriod
  /\ restarts \in 0..MaxRestarts
  /\ runtime \in RuntimeState
  /\ remote \in RemoteState

(* A pipeline as new_pipeline creates it, and a freshly started automaton. *)
Init ==
  /\ deployment_status = "Shutdown"
  /\ deployment_desired_status = "Shutdown"
  /\ version = 1
  /\ program_status = "Pending"
  /\ program_version = 1
  /\ platform_version = 1
  /\ deployment_config = NoConfig
  /\ deployment_location = NoLocation
  /\ runtime_config_valid = TRUE
  /\ status_age = 0
  /\ deleted = FALSE
  /\ runner_platform = 1
  /\ alive = TRUE
  /\ phase = "Idle"
  /\ pending = NoTransition
  /\ first_run_cycle = TRUE
  /\ provision_called = FALSE
  /\ poll_timeout = "DEFAULT_PIPELINE_POLL_PERIOD"
  /\ restarts = 0
  /\ runtime = "Absent"
  /\ remote = "Down"
-----------------------------------------------------------------------------
(***************************************************************************)
(* Helpers of the automaton.                                               *)
(***************************************************************************)

(* has_timeout_expired: now - deployment_status_since > timeout.           *)
has_timeout_expired(timeout) == status_age > timeout

(* StatusCheckResult of check_pipeline_status for each state of the remote *)
(* HTTP server: unreachable and 503 are Unavailable, a state other than    *)
(* Paused or Running or a non-2xx reply is Error.  With Faults the request *)
(* may also time out or lose its connection, which is Unavailable.         *)
StatsOf == [Down |-> "Unavailable", Init |-> "Unavailable",
            Paused |-> "Paused", Running |-> "Running", Error |-> "Error"]
check_pipeline_status ==
  {StatsOf[remote]} \cup (IF Faults THEN {"Unavailable"} ELSE {})

(* Whether an executor call may return an error.                           *)
ExecutorErrors == IF Faults THEN BOOLEAN ELSE {FALSE}

(* The start of a cycle: the automaton task is alive, not in the middle of *)
(* storing a transition, and the descriptor it reads exists.  The first    *)
(* cycle calls init(), which has no effect on the modelled state.          *)
CycleStart(s, d) ==
  /\ alive
  /\ phase = "Idle"
  /\ ~deleted
  /\ deployment_status = s
  /\ deployment_desired_status \in d
  /\ first_run_cycle' = FALSE

(* The cycle has computed transition `to`; Write stores it.                *)
Decide(to, cfg) ==
  /\ phase' = "Writing"
  /\ pending' = [to |-> to, guard |-> version, cfg |-> cfg,
                 from |-> deployment_status]

Running_or_Paused == {"Paused", "Running"}

(* run returns, or the task unwinds from a panic: the automaton consumes   *)
(* itself and drops its pipeline_handle.  The comment in run says the      *)
(* handle then shuts the runtime down by itself; the executor the spec     *)
(* describes detaches instead and leaves the runtime running.              *)
run_returns ==
  /\ alive' = FALSE
  /\ IF HandleDropShutsDown THEN /\ runtime' = "Absent"
                                 /\ remote' = "Down"
                            ELSE UNCHANGED env

-----------------------------------------------------------------------------
(***************************************************************************)
(* The rows of the transition match of do_run, one action per handler.     *)
(***************************************************************************)

(* Mutant: Failed stays Failed whatever the desired status.               *)
unchanged_rows_failed_any ==
  /\ \/ CycleStart("Shutdown", {"Shutdown"})
     \/ CycleStart("Failed", PipelineDesiredStatus)
  /\ Decide("Unchanged", NoConfig)
  /\ UNCHANGED <<store, runner_platform, alive, provision_called,
                 poll_timeout, restarts, env>>

(* (Shutdown, Shutdown) of the match, and (Failed, Paused | Running):     *)
(* no-op.                                                                  *)
unchanged_rows ==
  /\ \/ CycleStart("Shutdown", {"Shutdown"})
     \/ CycleStart("Failed", Running_or_Paused)
  /\ Decide("Unchanged", NoConfig)
  /\ UNCHANGED <<store, runner_platform, alive, provision_called,
                 poll_timeout, restarts, env>>

(* Mutant: the (_, Shutdown) arm also catches a Shutdown pipeline.          *)
transit_to_shutting_down_from_any ==
  /\ CycleStart(deployment_status, {"Shutdown"})
  /\ deployment_status # "ShuttingDown"
  /\ Decide("ShuttingDown", NoConfig)
  /\ UNCHANGED <<store, runner_platform, alive, provision_called,
                 poll_timeout, restarts, env>>

(* (s, Shutdown) for every s past Shutdown except ShuttingDown.            *)
transit_to_shutting_down ==
  /\ CycleStart(deployment_status, {"Shutdown"})
  /\ deployment_status \in {"Provisioning", "Initializing", "Paused",
                            "Running", "Unavailable", "Failed"}
  /\ Decide("ShuttingDown", NoConfig)
  /\ UNCHANGED <<store, runner_platform, alive, provision_called,
                 poll_timeout, restarts, env>>

(* Shutdown towards Paused/Running when the program is not compiled, or    *)
(* compiled at another platform version: fail on a compilation error,      *)
(* request recompilation on a platform mismatch, else wait.                *)
transit_shutdown_to_paused_or_running_phase_early_start ==
  /\ CycleStart("Shutdown", Running_or_Paused)
  /\ ~(program_status = "Success" /\ platform_version = runner_platform)
  /\ IF program_status = "CompilationError"
       THEN Decide("Failed", NoConfig)
     ELSE IF program_status = "Success"
       THEN /\ phase' = "Writing"
            /\ pending' = [to |-> "ProgramPending", guard |-> program_version,
                           cfg |-> NoConfig, from |-> deployment_status]
     ELSE Decide("Unchanged", NoConfig)
  /\ UNCHANGED <<store, runner_platform, alive, provision_called,
                 poll_timeout, restarts, env>>

(* Mutant: the platform version is not compared before provisioning.      *)
transit_shutdown_to_paused_or_running_phase_ready_any_platform ==
  /\ CycleStart("Shutdown", Running_or_Paused)
  /\ program_status = "Success"
  /\ IF runtime_config_valid
       THEN Decide("Provisioning", version)
       ELSE Decide("Failed", NoConfig)
  /\ UNCHANGED <<store, runner_platform, alive, provision_called,
                 poll_timeout, restarts, env>>

(* Shutdown towards Paused/Running when the program is compiled at the     *)
(* current platform: validate the runtime config, then generate the        *)
(* deployment config of the descriptor version read.                       *)
transit_shutdown_to_paused_or_running_phase_ready ==
  /\ CycleStart("Shutdown", Running_or_Paused)
  /\ program_status = "Success"
  /\ platform_version = runner_platform
  /\ IF runtime_config_valid
       THEN Decide("Provisioning", version)
       ELSE Decide("Failed", NoConfig)
  /\ UNCHANGED <<store, runner_platform, alive, provision_called,
                 poll_timeout, restarts, env>>

(* Mutant: call_provision without the platform check of lines 831-841.    *)
transit_provisioning_to_paused_or_running_phase_call_provision_any_platform ==
  /\ CycleStart("Provisioning", Running_or_Paused)
  /\ ~provision_called
  /\ \/ /\ deployment_config = NoConfig
        /\ Decide("Failed", NoConfig)
        /\ UNCHANGED <<provision_called, runtime>>
     \/ /\ deployment_config # NoConfig
        /\ \E err \in ExecutorErrors :
             IF err
               THEN /\ Decide("Failed", NoConfig)
                    /\ runtime' \in {runtime, IF runtime = "Absent"
                                                THEN "Starting" ELSE runtime}
                    /\ UNCHANGED provision_called
               ELSE /\ Decide("Unchanged", NoConfig)
                    /\ runtime' = IF runtime = "Absent"
                                    THEN "Starting" ELSE runtime
                    /\ provision_called' = TRUE
  /\ UNCHANGED <<store, runner_platform, alive, poll_timeout, restarts,
                 remote>>

(* Provisioning towards Paused/Running, provision() not yet called: check  *)
(* the platform and the deployment config, then call provision(), which is *)
(* idempotent and on error may have started the runtime or not.            *)
transit_provisioning_to_paused_or_running_phase_call_provision ==
  /\ CycleStart("Provisioning", Running_or_Paused)
  /\ ~provision_called
  /\ \/ /\ \/ platform_version # runner_platform
           \/ deployment_config = NoConfig
        /\ Decide("Failed", NoConfig)
        /\ UNCHANGED <<provision_called, runtime>>
     \/ /\ platform_version = runner_platform
        /\ deployment_config # NoConfig
        /\ \E err \in ExecutorErrors :
             IF err
               THEN /\ Decide("Failed", NoConfig)
                    /\ runtime' \in {runtime, IF runtime = "Absent"
                                                THEN "Starting" ELSE runtime}
                    /\ UNCHANGED provision_called
               ELSE /\ Decide("Unchanged", NoConfig)
                    /\ runtime' = IF runtime = "Absent"
                                    THEN "Starting" ELSE runtime
                    /\ provision_called' = TRUE
  /\ UNCHANGED <<store, runner_platform, alive, poll_timeout, restarts,
                 remote>>

(* Provisioning towards Paused/Running, provision() called: poll           *)
(* is_provisioned(); time out after provisioning_timeout.                  *)
transit_provisioning_to_paused_or_running_phase_awaiting ==
  /\ CycleStart("Provisioning", Running_or_Paused)
  /\ provision_called
  /\ \E err \in ExecutorErrors :
       IF err THEN Decide("Failed", NoConfig)
       ELSE IF runtime = "Ready" THEN Decide("Initializing", NoConfig)
       ELSE IF has_timeout_expired(ProvisioningTimeout)
         THEN Decide("Failed", NoConfig)
       ELSE Decide("Unchanged", NoConfig)
  /\ UNCHANGED <<store, runner_platform, alive, provision_called,
                 poll_timeout, restarts, env>>

(* check() of the executor: an error when the runtime is not up, or any   *)
(* time with Faults.                                                       *)
CheckFails == {runtime # "Ready"} \cup (IF Faults THEN {TRUE} ELSE {})

(* Initializing towards Paused/Running: check(), require the location,     *)
(* then GET /stats; Running after initialization is a failure, and an      *)
(* unavailable pipeline fails after INITIALIZATION_TIMEOUT.                *)
transit_initializing_to_paused_or_running ==
  /\ CycleStart("Initializing", Running_or_Paused)
  /\ \E checkFails \in CheckFails, res \in check_pipeline_status :
       IF checkFails \/ deployment_location = NoLocation
         THEN Decide("Failed", NoConfig)
       ELSE IF res = "Paused" THEN Decide("Paused", NoConfig)
       ELSE IF res = "Unavailable" /\ ~has_timeout_expired(InitializationTimeout)
         THEN Decide("Unchanged", NoConfig)
       ELSE Decide("Failed", NoConfig)
  /\ UNCHANGED <<store, runner_platform, alive, provision_called,
                 poll_timeout, restarts, env>>

(* (Paused, Running) issues /start, (Running, Paused) issues /pause: the   *)
(* location is required, then check(), then the request.  200 moves to the *)
(* target, 503 or no reply to Unavailable, any other reply to Failed.  A   *)
(* request may reach the pipeline and its reply be lost.                   *)
perform_action_initialized_pipeline ==
  /\ \/ CycleStart("Paused", {"Running"})
     \/ CycleStart("Running", {"Paused"})
  /\ LET target == deployment_desired_status IN
     \E checkFails \in CheckFails, lost \in (IF Faults THEN BOOLEAN ELSE {FALSE}) :
       IF deployment_location = NoLocation \/ checkFails
         THEN Decide("Failed", NoConfig) /\ UNCHANGED remote
       ELSE IF remote \in Running_or_Paused
         THEN /\ remote' = target
              /\ IF lost THEN Decide("Unavailable", NoConfig)
                         ELSE Decide(target, NoConfig)
       ELSE IF remote \in {"Down", "Init"}
         THEN Decide("Unavailable", NoConfig) /\ UNCHANGED remote
       ELSE Decide("Failed", NoConfig) /\ UNCHANGED remote
  /\ UNCHANGED <<store, runner_platform, alive, provision_called,
                 poll_timeout, restarts, runtime>>

(* Mutant: the probe result is adopted without an Error arm.             *)
probe_initialized_pipeline_no_error_arm ==
  /\ \/ CycleStart("Paused", {"Paused"})
     \/ CycleStart("Running", {"Running"})
     \/ CycleStart("Unavailable", Running_or_Paused)
  /\ \E checkFails \in CheckFails, res \in check_pipeline_status :
       IF checkFails \/ deployment_location = NoLocation
         THEN Decide("Failed", NoConfig)
       ELSE IF res = deployment_status THEN Decide("Unchanged", NoConfig)
       ELSE Decide(res, NoConfig)
  /\ UNCHANGED <<store, runner_platform, alive, provision_called,
                 poll_timeout, restarts, env>>

(* (Paused, Paused), (Running, Running), (Unavailable, Paused | Running):  *)
(* check(), require the location, GET /stats and adopt what the pipeline   *)
(* reports when it differs from the stored status.                         *)
probe_initialized_pipeline ==
  /\ \/ CycleStart("Paused", {"Paused"})
     \/ CycleStart("Running", {"Running"})
     \/ CycleStart("Unavailable", Running_or_Paused)
  /\ \E checkFails \in CheckFails, res \in check_pipeline_status :
       IF checkFails \/ deployment_location = NoLocation \/ res = "Error"
         THEN Decide("Failed", NoConfig)
       ELSE IF res = deployment_status THEN Decide("Unchanged", NoConfig)
       ELSE Decide(res, NoConfig)
  /\ UNCHANGED <<store, runner_platform, alive, provision_called,
                 poll_timeout, restarts, env>>

(* Mutants: shutdown() leaves provision_called set; an error of           *)
(* shutdown() is ignored and Shutdown stored.                              *)
transit_shutting_down_to_shutdown_ok_no_reset ==
  /\ CycleStart("ShuttingDown", PipelineDesiredStatus)
  /\ Decide("Shutdown", NoConfig)
  /\ runtime' = "Absent"
  /\ remote' = "Down"
  /\ UNCHANGED <<store, runner_platform, alive, provision_called,
                 poll_timeout, restarts>>

transit_shutting_down_to_shutdown_error_ignored ==
  /\ Faults
  /\ CycleStart("ShuttingDown", PipelineDesiredStatus)
  /\ Decide("Shutdown", NoConfig)
  /\ UNCHANGED <<store, runner_platform, alive, provision_called,
                 poll_timeout, restarts, env>>

(* ShuttingDown: shutdown() releases the runtime, resets provision_called  *)
(* and moves to Shutdown; on error the status stays ShuttingDown.          *)
transit_shutting_down_to_shutdown_ok ==
  /\ CycleStart("ShuttingDown", PipelineDesiredStatus)
  /\ Decide("Shutdown", NoConfig)
  /\ provision_called' = FALSE
  /\ runtime' = "Absent"
  /\ remote' = "Down"
  /\ UNCHANGED <<store, runner_platform, alive, poll_timeout, restarts>>

transit_shutting_down_to_shutdown_error ==
  /\ Faults
  /\ CycleStart("ShuttingDown", PipelineDesiredStatus)
  /\ Decide("Unchanged", NoConfig)
  /\ UNCHANGED <<store, runner_platform, alive, provision_called,
                 poll_timeout, restarts, env>>
-----------------------------------------------------------------------------
(***************************************************************************)
(* Storing the transition (the second half of do_run).                     *)
(***************************************************************************)

(* The poll timeout do_run returns, keyed by the status it looks at.       *)
PollOf == [Shutdown |-> "shutdown_poll_period",
           Provisioning |-> "provisioning_poll_period",
           Initializing |-> "INITIALIZATION_POLL_PERIOD",
           Paused |-> "DEFAULT_PIPELINE_POLL_PERIOD",
           Running |-> "DEFAULT_PIPELINE_POLL_PERIOD",
           Unavailable |-> "DEFAULT_PIPELINE_POLL_PERIOD",
           ShuttingDown |-> "shutdown_poll_period",
           Failed |-> "DEFAULT_PIPELINE_POLL_PERIOD"]

(* Mutant: the transition to Shutdown leaves the location in place.        *)
transit_deployment_status_keeps_location(to, cfg) ==
  /\ deployment_status' = to
  /\ status_age' = 0
  /\ deployment_config' = CASE to = "Provisioning" -> cfg
                            [] to = "Shutdown"     -> NoConfig
                            [] OTHER               -> deployment_config
  /\ deployment_location' = IF to = "Initializing" THEN Location
                                                  ELSE deployment_location
  /\ UNCHANGED <<deployment_desired_status, version, program_status,
                 program_version, platform_version, runtime_config_valid,
                 deleted>>

(* Mutant: the Initializing write does not record the location.           *)
transit_deployment_status_no_location(to, cfg) ==
  /\ deployment_status' = to
  /\ status_age' = 0
  /\ deployment_config' = CASE to = "Provisioning" -> cfg
                            [] to = "Shutdown"     -> NoConfig
                            [] OTHER               -> deployment_config
  /\ deployment_location' = IF to = "Shutdown" THEN NoLocation
                                              ELSE deployment_location
  /\ UNCHANGED <<deployment_desired_status, version, program_status,
                 program_version, platform_version, runtime_config_valid,
                 deleted>>

(* transit_deployment_status_to_X of the store, its version guard already  *)
(* checked: sets the status and deployment_status_since, the config at     *)
(* Provisioning, the location at Initializing, and clears both at Shutdown.*)
transit_deployment_status(to, cfg) ==
  /\ deployment_status' = to
  /\ status_age' = 0
  /\ deployment_config' = CASE to = "Provisioning" -> cfg
                            [] to = "Shutdown"     -> NoConfig
                            [] OTHER               -> deployment_config
  /\ deployment_location' = CASE to = "Initializing" -> Location
                              [] to = "Shutdown"     -> NoLocation
                              [] OTHER               -> deployment_location
  /\ UNCHANGED <<deployment_desired_status, version, program_status,
                 program_version, platform_version, runtime_config_valid,
                 deleted>>

(* transit_program_status_to_pending, guarded by the program version.      *)
transit_program_status_to_pending ==
  /\ program_status' = "Pending"
  /\ UNCHANGED <<deployment_status, deployment_desired_status, version,
                 program_version, platform_version, deployment_config,
                 deployment_location, runtime_config_valid, status_age,
                 deleted>>

(* Whether the store's version guard accepts the write: the recompilation  *)
(* request is guarded by the program version, a status transition by the  *)
(* descriptor version.                                                     *)
GuardMatches ==
  IF pending.to = "ProgramPending" THEN pending.guard = program_version
                                   ELSE pending.guard = version

(* The store call that records the pending transition.                     *)
StoreTransition ==
  IF pending.to = "ProgramPending"
    THEN transit_program_status_to_pending
    ELSE transit_deployment_status(pending.to, pending.cfg)

(* Mutant: the Provisioning write is not version-guarded.                 *)
Write_unguarded_provisioning ==
  /\ alive
  /\ phase = "Writing"
  /\ phase' = "Idle"
  /\ pending' = NoTransition
  /\ poll_timeout' = PollOf[pending.from]
  /\ \/ /\ pending.to = "Unchanged"
        /\ UNCHANGED <<store, alive, env>>
     \/ /\ pending.to # "Unchanged"
        /\ ~deleted
        /\ GuardMatches \/ pending.to = "Provisioning"
        /\ StoreTransition
        /\ UNCHANGED <<alive, env>>
     \/ /\ pending.to # "Unchanged"
        /\ \/ deleted
           \/ ~GuardMatches /\ pending.to # "Provisioning"
        /\ run_returns
        /\ UNCHANGED store
  /\ UNCHANGED <<runner_platform, first_run_cycle, provision_called,
                 restarts>>

(* Store the pending transition.  An outdated version on the way to        *)
(* Provisioning leaves the pipeline Shutdown for the next cycle to retry;  *)
(* any other database error, UnknownPipeline of a deleted descriptor       *)
(* included, ends the automaton task.  The poll timeout is taken from the  *)
(* status read at the start of the cycle.                                  *)
Write ==
  /\ alive
  /\ phase = "Writing"
  /\ phase' = "Idle"
  /\ pending' = NoTransition
  /\ poll_timeout' = PollOf[pending.from]
  /\ \/ /\ pending.to = "Unchanged"
        /\ UNCHANGED <<store, alive, env>>
     \/ /\ pending.to # "Unchanged"
        /\ ~deleted
        /\ GuardMatches
        /\ StoreTransition
        /\ UNCHANGED <<alive, env>>
     \/ /\ pending.to = "Provisioning"
        /\ ~deleted
        /\ ~GuardMatches
        /\ UNCHANGED <<store, alive, env>>
     \/ /\ pending.to # "Unchanged"
        /\ \/ deleted
           \/ ~GuardMatches /\ pending.to # "Provisioning"
        /\ run_returns
        /\ UNCHANGED store
  /\ UNCHANGED <<runner_platform, first_run_cycle, provision_called,
                 restarts>>

(* Mutant: UnknownPipeline is taken for a transient error and the cycle    *)
(* retried.                                                                *)
do_run_unknown_pipeline_retries ==
  /\ alive
  /\ phase = "Idle"
  /\ deleted
  /\ UNCHANGED vars

(* do_run's read of the descriptor fails with UnknownPipeline once the     *)
(* pipeline is deleted, and run returns.                                   *)
do_run_unknown_pipeline ==
  /\ alive
  /\ phase = "Idle"
  /\ deleted
  /\ run_returns
  /\ UNCHANGED <<store, runner_platform, phase, pending, first_run_cycle,
                 provision_called, poll_timeout, restarts>>

(* The two rows that need the complete descriptor panic when the store     *)
(* answered with the monitoring one: Shutdown towards Paused/Running with  *)
(* the program compiled at the runner's platform, and Provisioning towards *)
(* Paused/Running before provision() is called.  init() has run.           *)
do_run_panics ==
  /\ MonitoringViewPossible
  /\ \/ /\ CycleStart("Shutdown", Running_or_Paused)
        /\ program_status = "Success"
        /\ platform_version = runner_platform
     \/ /\ CycleStart("Provisioning", Running_or_Paused)
        /\ ~provision_called
  /\ run_returns
  /\ UNCHANGED <<store, runner_platform, phase, pending, provision_called,
                 poll_timeout, restarts>>

-----------------------------------------------------------------------------
(***************************************************************************)
(* The environment.                                                        *)
(***************************************************************************)

(* set_deployment_desired_status_{running,paused,shutdown} of the user API.*)
set_deployment_desired_status(d) ==
  /\ ~deleted
  /\ deployment_desired_status' = d
  /\ UNCHANGED <<deployment_status, version, program_status, program_version,
                 platform_version, deployment_config, deployment_location,
                 runtime_config_valid, status_age, deleted, task, env>>

(* update_pipeline: only a shut-down pipeline is edited; an edit bumps the *)
(* version, and an edit of the program also its program version, sending  *)
(* it back to compilation.  A runtime config edit may make it invalid.     *)
EditAllowed ==
  /\ ~deleted
  /\ deployment_status = "Shutdown"
  /\ deployment_desired_status = "Shutdown"
  /\ version < MaxVersion

update_pipeline_runtime_config ==
  /\ EditAllowed
  /\ version' = version + 1
  /\ runtime_config_valid' \in (IF Faults THEN BOOLEAN ELSE {TRUE})
  /\ UNCHANGED <<deployment_status, deployment_desired_status, program_status,
                 program_version, platform_version, deployment_config,
                 deployment_location, status_age, deleted, task, env>>

update_pipeline_program ==
  /\ EditAllowed
  /\ version' = version + 1
  /\ program_version' = program_version + 1
  /\ program_status' = "Pending"
  /\ UNCHANGED <<deployment_status, deployment_desired_status,
                 platform_version, deployment_config, deployment_location,
                 runtime_config_valid, status_age, deleted, task, env>>

(* delete_pipeline of the user API removes the descriptor; the store       *)
(* trait puts no condition on the pipeline's status.                       *)
delete_pipeline ==
  /\ Deletion
  /\ ~deleted
  /\ deleted' = TRUE
  /\ UNCHANGED <<deployment_status, deployment_desired_status, version,
                 program_status, program_version, platform_version,
                 deployment_config, deployment_location, runtime_config_valid,
                 status_age, task, env>>

(* Mutant: the compiler's query does not filter on the platform version.  *)
next_sql_compilation_any_platform ==
  /\ ~deleted
  /\ deployment_status = "Shutdown"
  /\ program_status = "Pending"

(* get_next_sql_compilation: the compiler picks up only a Pending program *)
(* of a shut-down pipeline that is of the runner's platform version.       *)
next_sql_compilation ==
  /\ ~deleted
  /\ deployment_status = "Shutdown"
  /\ program_status = "Pending"
  /\ platform_version = runner_platform

(* The compiler compiles the program it picked up; the platform version   *)
(* already is the runner's, so it stays.                                   *)
compile_start ==
  /\ next_sql_compilation
  /\ program_status' = "Compiling"
  /\ UNCHANGED <<deployment_status, deployment_desired_status, version,
                 program_version, platform_version, deployment_config,
                 deployment_location, runtime_config_valid, status_age,
                 deleted, task, env>>

compile_done ==
  /\ ~deleted
  /\ program_status = "Compiling"
  /\ program_status' \in (IF Faults THEN {"Success", "CompilationError"}
                                    ELSE {"Success"})
  /\ UNCHANGED <<deployment_status, deployment_desired_status, version,
                 program_version, platform_version, deployment_config,
                 deployment_location, runtime_config_valid, status_age,
                 deleted, task, env>>

(* The runtime launched by provision() becomes reachable; its HTTP server  *)
(* answers 503 until the pipeline has initialized, then reports Paused.    *)
runtime_provisioned ==
  /\ runtime = "Starting"
  /\ runtime' = "Ready"
  /\ remote' = "Init"
  /\ UNCHANGED <<store, task>>

remote_initialized ==
  /\ runtime = "Ready"
  /\ remote = "Init"
  /\ remote' = "Paused"
  /\ UNCHANGED <<store, task, runtime>>

(* With Faults: the pipeline fails, or the runtime dies.                   *)
remote_fails ==
  /\ Faults
  /\ remote \in {"Init", "Paused", "Running"}
  /\ remote' = "Error"
  /\ UNCHANGED <<store, task, runtime>>

runtime_crashes ==
  /\ Faults
  /\ runtime \in {"Starting", "Ready"}
  /\ runtime' = "Absent"
  /\ remote' = "Down"
  /\ UNCHANGED <<store, task>>

(* Time passes while the status does not change.  Without Faults every     *)
(* stage finishes within its timeout, so time is not modelled.             *)
tick ==
  /\ Faults
  /\ status_age < MaxAge
  /\ status_age' = status_age + 1
  /\ UNCHANGED <<deployment_status, deployment_desired_status, version,
                 program_status, program_version, platform_version,
                 deployment_config, deployment_location, runtime_config_valid,
                 deleted, task, env>>

(* Mutant: every program of another platform is sent back to Pending,      *)
(* compiled ones included.                                                 *)
clear_ongoing_compilation_any_status(p) ==
  IF program_status \in {"Pending", "Compiling"} \/ platform_version # p
  THEN /\ program_status' = "Pending"
       /\ platform_version' = p
  ELSE UNCHANGED <<program_status, platform_version>>

(* clear_ongoing_sql_compilation and clear_ongoing_rust_compilation at    *)
(* platform p: an interrupted compilation goes back to Pending, and a      *)
(* Pending or interrupted program of another platform is moved to p.  A   *)
(* program already compiled (Success or an error) is left as it is.        *)
clear_ongoing_compilation(p) ==
  IF program_status \in {"Pending", "Compiling"}
  THEN /\ program_status' = "Pending"
       /\ platform_version' = p
  ELSE UNCHANGED <<program_status, platform_version>>

(* The controller restarts, possibly as a newer platform version: the      *)
(* automaton is created anew (first_run_cycle, provision_called reset) if  *)
(* the descriptor still exists (the supervisor enumerates descriptors),    *)
(* the executor detaches from the runtime, and interrupted compilations    *)
(* are reset to Pending (clear_ongoing_*_compilation).                     *)
controller_restart ==
  /\ restarts < MaxRestarts
  /\ restarts' = restarts + 1
  /\ runner_platform' \in runner_platform..MaxPlatform
  /\ alive' = ~deleted
  /\ phase' = "Idle"
  /\ pending' = NoTransition
  /\ first_run_cycle' = TRUE
  /\ provision_called' = FALSE
  /\ poll_timeout' = "DEFAULT_PIPELINE_POLL_PERIOD"
  /\ clear_ongoing_compilation(runner_platform')
  /\ UNCHANGED <<deployment_status, deployment_desired_status, version,
                 program_version, deployment_config,
                 deployment_location, runtime_config_valid, status_age,
                 deleted, env>>

-----------------------------------------------------------------------------
(* One cycle's decision: the rows of the transition match.                 *)
do_run_decide ==
  \/ unchanged_rows
  \/ transit_to_shutting_down
  \/ transit_shutdown_to_paused_or_running_phase_early_start
  \/ transit_shutdown_to_paused_or_running_phase_ready
  \/ transit_provisioning_to_paused_or_running_phase_call_provision
  \/ transit_provisioning_to_paused_or_running_phase_awaiting
  \/ transit_initializing_to_paused_or_running
  \/ perform_action_initialized_pipeline
  \/ probe_initialized_pipeline
  \/ transit_shutting_down_to_shutdown_ok
  \/ transit_shutting_down_to_shutdown_error

Environment ==
  \/ \E d \in PipelineDesiredStatus : set_deployment_desired_status(d)
  \/ update_pipeline_runtime_config
  \/ update_pipeline_program
  \/ delete_pipeline
  \/ compile_start
  \/ compile_done
  \/ runtime_provisioned
  \/ remote_initialized
  \/ remote_fails
  \/ runtime_crashes
  \/ tick
  \/ controller_restart

(* A cycle that ends the automaton task instead of deciding.               *)
do_run_ends ==
  \/ do_run_unknown_pipeline
  \/ do_run_panics

Next == do_run_decide \/ Write \/ do_run_ends \/ Environment

(* The automaton task loops on a poll timeout, so while it is alive it     *)
(* keeps running cycles, each of which decides or ends the task (weak      *)
(* fairness).  shutdown() of the executor is assumed to succeed eventually *)
(* when retried (strong fairness: it is enabled only between cycles).  The *)
(* runtime eventually publishes its location and the pipeline initializes  *)
(* (executor contract), and the compiler works through its queue.  The     *)
(* user and failures are not fair.                                         *)
Fairness ==
  /\ WF_vars(do_run_decide \/ do_run_ends)
  /\ WF_vars(Write)
  /\ SF_vars(transit_shutting_down_to_shutdown_ok)
  /\ WF_vars(runtime_provisioned)
  /\ WF_vars(remote_initialized)
  /\ WF_vars(compile_start)
  /\ WF_vars(compile_done)

Spec == Init /\ [][Next]_vars /\ Fairness
-----------------------------------------------------------------------------
(***************************************************************************)
(* Properties.                                                             *)
(***************************************************************************)

(* The automaton, the store and the environment implement the abstract     *)
(* lifecycle: every handler's transition, once stored through the version  *)
(* guard, follows an edge of spec section 3 with the config of the current *)
(* version, the executor acquires a runtime only while Provisioning, and   *)
(* Shutdown is stored only after shutdown() released it.                   *)
LifecycleSpec == Lifecycle!Spec

(* The stored deployment_config is either absent or the one generated     *)
(* from the descriptor version that is current, and it is present from     *)
(* Provisioning until the pipeline stops or fails: a config generated from *)
(* an edited-away version (the user shuts down, edits and restarts between *)
(* the automaton's read and its write of Provisioning) never gets deployed *)
(* (the version guard of do_run's Provisioning write).                     *)
Deploying == {"Provisioning", "Initializing", "Paused", "Running", "Unavailable"}
DeployedConfigCurrent ==
  /\ deployment_config \in {NoConfig, version}
  /\ deployment_status \in Deploying => deployment_config = version

(* The refinement mapping to the compiler hand-off: the descriptor's       *)
(* program fields and the runner's platform are the hand-off's, and the    *)
(* deployment status is folded into its stage.                             *)
DeploymentStage ==
  CASE deployment_status = "Shutdown"   -> "Shutdown"
    [] deployment_status \in Deploying -> "Deploying"
    [] OTHER                            -> "Other"

Compilation == INSTANCE CompilationLifecycle
                 WITH program <- program_status,
                      pversion <- program_version,
                      platform <- platform_version,
                      current <- runner_platform,
                      stage <- DeploymentStage

(* The automaton, the compiler, the user and controller restarts together  *)
(* implement the compiler hand-off: the compiler works on a program only   *)
(* at Shutdown and at the runner's platform, only the user's edit and the  *)
(* automaton's recompilation request (for a Success program of another     *)
(* platform) send a finished program back to Pending, a restart hands      *)
(* back only unfinished ones, and deploying starts only from a Success     *)
(* program of the runner's platform.                                       *)
CompilationSpec == Compilation!Spec

(* Spec section 3, invariant 2: from Provisioning to Failed the            *)
(* deployment_config is present.                                           *)
SpecConfigPresent ==
  deployment_status \notin {"Shutdown"} => deployment_config # NoConfig

(* A pipeline reported Shutdown holds no runtime resources and no          *)
(* location: shutdown() of the executor succeeded before the Shutdown      *)
(* status was stored, whatever failed, crashed or restarted on the way.    *)
ShutdownReleasesRuntime ==
  deployment_status = "Shutdown" =>
    /\ runtime = "Absent"
    /\ deployment_location = NoLocation

(* The automaton task never ends on a database error: the comment in       *)
(* do_run says the version guard of every write other than the one to      *)
(* Provisioning always matches.                                            *)
AutomatonNeverTerminates == alive

(* After every cycle (not cut short by a restart) the automaton waits the poll period of the status the *)
(* pipeline is now in (spec section 4.4, step 5).                          *)
PollTimeoutFollowsNewStatus ==
  [][phase = "Writing" /\ phase' = "Idle" /\ restarts' = restarts
       => poll_timeout' = PollOf[deployment_status']]_vars

(* The automaton task ends only on a database error (run's doc comment:    *)
(* it runs until the pipeline is deleted or an unexpected error occurs):   *)
(* a step that ends a live task is a failed store write or a read of a     *)
(* deleted descriptor, never a cycle in which the store answered with the  *)
(* monitoring descriptor, which spec section 2 allows at any time.         *)
AutomatonEndsOnlyOnStoreError ==
  [][alive /\ ~alive' => phase = "Writing" \/ deleted]_vars

(* Deleting a pipeline eventually ends its automaton and leaves no runtime *)
(* behind: run returns on UnknownPipeline and the dropped pipeline handle  *)
(* shuts the runtime down (the comment at the end of run), whatever the    *)
(* automaton was doing when the user deleted it.                           *)
DeletionReleasesRuntime ==
  deleted ~> (~alive /\ runtime = "Absent")

(* Desiring Shutdown drives the pipeline to Shutdown from any status,      *)
(* unless the user changes the desired status again.                       *)
ShutdownDominance ==
  (deployment_desired_status = "Shutdown")
    ~> (deployment_status = "Shutdown" \/ deployment_desired_status # "Shutdown")

(* When the user's desired status settles on Paused or Running, the        *)
(* pipeline eventually settles in that status.                             *)
Convergence ==
  \A d \in Running_or_Paused :
    <>[](deployment_desired_status = d) => <>[](deployment_status = d)

(* A program sent back to Pending is eventually picked up by the compiler *)
(* (or the pipeline is deleted).  In particular the recompilation that the *)
(* automaton requests for a Success program of an outdated platform        *)
(* (do_run, pipeline_automata.rs:709-725), which "returns ownership to the *)
(* compilation component" (spec section 4.4), eventually happens.          *)
RecompilationProgresses ==
  (program_status = "Pending") ~> (program_status # "Pending" \/ deleted)

(* A deploying pipeline always runs a compiled program: Provisioning is    *)
(* entered only from a Success program at the runner's platform, and the   *)
(* program cannot be sent back to compilation under it, because edits and  *)
(* the automaton's recompilation request happen only at Shutdown, and a    *)
(* Provisioning decision that raced a shutdown-and-edit fails its version  *)
(* guard.                                                                  *)
ProgramCompiledWhileDeployed ==
  deployment_status \in Deploying => program_status = "Success"

(* Spec section 3, invariant 5: the pipeline goes from Shutdown to         *)
(* Provisioning only with a Success program of the controller's platform   *)
(* version.  The check is made when the Shutdown handler decides; the      *)
(* write comes later, and in between the user may shut down, edit the      *)
(* program and start again, or the controller may restart as a newer      *)
(* platform: the version guard and the restart's fresh automaton are what  *)
(* keep a stale decision from being stored.                                *)
ProvisioningOnlyFromCompiledProgram ==
  [][deployment_status = "Shutdown" /\ deployment_status' = "Provisioning"
       => program_status = "Success" /\ platform_version = runner_platform]_vars

(* A compilation in progress is always for the runner's platform: the     *)
(* compiler picks up only programs of that platform, and a restart at a    *)
(* newer platform sends every unfinished compilation back to Pending at    *)
(* the new platform (clear_ongoing_*_compilation), so no binary of an      *)
(* older platform is produced after an upgrade, even for the program that  *)
(* the automaton's recompilation request sent back to Pending with its old *)
(* platform_version.                                                       *)
CompilingForRunnerPlatform ==
  program_status = "Compiling" => platform_version = runner_platform

(* The stored location is there exactly when the handlers need it: every  *)
(* status from Initializing to Unavailable has the location recorded by    *)
(* the Initializing write, and Shutdown and Provisioning have none, so a   *)
(* new deployment never sees the address of the previous runtime.  The     *)
(* "location missing" error arms of get_required_deployment_location are   *)
(* then never taken.                                                       *)
Initialized == {"Initializing", "Paused", "Running", "Unavailable"}
LocationKnownWhileInitialized ==
  /\ deployment_status \in Initialized => deployment_location # NoLocation
  /\ deployment_status \in {"Shutdown", "Provisioning"} =>
       deployment_location = NoLocation

(* The automaton's provision_called flag never survives into Shutdown:     *)
(* every path to a stored Shutdown goes through the ShuttingDown handler,  *)
(* which resets it with shutdown(), or through a controller restart, which *)
(* creates the automaton anew.  Otherwise a pipeline started again from    *)
(* Shutdown would skip provision() and wait on a runtime nobody launched.  *)
ProvisionCalledOnlyWhileDeployed ==
  provision_called => deployment_status # "Shutdown"

(* Hazard of lines 828-841: provision() is called only for a Success      *)
(* program compiled at the platform of the runner that calls it.  The      *)
(* Shutdown handler checked the platform, but a controller restart as a    *)
(* newer platform may come between that check and provision(): the fresh   *)
(* automaton must then refuse the program of the old platform, and a       *)
(* restart after provision() forgets the call.                             *)
ProvisionedForRunnerPlatform ==
  provision_called =>
    program_status = "Success" /\ platform_version = runner_platform

(* What a pending transition carries between the decision and the write:   *)
(* it was decided in the status still stored (no one else writes the       *)
(* status); its version guard is not ahead of the descriptor; a            *)
(* recompilation request is taken at Shutdown and, while its program       *)
(* version guard matches, is for a Success program of another platform; a *)
(* Provisioning transition carries the config of its own version guard     *)
(* and, while that guard still matches, a program compiled at the runner's *)
(* platform; a transition into a deploying status other than Provisioning  *)
(* leaves a deploying status; a Shutdown transition is decided only once   *)
(* shutdown() has released the runtime and reset provision_called; and a   *)
(* status transition follows a lifecycle edge.                             *)
PendingCarries ==
  /\ phase = "Writing" => pending.from = deployment_status
  /\ phase = "Writing" => pending.guard <= version
  /\ phase = "Writing" /\ pending.to = "ProgramPending" =>
       /\ pending.from = "Shutdown"
       /\ pending.guard <= program_version
       /\ pending.guard = program_version =>
            program_status = "Success" /\ platform_version # runner_platform
  /\ phase = "Writing" /\ pending.to = "Provisioning" =>
       /\ pending.cfg = pending.guard
       /\ pending.guard = version =>
            program_status = "Success" /\ platform_version = runner_platform
  /\ phase = "Writing" /\ pending.to \in Deploying \ {"Provisioning"} =>
       pending.from \in Deploying
  /\ phase = "Writing" /\ pending.to = "Shutdown" =>
       runtime = "Absent" /\ ~provision_called
  /\ phase = "Writing" /\ pending.to \in PipelineStatus =>
       pending.to \in Lifecycle!Successors[pending.from]

(* A shut-down pipeline has no deployment config, so an edit of the        *)
(* descriptor (which bumps the version) never leaves a stale config.       *)
ShutdownHasNoConfig ==
  deployment_status = "Shutdown" => deployment_config = NoConfig

(* The inductive strengthening of DeployedConfigCurrent and                *)
(* ShutdownReleasesRuntime, with the program version never ahead of the    *)
(* descriptor version (update_pipeline bumps both).                        *)
IInv ==
  /\ TypeOK
  /\ ProvisionCalledOnlyWhileDeployed
  /\ ProgramCompiledWhileDeployed
  /\ LocationKnownWhileInitialized
  /\ program_version <= version
  /\ PendingCarries
  /\ ShutdownHasNoConfig
  /\ DeployedConfigCurrent
  /\ ShutdownReleasesRuntime
=============================================================================
