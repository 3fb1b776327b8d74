--------------------- MODULE PipelineAutomatonProofs ----------------------
(***************************************************************************)
(* Proofs about PipelineAutomaton for every value of its constants:        *)
(* type correctness, and that the deployed config is always the one of the *)
(* current descriptor version and a Shutdown pipeline holds no runtime.    *)
(***************************************************************************)
EXTENDS PipelineAutomaton, TLAPS

USE ConstantsAssumption

(* What every handler of the transition match does to the state: it       *)
(* leaves the descriptor and the task's bookkeeping alone, ends the first  *)
(* cycle, records a pending transition, and may touch the runtime.         *)
DecideShape ==
  /\ UNCHANGED <<store, runner_platform, alive, poll_timeout, restarts>>
  /\ first_run_cycle' = FALSE
  /\ phase' = "Writing"
  /\ pending' \in PendingTransition
  /\ provision_called' \in BOOLEAN
  /\ runtime' \in RuntimeState
  /\ remote' \in RemoteState

(* A step of the shape of a handler keeps the state well typed.            *)
LEMMA DecideShapeTypeOK ==
  ASSUME TypeOK, DecideShape PROVE TypeOK'
BY DEF TypeOK, DecideShape, store

(* A decided transition to a possible status, with a config in range, is a *)
(* well-typed pending transition.                                          *)
LEMMA DecidePending ==
  ASSUME TypeOK, NEW to \in Transition, NEW cfg \in 0..MaxVersion,
         Decide(to, cfg)
  PROVE  pending' \in PendingTransition /\ phase' = "Writing"
BY DEF TypeOK, Decide, PendingTransition

(* Every handler of the transition match has the shape of a decision.     *)
LEMMA DecideStepShape ==
  ASSUME TypeOK, do_run_decide PROVE DecideShape
<1>1. CASE unchanged_rows
  <2>1. pending' \in PendingTransition /\ phase' = "Writing"
    BY <1>1, DecidePending DEF unchanged_rows, Transition, NoConfig
  <2>2. QED
    BY <1>1, <2>1 DEF unchanged_rows, CycleStart, DecideShape, TypeOK, env
<1>2. CASE transit_to_shutting_down
  <2>1. pending' \in PendingTransition /\ phase' = "Writing"
    BY <1>2, DecidePending DEF transit_to_shutting_down, Transition, NoConfig
  <2>2. QED
    BY <1>2, <2>1 DEF transit_to_shutting_down, CycleStart, DecideShape, TypeOK, env
<1>3. CASE transit_shutdown_to_paused_or_running_phase_early_start
  <2> USE <1>3 DEF transit_shutdown_to_paused_or_running_phase_early_start
  <2>1. pending' \in PendingTransition /\ phase' = "Writing"
    <3>1. CASE program_status = "CompilationError"
      BY <3>1, DecidePending DEF Transition, NoConfig
    <3>2. CASE program_status = "Success"
      BY <3>2 DEF TypeOK, PendingTransition, Transition, NoConfig
    <3>3. CASE program_status \notin {"CompilationError", "Success"}
      BY <3>3, DecidePending DEF Transition, NoConfig
    <3>4. QED
      BY <3>1, <3>2, <3>3
  <2>2. QED
    BY <2>1 DEF CycleStart, DecideShape, TypeOK, env
<1>4. CASE transit_shutdown_to_paused_or_running_phase_ready
  <2> USE <1>4 DEF transit_shutdown_to_paused_or_running_phase_ready
  <2>1. pending' \in PendingTransition /\ phase' = "Writing"
    <3>1. CASE runtime_config_valid
      BY <3>1, DecidePending DEF TypeOK, Transition
    <3>2. CASE ~runtime_config_valid
      BY <3>2, DecidePending DEF Transition, NoConfig
    <3>3. QED
      BY <3>1, <3>2
  <2>2. QED
    BY <2>1 DEF CycleStart, DecideShape, TypeOK, env
<1>5. CASE transit_provisioning_to_paused_or_running_phase_call_provision
  <2> USE DEF transit_provisioning_to_paused_or_running_phase_call_provision
  <2>0. Decide("Failed", NoConfig) => pending' \in PendingTransition /\ phase' = "Writing"
    BY DecidePending DEF Transition, NoConfig
  <2>u. Decide("Unchanged", NoConfig) => pending' \in PendingTransition /\ phase' = "Writing"
    BY DecidePending DEF Transition, NoConfig
  <2>1. CASE platform_version # runner_platform \/ deployment_config = NoConfig
    <3>1. Decide("Failed", NoConfig) /\ UNCHANGED <<provision_called, runtime>>
      BY <1>5, <2>1
    <3>2. QED
      BY <1>5, <3>1, <2>0 DEF CycleStart, DecideShape, TypeOK, env
  <2>2. CASE platform_version = runner_platform /\ deployment_config # NoConfig
    <3>1. PICK err \in ExecutorErrors :
             IF err
               THEN /\ Decide("Failed", NoConfig)
                    /\ runtime' \in {runtime, IF runtime = "Absent"
                                                THEN "Starting" ELSE runtime}
                    /\ UNCHANGED provision_called
               ELSE /\ Decide("Unchanged", NoConfig)
                    /\ runtime' = IF runtime = "Absent"
                                    THEN "Starting" ELSE runtime
                    /\ provision_called' = TRUE
      BY <1>5, <2>2
    <3>2. runtime' \in RuntimeState /\ provision_called' \in BOOLEAN
      BY <3>1 DEF TypeOK, RuntimeState
    <3>3. pending' \in PendingTransition /\ phase' = "Writing"
      BY <3>1, <2>0, <2>u
    <3>4. QED
      BY <1>5, <3>2, <3>3 DEF CycleStart, DecideShape, TypeOK, env
  <2>3. QED
    BY <2>1, <2>2
<1>6. CASE transit_provisioning_to_paused_or_running_phase_awaiting
  <2>1. pending' \in PendingTransition /\ phase' = "Writing"
    BY <1>6, DecidePending DEF transit_provisioning_to_paused_or_running_phase_awaiting, Transition, NoConfig, ExecutorErrors
  <2>2. QED
    BY <1>6, <2>1 DEF transit_provisioning_to_paused_or_running_phase_awaiting, CycleStart, DecideShape, TypeOK, env, ExecutorErrors
<1>7. CASE transit_initializing_to_paused_or_running
  <2>1. pending' \in PendingTransition /\ phase' = "Writing"
    BY <1>7, DecidePending DEF transit_initializing_to_paused_or_running, Transition, NoConfig, CheckFails, check_pipeline_status
  <2>2. QED
    BY <1>7, <2>1 DEF transit_initializing_to_paused_or_running, CycleStart, DecideShape, TypeOK, env, CheckFails, check_pipeline_status
<1>8. CASE perform_action_initialized_pipeline
  <2> USE <1>8
  <2>1. deployment_desired_status \in {"Paused", "Running"}
    BY DEF perform_action_initialized_pipeline, CycleStart
  <2>2. PICK checkFails \in CheckFails, lost \in BOOLEAN :
          IF deployment_location = NoLocation \/ checkFails
            THEN Decide("Failed", NoConfig) /\ UNCHANGED remote
          ELSE IF remote \in Running_or_Paused
            THEN /\ remote' = deployment_desired_status
                 /\ IF lost THEN Decide("Unavailable", NoConfig)
                            ELSE Decide(deployment_desired_status, NoConfig)
          ELSE IF remote \in {"Down", "Init"}
            THEN Decide("Unavailable", NoConfig) /\ UNCHANGED remote
          ELSE Decide("Failed", NoConfig) /\ UNCHANGED remote
    BY DEF perform_action_initialized_pipeline
  <2>3. pending' \in PendingTransition /\ phase' = "Writing"
    BY <2>1, <2>2, DecidePending DEF Transition, NoConfig
  <2>4. remote' \in RemoteState
    BY <2>1, <2>2 DEF TypeOK, RemoteState
  <2>5. QED
    BY <2>3, <2>4 DEF perform_action_initialized_pipeline, CycleStart,
       DecideShape, TypeOK, env
<1>9. CASE probe_initialized_pipeline
  <2> USE <1>9
  <2>1. check_pipeline_status \subseteq {"Unavailable", "Paused", "Running", "Error"}
    BY DEF check_pipeline_status, StatsOf, TypeOK, RemoteState
  <2>2. pending' \in PendingTransition /\ phase' = "Writing"
    BY <2>1, DecidePending DEF probe_initialized_pipeline, Transition,
       NoConfig
  <2>3. QED
    BY <2>2 DEF probe_initialized_pipeline, CycleStart, DecideShape, TypeOK,
       env
<1>10. CASE transit_shutting_down_to_shutdown_ok
  <2>1. pending' \in PendingTransition /\ phase' = "Writing"
    BY <1>10, DecidePending DEF transit_shutting_down_to_shutdown_ok, Transition, NoConfig
  <2>2. QED
    BY <1>10, <2>1 DEF transit_shutting_down_to_shutdown_ok, CycleStart,
       DecideShape, TypeOK, env, RuntimeState, RemoteState
<1>11. CASE transit_shutting_down_to_shutdown_error
  <2>1. pending' \in PendingTransition /\ phase' = "Writing"
    BY <1>11, DecidePending DEF transit_shutting_down_to_shutdown_error, Transition, NoConfig
  <2>2. QED
    BY <1>11, <2>1 DEF transit_shutting_down_to_shutdown_error, CycleStart, DecideShape, TypeOK, env
<1>12. QED
  BY <1>1, <1>2, <1>3, <1>4, <1>5, <1>6, <1>7, <1>8, <1>9, <1>10, <1>11
  DEF do_run_decide

(* The end of the automaton task keeps the task and the runtime well       *)
(* typed, and at most releases the runtime.                                *)
LEMMA RunReturnsTypeOK ==
  ASSUME TypeOK, run_returns
  PROVE  /\ alive' \in BOOLEAN /\ runtime' \in RuntimeState
         /\ remote' \in RemoteState
         /\ runtime' \in {runtime, "Absent"}
BY DEF run_returns, TypeOK, env, RuntimeState, RemoteState

(* The branches of Write by what they do to the descriptor: nothing, the   *)
(* recompilation request, or a status transition whose guard matched.      *)
LEMMA WriteStore ==
  ASSUME Write
  PROVE  \/ UNCHANGED store
         \/ /\ transit_program_status_to_pending
            /\ pending.to = "ProgramPending"
            /\ pending.guard = program_version
            /\ UNCHANGED <<alive, env>>
         \/ /\ transit_deployment_status(pending.to, pending.cfg)
            /\ pending.to \notin {"Unchanged", "ProgramPending"}
            /\ pending.guard = version
            /\ ~deleted
            /\ UNCHANGED <<alive, env>>
BY DEF Write, StoreTransition, GuardMatches

(* The branches of Write by what they do to the task and the runtime: the  *)
(* task goes on with the runtime untouched, or run returns.                *)
LEMMA WriteTask ==
  ASSUME Write
  PROVE  UNCHANGED <<alive, env>> \/ run_returns
BY DEF Write

(* Storing the pending transition keeps the descriptor well typed, on      *)
(* every branch: no-op, program reset, swallowed outdated version, status  *)
(* transition, and the database error that ends the task.                  *)
LEMMA WriteTypeOK ==
  ASSUME TypeOK, Write PROVE TypeOK'
<1>1. PollOf[pending.from] \in PollPeriod
  BY DEF TypeOK, PendingTransition, PollOf, PollPeriod, PipelineStatus
<1>2. NoTransition \in PendingTransition
  BY DEF NoTransition, PendingTransition, Transition, NoConfig, PipelineStatus
<1>3. /\ poll_timeout' \in PollPeriod /\ pending' \in PendingTransition
      /\ phase' \in {"Idle", "Writing"}
      /\ UNCHANGED <<runner_platform, first_run_cycle, provision_called,
                     restarts>>
  BY <1>1, <1>2 DEF Write
<1>4. alive' \in BOOLEAN /\ runtime' \in RuntimeState /\ remote' \in RemoteState
  <2>1. CASE UNCHANGED <<alive, env>>
    BY <2>1 DEF TypeOK, env
  <2>2. CASE run_returns
    BY <2>2, RunReturnsTypeOK
  <2>3. QED
    BY <2>1, <2>2, WriteTask
<1>5. /\ deployment_status' \in PipelineStatus
      /\ deployment_desired_status' \in PipelineDesiredStatus
      /\ version' \in 1..MaxVersion
      /\ program_status' \in ProgramStatus
      /\ program_version' \in 1..MaxVersion
      /\ platform_version' \in 1..MaxPlatform
      /\ deployment_config' \in 0..MaxVersion
      /\ deployment_location' \in {NoLocation, Location}
      /\ runtime_config_valid' \in BOOLEAN
      /\ status_age' \in 0..MaxAge
      /\ deleted' \in BOOLEAN
  <2>1. pending.to \in Transition /\ pending.cfg \in 0..MaxVersion
    BY DEF TypeOK, PendingTransition
  <2>2. CASE UNCHANGED store
    BY <2>2 DEF TypeOK, store
  <2>3. CASE transit_program_status_to_pending
    BY <2>3 DEF TypeOK, transit_program_status_to_pending, ProgramStatus
  <2>4. CASE transit_deployment_status(pending.to, pending.cfg)
                /\ pending.to \notin {"Unchanged", "ProgramPending"}
    BY <2>1, <2>4 DEF TypeOK, transit_deployment_status, Transition,
       PipelineStatus, NoConfig
  <2>5. QED
    BY <2>2, <2>3, <2>4, WriteStore
<1>6. QED
  BY <1>3, <1>4, <1>5 DEF TypeOK

(* A cycle that ends the task (a deleted descriptor, or the panic on the   *)
(* monitoring descriptor) changes nothing but the task's liveness, the     *)
(* first-cycle flag and, through the dropped handle, the runtime.          *)
LEMMA DoRunEndsFacts ==
  ASSUME TypeOK, do_run_ends
  PROVE  /\ UNCHANGED <<store, runner_platform, phase, pending,
                       provision_called, poll_timeout, restarts>>
         /\ phase = "Idle"
         /\ first_run_cycle' \in BOOLEAN
         /\ alive' \in BOOLEAN /\ runtime' \in RuntimeState
         /\ remote' \in RemoteState
         /\ runtime' \in {runtime, "Absent"}
<1>1. CASE do_run_unknown_pipeline
  BY <1>1, RunReturnsTypeOK DEF do_run_unknown_pipeline, TypeOK
<1>2. CASE do_run_panics
  BY <1>2, RunReturnsTypeOK DEF do_run_panics, CycleStart
<1>3. QED
  BY <1>1, <1>2 DEF do_run_ends

(* Every action of the user, the compiler, the runtime, time and the       *)
(* controller keeps the state well typed.                                  *)
LEMMA EnvironmentTypeOK ==
  ASSUME TypeOK, program_version <= version, Environment PROVE TypeOK'
<1> USE DEF TypeOK, store, task, env
<1>1. CASE \E d \in PipelineDesiredStatus : set_deployment_desired_status(d)
  BY <1>1 DEF set_deployment_desired_status
<1>2. CASE update_pipeline_runtime_config
  <2>1. version' \in 1..MaxVersion
    BY <1>2 DEF update_pipeline_runtime_config, EditAllowed
  <2>4. runtime_config_valid' \in BOOLEAN
    BY <1>2 DEF update_pipeline_runtime_config
  <2>2. UNCHANGED <<deployment_status, deployment_desired_status,
                   program_status, program_version, platform_version,
                   deployment_config, deployment_location, status_age,
                   deleted, task, env>>
    BY <1>2 DEF update_pipeline_runtime_config
  <2>3. QED
    BY <2>1, <2>2, <2>4
<1>3. CASE update_pipeline_program
  <2>1. version' \in 1..MaxVersion /\ program_version' \in 1..MaxVersion
    BY <1>3, program_version <= version DEF update_pipeline_program,
       EditAllowed
  <2>2. program_status' \in ProgramStatus
    BY <1>3 DEF update_pipeline_program, ProgramStatus
  <2>3. UNCHANGED <<deployment_status, deployment_desired_status,
                   platform_version, deployment_config, deployment_location,
                   runtime_config_valid, status_age, deleted, task, env>>
    BY <1>3 DEF update_pipeline_program
  <2>4. QED
    BY <2>1, <2>2, <2>3
<1>4. CASE compile_start
  BY <1>4 DEF compile_start, next_sql_compilation, ProgramStatus
<1>5. CASE compile_done
  BY <1>5 DEF compile_done, ProgramStatus
<1>6. CASE runtime_provisioned
  BY <1>6 DEF runtime_provisioned, RuntimeState, RemoteState
<1>7. CASE remote_initialized
  BY <1>7 DEF remote_initialized, RemoteState
<1>8. CASE remote_fails
  BY <1>8 DEF remote_fails, RemoteState
<1>9. CASE runtime_crashes
  BY <1>9 DEF runtime_crashes, RuntimeState, RemoteState
<1>10. CASE tick
  BY <1>10 DEF tick
<1>11. CASE controller_restart
  <2>1. NoTransition \in PendingTransition
    BY DEF NoTransition, PendingTransition, Transition, NoConfig,
       PipelineStatus
  <2>2. /\ restarts' \in 0..MaxRestarts
        /\ runner_platform' \in 1..MaxPlatform
    BY <1>11 DEF controller_restart
  <2>3. program_status' \in ProgramStatus /\ platform_version' \in 1..MaxPlatform
    <3>1. CASE program_status \in {"Pending", "Compiling"}
      BY <1>11, <2>2, <3>1 DEF controller_restart, clear_ongoing_compilation,
         ProgramStatus
    <3>2. CASE program_status \notin {"Pending", "Compiling"}
      BY <1>11, <3>2 DEF controller_restart, clear_ongoing_compilation
    <3>3. QED
      BY <3>1, <3>2
  <2>6. poll_timeout' \in PollPeriod
    BY <1>11 DEF controller_restart, PollPeriod
  <2>5. alive' \in BOOLEAN
    BY <1>11 DEF controller_restart
  <2>4. QED
    BY <1>11, <2>1, <2>2, <2>3, <2>5, <2>6 DEF controller_restart
<1>12. CASE delete_pipeline
  BY <1>12 DEF delete_pipeline
<1>13. QED
  BY <1>1, <1>2, <1>3, <1>4, <1>5, <1>6, <1>7, <1>8, <1>9, <1>10, <1>11,
     <1>12 DEF Environment

(* The program version never runs ahead of the descriptor version: an edit *)
(* of the program bumps both (update_pipeline), and nothing else changes   *)
(* either.  This is what keeps program_version within its bound.           *)
TypeInv ==
  /\ TypeOK
  /\ program_version <= version

LEMMA TypeInvInit ==
  Init => TypeInv
<1> SUFFICES ASSUME Init PROVE TypeInv
  OBVIOUS
<1>1. NoTransition \in PendingTransition
  BY DEF NoTransition, PendingTransition, Transition, NoConfig,
     PipelineStatus
<1>2. /\ deployment_status \in PipelineStatus
      /\ deployment_desired_status \in PipelineDesiredStatus
      /\ program_status \in ProgramStatus
      /\ deployment_location \in {NoLocation, Location}
      /\ poll_timeout \in PollPeriod
      /\ runtime \in RuntimeState
      /\ remote \in RemoteState
  BY DEF Init, PipelineStatus, PipelineDesiredStatus, ProgramStatus,
     PollPeriod, RuntimeState, RemoteState
<1>3. /\ version \in 1..MaxVersion /\ program_version \in 1..MaxVersion
      /\ platform_version \in 1..MaxPlatform
      /\ deployment_config \in 0..MaxVersion /\ status_age \in 0..MaxAge
      /\ runner_platform \in 1..MaxPlatform /\ restarts \in 0..MaxRestarts
      /\ program_version <= version
  BY DEF Init, NoConfig
<1>4. QED
  BY <1>1, <1>2, <1>3 DEF Init, TypeInv, TypeOK

LEMMA TypeInvStep ==
  TypeInv /\ [Next]_vars => TypeInv'
<1> SUFFICES ASSUME TypeInv, [Next]_vars PROVE TypeInv'
  OBVIOUS
<1>1. CASE do_run_decide
  <2>1. DecideShape
    BY <1>1, DecideStepShape DEF TypeInv
  <2>2. QED
    BY <2>1, DecideShapeTypeOK DEF TypeInv, DecideShape, store
<1>2. CASE Write
  <2>1. program_version' = program_version /\ version' = version
    BY <1>2, WriteStore DEF transit_program_status_to_pending,
       transit_deployment_status, store
  <2>2. QED
    BY <1>2, <2>1, WriteTypeOK DEF TypeInv
<1>3. CASE Environment
  <2>1. program_version' <= version'
    <3> USE DEF TypeInv, TypeOK
    <3>1. CASE update_pipeline_runtime_config
      BY <3>1 DEF update_pipeline_runtime_config
    <3>2. CASE update_pipeline_program
      BY <3>2 DEF update_pipeline_program
    <3>3. CASE ~update_pipeline_runtime_config /\ ~update_pipeline_program
      BY <1>3, <3>3 DEF Environment, set_deployment_desired_status,
         delete_pipeline, compile_start, compile_done, runtime_provisioned,
         remote_initialized, remote_fails, runtime_crashes, tick,
         controller_restart, store
    <3>4. QED
      BY <3>1, <3>2, <3>3
  <2>2. QED
    BY <1>3, <2>1, EnvironmentTypeOK DEF TypeInv
<1>4. CASE UNCHANGED vars
  BY <1>4 DEF TypeInv, TypeOK, vars, store, task, env
<1>5. CASE do_run_ends
  <2>1. UNCHANGED <<store, runner_platform, phase, pending, provision_called,
                   poll_timeout, restarts>>
    BY <1>5, DoRunEndsFacts DEF TypeInv
  <2>2. /\ first_run_cycle' \in BOOLEAN /\ alive' \in BOOLEAN
        /\ runtime' \in RuntimeState /\ remote' \in RemoteState
    BY <1>5, DoRunEndsFacts DEF TypeInv
  <2>3. QED
    BY <2>1, <2>2 DEF TypeInv, TypeOK, store
<1>6. QED
  BY <1>1, <1>2, <1>3, <1>4, <1>5 DEF Next

(* Type correctness of the automaton: in every behaviour, whatever the     *)
(* user edits, the compiler, the runtime and controller restarts do, every *)
(* variable stays in its domain.                                           *)
THEOREM TypeCorrect ==
  Spec => []TypeOK
<1>1. Init => TypeInv
  BY TypeInvInit
<1>2. TypeInv /\ [Next]_vars => TypeInv'
  BY TypeInvStep
<1>3. TypeInv => TypeOK
  BY DEF TypeInv
<1>4. QED
  BY <1>1, <1>2, <1>3, PTL DEF Spec

-----------------------------------------------------------------------------
(* What a handler's decision carries to the write: it was taken in the     *)
(* status read, a Provisioning transition carries the config of its own    *)
(* version guard, a transition to a deploying status other than            *)
(* Provisioning is taken in a deploying status, Shutdown is decided only   *)
(* once the runtime is released and provision_called reset, no handler     *)
(* touches the runtime or provision_called of a shut-down pipeline, and a  *)
(* status transition follows an edge of the                                *)
(* lifecycle.                                                              *)
HandlerFacts ==
  /\ UNCHANGED <<store, alive>>
  /\ phase' = "Writing"
  /\ pending'.from = deployment_status
  /\ pending'.to = "Provisioning" => pending'.cfg = pending'.guard
  /\ pending'.to \in Deploying \ {"Provisioning"} =>
       deployment_status \in Deploying
  /\ pending'.to = "Shutdown" => runtime' = "Absent" /\ ~provision_called'
  /\ deployment_status = "Shutdown" =>
       runtime' = runtime /\ provision_called' = provision_called
  /\ pending'.to \in PipelineStatus =>
       pending'.to \in Lifecycle!Successors[deployment_status]

LEMMA DecideStepFacts ==
  ASSUME TypeOK, do_run_decide PROVE HandlerFacts
<1>1. CASE unchanged_rows
  <2>1. UNCHANGED <<store, alive, runtime, provision_called>>
    BY <1>1 DEF unchanged_rows, env
  <2>2. deployment_status \in {"Shutdown", "Failed"}
    BY <1>1 DEF unchanged_rows, CycleStart
  <2>3. phase' = "Writing" /\ pending'.from = deployment_status
    BY <1>1 DEF unchanged_rows, Decide
  <2>4. pending'.to \in {"Unchanged"}
    BY <1>1 DEF unchanged_rows, Decide
  <2>5. QED
    BY <2>1, <2>2, <2>3, <2>4 DEF HandlerFacts, Deploying,
       Lifecycle!Successors, PipelineStatus
<1>2. CASE transit_to_shutting_down
  <2>1. UNCHANGED <<store, alive, runtime>>
    BY <1>2 DEF transit_to_shutting_down, env
  <2>2. deployment_status \in {"Provisioning", "Initializing", "Paused", "Running", "Unavailable", "Failed"}
    BY <1>2 DEF transit_to_shutting_down, CycleStart
  <2>3. phase' = "Writing" /\ pending'.from = deployment_status
    BY <1>2 DEF transit_to_shutting_down, Decide
  <2>4. pending'.to \in {"ShuttingDown"}
    BY <1>2 DEF transit_to_shutting_down, Decide
  <2>5. QED
    BY <2>1, <2>2, <2>3, <2>4 DEF HandlerFacts, Deploying,
       Lifecycle!Successors, PipelineStatus
<1>3. CASE transit_shutdown_to_paused_or_running_phase_early_start
  <2>1. UNCHANGED <<store, alive, runtime, provision_called>>
    BY <1>3 DEF transit_shutdown_to_paused_or_running_phase_early_start, env
  <2>2. deployment_status \in {"Shutdown"}
    BY <1>3 DEF transit_shutdown_to_paused_or_running_phase_early_start, CycleStart
  <2>3. phase' = "Writing" /\ pending'.from = deployment_status
    BY <1>3 DEF transit_shutdown_to_paused_or_running_phase_early_start, Decide
  <2>4. pending'.to \in {"Failed", "ProgramPending", "Unchanged"}
    BY <1>3 DEF transit_shutdown_to_paused_or_running_phase_early_start, Decide
  <2>5. QED
    BY <2>1, <2>2, <2>3, <2>4 DEF HandlerFacts, Deploying,
       Lifecycle!Successors, PipelineStatus
<1>4. CASE transit_shutdown_to_paused_or_running_phase_ready
  <2>1. UNCHANGED <<store, alive, runtime, provision_called>>
    BY <1>4 DEF transit_shutdown_to_paused_or_running_phase_ready, env
  <2>2. deployment_status \in {"Shutdown"}
    BY <1>4 DEF transit_shutdown_to_paused_or_running_phase_ready, CycleStart
  <2>3. phase' = "Writing" /\ pending'.from = deployment_status
    BY <1>4 DEF transit_shutdown_to_paused_or_running_phase_ready, Decide
  <2>4. pending'.to \in {"Provisioning", "Failed"}
    BY <1>4 DEF transit_shutdown_to_paused_or_running_phase_ready, Decide
  <2>5. pending'.to = "Provisioning" => pending'.cfg = pending'.guard
    BY <1>4 DEF transit_shutdown_to_paused_or_running_phase_ready, Decide
  <2>6. QED
    BY <2>1, <2>2, <2>3, <2>4, <2>5 DEF HandlerFacts, Deploying,
       Lifecycle!Successors, PipelineStatus
<1>5. CASE transit_provisioning_to_paused_or_running_phase_call_provision
  <2>1. UNCHANGED <<store, alive>>
    BY <1>5 DEF transit_provisioning_to_paused_or_running_phase_call_provision
  <2>2. deployment_status \in {"Provisioning"}
    BY <1>5 DEF transit_provisioning_to_paused_or_running_phase_call_provision, CycleStart
  <2>a. Decide("Failed", NoConfig) \/ Decide("Unchanged", NoConfig)
    BY <1>5 DEF transit_provisioning_to_paused_or_running_phase_call_provision
  <2>3. phase' = "Writing" /\ pending'.from = deployment_status
    BY <2>a DEF Decide
  <2>4. pending'.to \in {"Failed", "Unchanged"}
    BY <2>a DEF Decide
  <2>5. QED
    BY <2>1, <2>2, <2>3, <2>4 DEF HandlerFacts, Deploying,
       Lifecycle!Successors, PipelineStatus
<1>6. CASE transit_provisioning_to_paused_or_running_phase_awaiting
  <2>1. UNCHANGED <<store, alive, runtime>>
    BY <1>6 DEF transit_provisioning_to_paused_or_running_phase_awaiting, env
  <2>2. deployment_status \in {"Provisioning"}
    BY <1>6 DEF transit_provisioning_to_paused_or_running_phase_awaiting, CycleStart
  <2>3. phase' = "Writing" /\ pending'.from = deployment_status
    BY <1>6 DEF transit_provisioning_to_paused_or_running_phase_awaiting, Decide, ExecutorErrors
  <2>4. pending'.to \in {"Failed", "Initializing", "Unchanged"}
    BY <1>6 DEF transit_provisioning_to_paused_or_running_phase_awaiting, Decide, ExecutorErrors
  <2>5. QED
    BY <2>1, <2>2, <2>3, <2>4 DEF HandlerFacts, Deploying,
       Lifecycle!Successors, PipelineStatus
<1>7. CASE transit_initializing_to_paused_or_running
  <2>1. UNCHANGED <<store, alive, runtime>>
    BY <1>7 DEF transit_initializing_to_paused_or_running, env
  <2>2. deployment_status \in {"Initializing"}
    BY <1>7 DEF transit_initializing_to_paused_or_running, CycleStart
  <2>3. phase' = "Writing" /\ pending'.from = deployment_status
    BY <1>7 DEF transit_initializing_to_paused_or_running, Decide, CheckFails, check_pipeline_status
  <2>4. pending'.to \in {"Failed", "Paused", "Unchanged"}
    BY <1>7 DEF transit_initializing_to_paused_or_running, Decide, CheckFails, check_pipeline_status
  <2>5. QED
    BY <2>1, <2>2, <2>3, <2>4 DEF HandlerFacts, Deploying,
       Lifecycle!Successors, PipelineStatus
<1>8. CASE perform_action_initialized_pipeline
  <2>1. UNCHANGED <<store, alive, runtime>>
    BY <1>8 DEF perform_action_initialized_pipeline, env
  <2>2. deployment_status \in {"Paused", "Running"}
    BY <1>8 DEF perform_action_initialized_pipeline, CycleStart
  <2>a. /\ deployment_desired_status \in {"Paused", "Running"}
        /\ deployment_desired_status # deployment_status
    BY <1>8 DEF perform_action_initialized_pipeline, CycleStart
  <2>b. \/ Decide("Failed", NoConfig)
        \/ Decide("Unavailable", NoConfig)
        \/ Decide(deployment_desired_status, NoConfig)
    BY <1>8 DEF perform_action_initialized_pipeline
  <2>3. phase' = "Writing" /\ pending'.from = deployment_status
    BY <2>b DEF Decide
  <2>4. pending'.to \in {"Failed", "Unavailable", "Paused", "Running"}
    BY <2>a, <2>b DEF Decide
  <2>c. pending'.to # deployment_status
    BY <2>2, <2>a, <2>b DEF Decide
  <2>5. QED
    BY <2>1, <2>2, <2>3, <2>4, <2>c DEF HandlerFacts, Deploying,
       Lifecycle!Successors, PipelineStatus
<1>9. CASE probe_initialized_pipeline
  <2>1. UNCHANGED <<store, alive, runtime>>
    BY <1>9 DEF probe_initialized_pipeline, env
  <2>2. deployment_status \in {"Paused", "Running", "Unavailable"}
    BY <1>9 DEF probe_initialized_pipeline, CycleStart
  <2>a. check_pipeline_status \subseteq {"Unavailable", "Paused", "Running", "Error"}
    BY DEF check_pipeline_status, StatsOf, TypeOK, RemoteState
  <2>b. \/ Decide("Failed", NoConfig)
        \/ Decide("Unchanged", NoConfig)
        \/ \E res \in check_pipeline_status \ {"Error", deployment_status} :
             Decide(res, NoConfig)
    BY <1>9 DEF probe_initialized_pipeline
  <2>3. phase' = "Writing" /\ pending'.from = deployment_status
    BY <2>b DEF Decide
  <2>4. pending'.to \in {"Failed", "Unchanged", "Unavailable", "Paused", "Running"}
    BY <2>a, <2>b DEF Decide
  <2>c. pending'.to # deployment_status
    BY <2>2, <2>b DEF Decide
  <2>5. QED
    BY <2>1, <2>2, <2>3, <2>4, <2>c DEF HandlerFacts, Deploying,
       Lifecycle!Successors, PipelineStatus
<1>10. CASE transit_shutting_down_to_shutdown_ok
  <2>1. UNCHANGED <<store, alive>>
    BY <1>10 DEF transit_shutting_down_to_shutdown_ok
  <2>2. deployment_status \in {"ShuttingDown"}
    BY <1>10 DEF transit_shutting_down_to_shutdown_ok, CycleStart
  <2>3. phase' = "Writing" /\ pending'.from = deployment_status
    BY <1>10 DEF transit_shutting_down_to_shutdown_ok, Decide
  <2>4. pending'.to \in {"Shutdown"}
    BY <1>10 DEF transit_shutting_down_to_shutdown_ok, Decide
  <2>5. runtime' = "Absent" /\ ~provision_called'
    BY <1>10 DEF transit_shutting_down_to_shutdown_ok
  <2>6. QED
    BY <2>1, <2>2, <2>3, <2>4, <2>5 DEF HandlerFacts, Deploying,
       Lifecycle!Successors, PipelineStatus
<1>11. CASE transit_shutting_down_to_shutdown_error
  <2>1. UNCHANGED <<store, alive, runtime>>
    BY <1>11 DEF transit_shutting_down_to_shutdown_error, env
  <2>2. deployment_status \in {"ShuttingDown"}
    BY <1>11 DEF transit_shutting_down_to_shutdown_error, CycleStart
  <2>3. phase' = "Writing" /\ pending'.from = deployment_status
    BY <1>11 DEF transit_shutting_down_to_shutdown_error, Decide
  <2>4. pending'.to \in {"Unchanged"}
    BY <1>11 DEF transit_shutting_down_to_shutdown_error, Decide
  <2>5. QED
    BY <2>1, <2>2, <2>3, <2>4 DEF HandlerFacts, Deploying,
       Lifecycle!Successors, PipelineStatus
<1>12. QED
  BY <1>1, <1>2, <1>3, <1>4, <1>5, <1>6, <1>7, <1>8, <1>9, <1>10, <1>11
  DEF do_run_decide

(* The version guard a handler's decision carries: the descriptor version  *)
(* it read, or the program version for the recompilation request, which is *)
(* taken at Shutdown for a Success program of another platform; and        *)
(* Provisioning is decided only for a program compiled at the runner's     *)
(* platform, under the version read.                                       *)
GuardFacts ==
  /\ pending'.guard \in {version, program_version}
  /\ pending'.to = "ProgramPending" =>
       /\ deployment_status = "Shutdown" /\ pending'.guard = program_version
       /\ program_status = "Success" /\ platform_version # runner_platform
  /\ pending'.to = "Provisioning" =>
       /\ program_status = "Success" /\ pending'.guard = version
       /\ platform_version = runner_platform

LEMMA DecideGuardFacts ==
  ASSUME TypeOK, do_run_decide PROVE GuardFacts
<1> USE DEF GuardFacts, Decide, CycleStart
<1>1. CASE unchanged_rows
  BY <1>1 DEF unchanged_rows
<1>2. CASE transit_to_shutting_down
  BY <1>2 DEF transit_to_shutting_down
<1>3. CASE transit_shutdown_to_paused_or_running_phase_early_start
  BY <1>3 DEF transit_shutdown_to_paused_or_running_phase_early_start
<1>4. CASE transit_shutdown_to_paused_or_running_phase_ready
  BY <1>4 DEF transit_shutdown_to_paused_or_running_phase_ready
<1>5. CASE transit_provisioning_to_paused_or_running_phase_call_provision
  <2>1. \/ Decide("Failed", NoConfig) \/ Decide("Unchanged", NoConfig)
    BY <1>5 DEF transit_provisioning_to_paused_or_running_phase_call_provision
  <2>2. QED
    BY <2>1
<1>6. CASE transit_provisioning_to_paused_or_running_phase_awaiting
  BY <1>6 DEF transit_provisioning_to_paused_or_running_phase_awaiting
<1>7. CASE transit_initializing_to_paused_or_running
  BY <1>7 DEF transit_initializing_to_paused_or_running
<1>8. CASE perform_action_initialized_pipeline
  <2>1. deployment_desired_status \in {"Paused", "Running"}
    BY <1>8 DEF perform_action_initialized_pipeline
  <2>2. \/ Decide("Failed", NoConfig)
        \/ Decide("Unavailable", NoConfig)
        \/ Decide(deployment_desired_status, NoConfig)
    BY <1>8 DEF perform_action_initialized_pipeline
  <2>3. QED
    BY <2>1, <2>2
<1>9. CASE probe_initialized_pipeline
  <2>1. check_pipeline_status \subseteq {"Unavailable", "Paused", "Running", "Error"}
    BY DEF check_pipeline_status, StatsOf, TypeOK, RemoteState
  <2>2. \/ Decide("Failed", NoConfig)
        \/ Decide("Unchanged", NoConfig)
        \/ \E res \in check_pipeline_status : Decide(res, NoConfig)
    BY <1>9 DEF probe_initialized_pipeline
  <2>3. QED
    BY <2>1, <2>2
<1>10. CASE transit_shutting_down_to_shutdown_ok
  BY <1>10 DEF transit_shutting_down_to_shutdown_ok
<1>11. CASE transit_shutting_down_to_shutdown_error
  BY <1>11 DEF transit_shutting_down_to_shutdown_error
<1>12. QED
  BY <1>1, <1>2, <1>3, <1>4, <1>5, <1>6, <1>7, <1>8, <1>9, <1>10, <1>11
  DEF do_run_decide

(* A handler's decision keeps the inductive invariant: the descriptor is   *)
(* untouched, and the pending transition carries what the write needs.     *)
LEMMA IInvDecide ==
  ASSUME IInv, do_run_decide PROVE IInv'
<1>1. TypeOK'
  BY DecideStepShape, DecideShapeTypeOK DEF IInv
<1>2. HandlerFacts
  BY DecideStepFacts DEF IInv
<1>3. UNCHANGED store
  BY <1>2 DEF HandlerFacts
<1>4. UNCHANGED <<deployment_status, deployment_config, deployment_location,
                 version, program_version, program_status, platform_version>>
  BY <1>3 DEF store
<1>b. UNCHANGED runner_platform
  BY DecideStepShape DEF IInv, DecideShape
<1>a. GuardFacts
  BY DecideGuardFacts DEF IInv
<1>5. PendingCarries'
  <2>1. pending'.guard <= version'
    BY <1>a, <1>4 DEF GuardFacts, IInv, TypeOK
  <2>2. pending'.to = "ProgramPending" =>
          /\ pending'.guard = program_version'
          /\ pending'.guard <= program_version'
    BY <1>a, <1>4 DEF GuardFacts, IInv, TypeOK
  <2>3. QED
    BY <1>2, <1>4, <1>a, <1>b, <2>1, <2>2
    DEF HandlerFacts, GuardFacts, PendingCarries
<1>6. (program_version <= version)' /\ ShutdownHasNoConfig'
      /\ DeployedConfigCurrent'
  BY <1>4 DEF IInv, ShutdownHasNoConfig, DeployedConfigCurrent
<1>7. ShutdownReleasesRuntime'
  BY <1>2, <1>4 DEF IInv, HandlerFacts, ShutdownReleasesRuntime
<1>9. ProvisionCalledOnlyWhileDeployed'
  BY <1>2, <1>4 DEF IInv, HandlerFacts, ProvisionCalledOnlyWhileDeployed
<1>10. ProgramCompiledWhileDeployed'
  BY <1>4 DEF IInv, ProgramCompiledWhileDeployed
<1>11. LocationKnownWhileInitialized'
  BY <1>4 DEF IInv, LocationKnownWhileInitialized
<1>8. QED
  BY <1>1, <1>5, <1>6, <1>7, <1>9, <1>10, <1>11 DEF IInv

(* Two facts of the lifecycle's edges: only Shutdown leads to              *)
(* Provisioning, and Paused, Running and Unavailable are entered only from  *)
(* a status that has been through Initializing.                            *)
LEMMA SuccessorFacts ==
  /\ \A st \in PipelineStatus :
       "Provisioning" \in Lifecycle!Successors[st] => st = "Shutdown"
  /\ \A st \in PipelineStatus, to \in {"Paused", "Running", "Unavailable"} :
       to \in Lifecycle!Successors[st] => st \in Initialized
BY DEF Lifecycle!Successors, PipelineStatus, Initialized

(* Storing the pending transition keeps the inductive invariant.  The      *)
(* status moves only when the version guard matches; a Provisioning write  *)
(* then installs a config of the current version, a write into another     *)
(* deploying status keeps the config of the deploying status it leaves,    *)
(* and a Shutdown write clears config and location once the runtime is     *)
(* gone.                                                                   *)
LEMMA IInvWrite ==
  ASSUME IInv, Write PROVE IInv'
<1>1. TypeOK'
  BY WriteTypeOK DEF IInv
<1>2. /\ phase' = "Idle"
      /\ UNCHANGED <<version, program_version>>
      /\ runtime' \in {runtime, "Absent"}
  <2>1. phase' = "Idle"
    BY DEF Write
  <2>2. UNCHANGED <<version, program_version>>
    BY WriteStore DEF transit_program_status_to_pending,
       transit_deployment_status, store
  <2>3. runtime' \in {runtime, "Absent"}
    BY WriteTask, RunReturnsTypeOK DEF IInv, env
  <2>4. QED
    BY <2>1, <2>2, <2>3
<1>3. PendingCarries'
  BY <1>2 DEF PendingCarries
<1>4. (program_version <= version)'
  BY <1>2 DEF IInv
<1>5. /\ ShutdownHasNoConfig' /\ DeployedConfigCurrent'
      /\ ShutdownReleasesRuntime'
  <2> USE DEF IInv, ShutdownHasNoConfig, DeployedConfigCurrent,
              ShutdownReleasesRuntime
  <2>1. CASE UNCHANGED store
    BY <1>2, <2>1 DEF store
  <2>2. CASE transit_program_status_to_pending /\ UNCHANGED <<alive, env>>
    BY <2>2 DEF transit_program_status_to_pending, env
  <2>3. CASE /\ transit_deployment_status(pending.to, pending.cfg)
             /\ pending.to \notin {"Unchanged", "ProgramPending"}
             /\ pending.guard = version
             /\ UNCHANGED <<alive, env>>
    <3>1. pending.from = deployment_status /\ phase = "Writing"
      BY DEF PendingCarries, Write
    <3>2. CASE pending.to = "Provisioning"
      BY <1>2, <2>3, <3>1, <3>2 DEF PendingCarries, transit_deployment_status,
         Deploying
    <3>3. CASE pending.to = "Shutdown"
      BY <2>3, <3>1, <3>3 DEF PendingCarries, transit_deployment_status,
         Deploying, env
    <3>4. CASE pending.to \in Deploying \ {"Provisioning"}
      BY <1>2, <2>3, <3>1, <3>4 DEF PendingCarries,
         transit_deployment_status, Deploying
    <3>5. CASE pending.to \notin Deploying \cup {"Shutdown"}
      BY <1>2, <2>3, <3>5 DEF transit_deployment_status, Deploying
    <3>6. QED
      BY <3>2, <3>3, <3>4, <3>5 DEF Deploying
  <2>4. QED
    BY <2>1, <2>2, <2>3, WriteStore
<1>7. ProvisionCalledOnlyWhileDeployed'
  <2> USE DEF IInv, ProvisionCalledOnlyWhileDeployed
  <2>0. provision_called' = provision_called
    BY DEF Write
  <2>1. CASE UNCHANGED store
    BY <2>0, <2>1 DEF store
  <2>2. CASE transit_program_status_to_pending /\ UNCHANGED <<alive, env>>
    BY <2>0, <2>2 DEF transit_program_status_to_pending
  <2>3. CASE /\ transit_deployment_status(pending.to, pending.cfg)
             /\ pending.to \notin {"Unchanged", "ProgramPending"}
             /\ pending.guard = version
             /\ UNCHANGED <<alive, env>>
    <3>1. CASE pending.to = "Shutdown"
      <4>1. phase = "Writing"
        BY DEF Write
      <4>2. ~provision_called
        BY <3>1, <4>1 DEF PendingCarries
      <4>3. QED
        BY <2>0, <4>2
    <3>2. CASE pending.to # "Shutdown"
      BY <2>3, <3>2 DEF transit_deployment_status
    <3>3. QED
      BY <3>1, <3>2
  <2>4. QED
    BY <2>1, <2>2, <2>3, WriteStore
<1>8. ProgramCompiledWhileDeployed'
  <2> USE DEF IInv, ProgramCompiledWhileDeployed
  <2>0. phase = "Writing"
    BY DEF Write
  <2>1. CASE UNCHANGED store
    BY <2>1 DEF store
  <2>2. CASE /\ transit_program_status_to_pending
             /\ pending.to = "ProgramPending"
             /\ UNCHANGED <<alive, env>>
    <3>1. deployment_status = "Shutdown"
      BY <2>0, <2>2 DEF PendingCarries
    <3>2. QED
      BY <2>2, <3>1 DEF transit_program_status_to_pending, Deploying
  <2>3. CASE /\ transit_deployment_status(pending.to, pending.cfg)
             /\ pending.to \notin {"Unchanged", "ProgramPending"}
             /\ pending.guard = version
             /\ UNCHANGED <<alive, env>>
    <3>0. UNCHANGED program_status /\ deployment_status' = pending.to
      BY <2>3 DEF transit_deployment_status
    <3>1. CASE pending.to = "Provisioning"
      BY <2>0, <2>3, <3>0, <3>1 DEF PendingCarries
    <3>2. CASE pending.to \in Deploying \ {"Provisioning"}
      BY <2>0, <3>0, <3>2 DEF PendingCarries
    <3>3. CASE pending.to \notin Deploying
      BY <3>0, <3>3
    <3>4. QED
      BY <3>1, <3>2, <3>3
  <2>4. QED
    BY <2>1, <2>2, <2>3, WriteStore
<1>9. LocationKnownWhileInitialized'
  <2> USE DEF IInv, LocationKnownWhileInitialized, Initialized
  <2>0. phase = "Writing"
    BY DEF Write
  <2>1. CASE UNCHANGED store
    BY <2>1 DEF store
  <2>2. CASE /\ transit_program_status_to_pending
             /\ pending.to = "ProgramPending"
             /\ UNCHANGED <<alive, env>>
    BY <2>2 DEF transit_program_status_to_pending
  <2>3. CASE /\ transit_deployment_status(pending.to, pending.cfg)
             /\ pending.to \notin {"Unchanged", "ProgramPending"}
             /\ pending.guard = version
             /\ UNCHANGED <<alive, env>>
    <3>0. /\ pending.from = deployment_status
          /\ pending.to \in PipelineStatus =>
               pending.to \in Lifecycle!Successors[deployment_status]
      BY <2>0 DEF PendingCarries
    <3>1. CASE pending.to = "Initializing"
      BY <2>3, <3>1 DEF transit_deployment_status, Location,
         NoLocation
    <3>2. CASE pending.to \in {"Paused", "Running", "Unavailable"}
      <4>1. deployment_status \in Initialized
        BY <3>0, <3>2, SuccessorFacts DEF TypeOK, PipelineStatus
      <4>2. QED
        BY <2>3, <3>2, <4>1 DEF transit_deployment_status, Location,
         NoLocation
    <3>3. CASE pending.to = "Provisioning"
      <4>1. deployment_status = "Shutdown"
        BY <3>0, <3>3, SuccessorFacts DEF TypeOK, PipelineStatus
      <4>2. QED
        BY <2>3, <3>3, <4>1 DEF transit_deployment_status, Location,
         NoLocation
    <3>4. CASE pending.to \in {"Shutdown", "Failed", "ShuttingDown"}
      BY <2>3, <3>4 DEF transit_deployment_status
    <3>a. pending.to \in {"Initializing", "Paused", "Running", "Unavailable",
                          "Provisioning", "Shutdown", "Failed", "ShuttingDown"}
      BY <2>3 DEF TypeOK, PendingTransition, Transition
    <3>5. QED
      BY <3>a, <3>1, <3>2, <3>3, <3>4
  <2>4. QED
    BY <2>1, <2>2, <2>3, WriteStore
<1>6. QED
  BY <1>1, <1>3, <1>4, <1>5, <1>7, <1>8, <1>9 DEF IInv

(* A cycle that ends the task keeps the inductive invariant: it writes     *)
(* nothing, decides nothing, and the dropped handle can only release the   *)
(* runtime.                                                                *)
LEMMA IInvEnds ==
  ASSUME IInv, do_run_ends PROVE IInv'
<1>1. /\ UNCHANGED <<store, phase, pending>>
      /\ phase = "Idle"
      /\ runtime' \in {runtime, "Absent"}
  BY DoRunEndsFacts DEF IInv
<1>2. TypeOK'
  BY DoRunEndsFacts DEF IInv, TypeOK, store
<1>3. UNCHANGED <<deployment_status, deployment_config, deployment_location,
                 version, program_version>>
  BY <1>1 DEF store
<1>5. UNCHANGED provision_called
  BY DEF do_run_ends, do_run_unknown_pipeline, do_run_panics
<1>4. QED
  BY <1>1, <1>2, <1>3, <1>5 DEF IInv, PendingCarries, ShutdownHasNoConfig,
     DeployedConfigCurrent, ShutdownReleasesRuntime,
     ProvisionCalledOnlyWhileDeployed, ProgramCompiledWhileDeployed,
     LocationKnownWhileInitialized, store

(* An edit of a shut-down pipeline keeps the inductive invariant: a         *)
(* Shutdown pipeline holds no config, and the bumped version (and, for a   *)
(* program edit, the bumped program version) makes every pending guard     *)
(* stale.                                                                  *)
LEMMA EditStep ==
  ASSUME IInv, TypeOK',
         deployment_status = "Shutdown",
         UNCHANGED <<deployment_status, deployment_config, deployment_location,
                     runtime, phase, pending, provision_called,
                     platform_version, runner_platform>>,
         version' = version + 1,
         \/ UNCHANGED <<program_status, program_version>>
         \/ program_version' = program_version + 1
            /\ program_status' = "Pending"
  PROVE  IInv'
<1>1. /\ TypeOK
      /\ program_version <= version
      /\ PendingCarries
      /\ ShutdownHasNoConfig
      /\ ProvisionCalledOnlyWhileDeployed
      /\ LocationKnownWhileInitialized
      /\ ShutdownReleasesRuntime
  BY DEF IInv
<1>2. deployment_config = NoConfig
  BY <1>1 DEF ShutdownHasNoConfig
<1>3. /\ program_version' <= program_version + 1
      /\ program_version <= program_version'
  BY <1>1 DEF TypeOK
<1>4. (program_version <= version)'
  BY <1>1, <1>3 DEF TypeOK
<1>5. phase = "Writing" => pending.guard < version'
  BY <1>1 DEF PendingCarries, TypeOK, PendingTransition
<1>6. PendingCarries'
  <2>1. (phase = "Writing" => pending.guard <= version)'
    BY <1>1, <1>5 DEF TypeOK, PendingTransition
  <2>2. phase' = "Writing" => pending'.guard # version'
    BY <1>1, <1>5 DEF TypeOK, PendingTransition
  <2>3. (phase = "Writing" /\ pending.to = "ProgramPending" =>
           /\ pending.guard <= program_version
           /\ pending.guard = program_version =>
                program_status = "Success"
                /\ platform_version # runner_platform)'
    <3>1. CASE UNCHANGED <<program_status, program_version>>
      BY <1>1, <3>1 DEF PendingCarries
    <3>2. CASE program_version' = program_version + 1
      <4>1. phase = "Writing" /\ pending.to = "ProgramPending" =>
              pending.guard <= program_version
        BY <1>1 DEF PendingCarries
      <4>2. QED
        BY <3>2, <4>1, <1>1 DEF TypeOK, PendingTransition
    <3>3. QED
      BY <3>1, <3>2
  <2>4. QED
    BY <1>1, <2>1, <2>2, <2>3 DEF PendingCarries
<1>7. /\ ShutdownHasNoConfig'
      /\ DeployedConfigCurrent'
      /\ ProgramCompiledWhileDeployed'
  BY <1>2 DEF ShutdownHasNoConfig, DeployedConfigCurrent,
     ProgramCompiledWhileDeployed, Deploying
<1>8. /\ ShutdownReleasesRuntime'
      /\ ProvisionCalledOnlyWhileDeployed'
      /\ LocationKnownWhileInitialized'
  BY <1>1 DEF ShutdownReleasesRuntime, ProvisionCalledOnlyWhileDeployed,
     LocationKnownWhileInitialized
<1>9. QED
  BY <1>4, <1>6, <1>7, <1>8 DEF IInv

(* The user, the compiler, the runtime, time and a controller restart keep *)
(* the inductive invariant: edits happen only to a shut-down pipeline,     *)
(* which has no config, and the runtime only comes up from Starting, which *)
(* no Shutdown pipeline and no Shutdown decision has.                      *)
LEMMA IInvEnvironment ==
  ASSUME IInv, Environment PROVE IInv'
<1> USE DEF IInv, PendingCarries, ShutdownHasNoConfig, DeployedConfigCurrent,
            ShutdownReleasesRuntime, ProvisionCalledOnlyWhileDeployed,
            ProgramCompiledWhileDeployed, LocationKnownWhileInitialized
<1>1. TypeOK'
  BY EnvironmentTypeOK
<1>2. CASE \E d \in PipelineDesiredStatus : set_deployment_desired_status(d)
  <2>1. UNCHANGED <<deployment_status, version, program_status,
                   program_version, platform_version, deployment_config,
                   deployment_location, runner_platform, phase, pending,
                   provision_called, runtime>>
    BY <1>2 DEF set_deployment_desired_status, task, env
  <2>2. QED
    BY <1>1, <2>1
<1>3. CASE update_pipeline_runtime_config
  <2>1. /\ deployment_status = "Shutdown"
        /\ UNCHANGED <<deployment_status, deployment_config,
                       deployment_location, runtime, phase, pending,
                       provision_called, platform_version, runner_platform>>
        /\ version' = version + 1
        /\ UNCHANGED <<program_status, program_version>>
    BY <1>3 DEF update_pipeline_runtime_config, EditAllowed, task, env
  <2>2. QED
    BY <1>1, <2>1, EditStep
<1>4. CASE update_pipeline_program
  <2>1. /\ deployment_status = "Shutdown"
        /\ UNCHANGED <<deployment_status, deployment_config,
                       deployment_location, runtime, phase, pending,
                       provision_called, platform_version, runner_platform>>
        /\ version' = version + 1
        /\ program_version' = program_version + 1
        /\ program_status' = "Pending"
    BY <1>4 DEF update_pipeline_program, EditAllowed, task, env
  <2>2. QED
    BY <1>1, <2>1, EditStep
<1>5. CASE compile_start
  <2>1. program_status = "Pending" /\ deployment_status = "Shutdown"
    BY <1>5 DEF compile_start, next_sql_compilation
  <2>2. ~(phase = "Writing" /\ pending.to = "Provisioning" /\ pending.guard = version)
    BY <2>1
  <2>3. QED
    BY <1>1, <1>5, <2>1, <2>2 DEF compile_start, task, env, Deploying
<1>6. CASE compile_done
  <2>1. program_status = "Compiling"
    BY <1>6 DEF compile_done
  <2>2. /\ ~(phase = "Writing" /\ pending.to = "Provisioning" /\ pending.guard = version)
        /\ deployment_status \notin Deploying
    BY <2>1
  <2>3. QED
    BY <1>1, <1>6, <2>2 DEF compile_done, task, env
<1>7. CASE runtime_provisioned
  BY <1>1, <1>7 DEF runtime_provisioned, store, task
<1>8. CASE remote_initialized
  BY <1>1, <1>8 DEF remote_initialized, store, task
<1>9. CASE remote_fails
  BY <1>1, <1>9 DEF remote_fails, store, task
<1>10. CASE runtime_crashes
  BY <1>1, <1>10 DEF runtime_crashes, store, task
<1>11. CASE tick
  BY <1>1, <1>11 DEF tick, task, env
<1>12. CASE controller_restart
  <2>1. phase' = "Idle" /\ UNCHANGED <<deployment_status, deployment_config,
                                        deployment_location, runtime,
                                        version, program_version>>
    BY <1>12 DEF controller_restart, env
  <2>2. ProgramCompiledWhileDeployed'
    <3>1. CASE program_status \in {"Pending", "Compiling"}
      BY <2>1, <3>1
    <3>2. CASE program_status \notin {"Pending", "Compiling"}
      BY <1>12, <2>1, <3>2 DEF controller_restart, clear_ongoing_compilation
    <3>3. QED
      BY <3>1, <3>2
  <2>3. QED
    BY <1>1, <1>12, <2>1, <2>2 DEF controller_restart
<1>13. CASE delete_pipeline
  BY <1>1, <1>13 DEF delete_pipeline, task, env
<1>14. QED
  BY <1>2, <1>3, <1>4, <1>5, <1>6, <1>7, <1>8, <1>9, <1>10, <1>11, <1>12,
     <1>13 DEF Environment

LEMMA IInvInit ==
  Init => IInv
<1> SUFFICES ASSUME Init PROVE IInv
  OBVIOUS
<1>1. TypeOK
  BY TypeInvInit DEF TypeInv
<1>2. QED
  BY <1>1 DEF Init, IInv, PendingCarries, ShutdownHasNoConfig,
     DeployedConfigCurrent, ShutdownReleasesRuntime, Deploying,
     ProvisionCalledOnlyWhileDeployed, ProgramCompiledWhileDeployed,
     LocationKnownWhileInitialized, Initialized

LEMMA IInvStep ==
  IInv /\ [Next]_vars => IInv'
<1> SUFFICES ASSUME IInv, [Next]_vars PROVE IInv'
  OBVIOUS
<1>1. CASE do_run_decide
  BY <1>1, IInvDecide
<1>2. CASE Write
  BY <1>2, IInvWrite
<1>3. CASE Environment
  BY <1>3, IInvEnvironment
<1>4. CASE UNCHANGED vars
  BY <1>4 DEF vars, store, task, env, IInv, TypeOK, PendingCarries,
     ShutdownHasNoConfig, DeployedConfigCurrent, ShutdownReleasesRuntime,
     ProvisionCalledOnlyWhileDeployed, ProgramCompiledWhileDeployed,
     LocationKnownWhileInitialized, Initialized
<1>5. CASE do_run_ends
  BY <1>5, IInvEnds
<1>6. QED
  BY <1>1, <1>2, <1>3, <1>4, <1>5 DEF Next

(* The version guard of do_run's writes works: in every behaviour, for     *)
(* every bound on versions, platforms and restarts, the stored deployment  *)
(* config is absent or generated from the current descriptor version, and  *)
(* present in every deploying status, however the user's shutdown, edit    *)
(* and restart interleave with the automaton's read and write.             *)
THEOREM ConfigIsCurrent ==
  Spec => []DeployedConfigCurrent
<1>1. IInv => DeployedConfigCurrent
  BY DEF IInv
<1>2. QED
  BY <1>1, IInvInit, IInvStep, PTL DEF Spec

(* A Shutdown status is stored only after shutdown() released the runtime, *)
(* and nothing brings a runtime up for a shut-down pipeline: in every      *)
(* behaviour a Shutdown pipeline holds no runtime and no location.         *)
THEOREM ShutdownIsReleased ==
  Spec => []ShutdownReleasesRuntime
<1>1. IInv => ShutdownReleasesRuntime
  BY DEF IInv
<1>2. QED
  BY <1>1, IInvInit, IInvStep, PTL DEF Spec

(* The automaton never carries provision_called into Shutdown, whatever   *)
(* failures, version-guard misses, restarts and edits happen on the way:   *)
(* a pipeline started again from Shutdown always calls provision() anew.   *)
THEOREM ProvisionFlagIsFresh ==
  Spec => []ProvisionCalledOnlyWhileDeployed
<1>1. IInv => ProvisionCalledOnlyWhileDeployed
  BY DEF IInv
<1>2. QED
  BY <1>1, IInvInit, IInvStep, PTL DEF Spec

(* A pipeline is deployed only with a compiled program, and the program is *)
(* never sent back to compilation under a deployed pipeline: not by an     *)
(* edit, not by the recompilation request, not by a restart's clearing of  *)
(* ongoing compilations, and not by a Provisioning write that raced a      *)
(* shutdown and an edit of the program.                                    *)
THEOREM ProgramIsCompiled ==
  Spec => []ProgramCompiledWhileDeployed
<1>1. IInv => ProgramCompiledWhileDeployed
  BY DEF IInv
<1>2. QED
  BY <1>1, IInvInit, IInvStep, PTL DEF Spec

(* Every handler from Initializing on finds the location the Initializing  *)
(* write recorded, and no Shutdown or Provisioning pipeline keeps the      *)
(* address of an earlier runtime: the "location missing" arms of           *)
(* get_required_deployment_location are unreachable.                       *)
THEOREM LocationIsKnown ==
  Spec => []LocationKnownWhileInitialized
<1>1. IInv => LocationKnownWhileInitialized
  BY DEF IInv
<1>2. QED
  BY <1>1, IInvInit, IInvStep, PTL DEF Spec

(* The strengthening itself holds in every behaviour (TLC checks it as an  *)
(* invariant on the fault-injecting instance).                             *)
THEOREM IInvHolds ==
  Spec => []IInv
BY IInvInit, IInvStep, PTL DEF Spec

(* Only the write of a pending Provisioning transition moves the pipeline  *)
(* from Shutdown to Provisioning, and by PendingCarries a pending          *)
(* Provisioning whose guard still matches has a program compiled at the    *)
(* runner's platform; every other step leaves the deployment status alone. *)
LEMMA ProvisioningStep ==
  ASSUME IInv, [Next]_vars
  PROVE  [deployment_status = "Shutdown" /\ deployment_status' = "Provisioning"
            => program_status = "Success" /\ platform_version = runner_platform]_vars
<1> SUFFICES ASSUME deployment_status = "Shutdown",
                    deployment_status' = "Provisioning"
             PROVE  program_status = "Success" /\ platform_version = runner_platform
  OBVIOUS
<1>1. CASE do_run_decide
  <2>1. UNCHANGED deployment_status
    BY <1>1, DecideStepFacts DEF IInv, HandlerFacts, store
  <2>2. QED
    BY <2>1
<1>2. CASE Write
  <2>1. CASE UNCHANGED store
    BY <2>1 DEF store
  <2>2. CASE transit_program_status_to_pending
    BY <2>2 DEF transit_program_status_to_pending
  <2>3. CASE /\ transit_deployment_status(pending.to, pending.cfg)
             /\ pending.guard = version
    <3>1. pending.to = "Provisioning" /\ phase = "Writing"
      BY <1>2, <2>3 DEF transit_deployment_status, Write
    <3>2. QED
      BY <2>3, <3>1 DEF IInv, PendingCarries
  <2>4. QED
    BY <1>2, <2>1, <2>2, <2>3, WriteStore
<1>3. CASE do_run_ends
  BY <1>3, DoRunEndsFacts DEF IInv, store
<1>4. CASE Environment
  <2>1. UNCHANGED deployment_status
    BY <1>4 DEF Environment, set_deployment_desired_status,
       update_pipeline_runtime_config, update_pipeline_program,
       delete_pipeline, compile_start, compile_done, runtime_provisioned,
       remote_initialized, remote_fails, runtime_crashes, tick,
       controller_restart, store
  <2>2. QED
    BY <2>1
<1>5. CASE UNCHANGED vars
  BY <1>5 DEF vars, store
<1>6. QED
  BY <1>1, <1>2, <1>3, <1>4, <1>5 DEF Next

(* Spec section 3, invariant 5, for every value of the constants: a stored *)
(* Shutdown-to-Provisioning transition always has a Success program of the *)
(* controller's platform version, although the check and the write are     *)
(* separated by user edits, compilations and controller restarts.          *)
THEOREM ProvisionsCompiledProgram ==
  Spec => ProvisioningOnlyFromCompiledProgram
<1>1. IInv /\ [Next]_vars
        => [deployment_status = "Shutdown" /\ deployment_status' = "Provisioning"
              => program_status = "Success"
                 /\ platform_version = runner_platform]_vars
  BY ProvisioningStep
<1>2. QED
  BY <1>1, IInvHolds, PTL DEF Spec, ProvisioningOnlyFromCompiledProgram

(* Of the handlers only call_provision sets provision_called: the others   *)
(* leave it alone or, shutting the runtime down, reset it.                 *)
LEMMA DecideFlag ==
  ASSUME do_run_decide,
         ~transit_provisioning_to_paused_or_running_phase_call_provision
  PROVE  provision_called' \in {provision_called, FALSE}
BY Zenon DEF do_run_decide, unchanged_rows, transit_to_shutting_down,
   transit_shutdown_to_paused_or_running_phase_early_start,
   transit_shutdown_to_paused_or_running_phase_ready,
   transit_provisioning_to_paused_or_running_phase_awaiting,
   transit_initializing_to_paused_or_running,
   perform_action_initialized_pipeline, probe_initialized_pipeline,
   transit_shutting_down_to_shutdown_ok,
   transit_shutting_down_to_shutdown_error

(* provision() is called only after the platform check, in Provisioning    *)
(* where the program is Success; a restart forgets the call; the program   *)
(* and its platform change only at Shutdown, where no call is recorded, or *)
(* through the compiler, which never holds a Success program.              *)
LEMMA ProvisionedStep ==
  ASSUME IInv, ProvisionedForRunnerPlatform, [Next]_vars
  PROVE  ProvisionedForRunnerPlatform'
<1> SUFFICES ASSUME provision_called'
             PROVE  program_status' = "Success"
                    /\ platform_version' = runner_platform'
  BY DEF ProvisionedForRunnerPlatform
<1>1. CASE do_run_decide
  <2>1. UNCHANGED <<store, runner_platform>>
    BY <1>1, DecideStepShape DEF IInv, DecideShape
  <2>2. CASE transit_provisioning_to_paused_or_running_phase_call_provision
    <3>1. deployment_status = "Provisioning"
      BY <2>2 DEF transit_provisioning_to_paused_or_running_phase_call_provision,
         CycleStart
    <3>2. program_status = "Success"
      BY <3>1 DEF IInv, ProgramCompiledWhileDeployed, Deploying
    <3>3. provision_called \/ platform_version = runner_platform
      BY <2>2, Zenon
      DEF transit_provisioning_to_paused_or_running_phase_call_provision
    <3>4. QED
      BY <2>1, <3>2, <3>3 DEF ProvisionedForRunnerPlatform, store
  <2>3. CASE ~transit_provisioning_to_paused_or_running_phase_call_provision
    <3>1. provision_called
      BY <1>1, <2>3, DecideFlag, Zenon
    <3>2. QED
      BY <2>1, <3>1 DEF ProvisionedForRunnerPlatform, store
  <2>4. QED
    BY <2>2, <2>3
<1>2. CASE Write
  <2>1. UNCHANGED <<provision_called, runner_platform>>
    BY <1>2, Zenon DEF Write
  <2>2. CASE transit_program_status_to_pending /\ pending.to = "ProgramPending"
    <3>1. deployment_status = "Shutdown"
      BY <1>2, <2>2 DEF Write, IInv, PendingCarries
    <3>2. QED
      BY <2>1, <3>1 DEF IInv, ProvisionCalledOnlyWhileDeployed
  <2>3. CASE transit_deployment_status(pending.to, pending.cfg)
    BY <2>1, <2>3 DEF transit_deployment_status, ProvisionedForRunnerPlatform
  <2>4. CASE UNCHANGED store
    BY <2>1, <2>4 DEF store, ProvisionedForRunnerPlatform
  <2>5. QED
    BY <1>2, <2>2, <2>3, <2>4, WriteStore
<1>3. CASE do_run_ends
  BY <1>3, DoRunEndsFacts, Zenon DEF IInv, store, ProvisionedForRunnerPlatform
<1>4. CASE Environment
  <2>1. CASE update_pipeline_program
    BY <2>1 DEF update_pipeline_program, EditAllowed, task, IInv,
       ProvisionCalledOnlyWhileDeployed
  <2>2. CASE compile_start
    BY <2>2 DEF compile_start, next_sql_compilation, task, IInv,
       ProvisionCalledOnlyWhileDeployed
  <2>3. CASE compile_done
    BY <2>3 DEF compile_done, task, ProvisionedForRunnerPlatform
  <2>4. CASE controller_restart
    BY <2>4 DEF controller_restart
  <2>5. CASE ~update_pipeline_program /\ ~compile_start /\ ~compile_done
             /\ ~controller_restart
    <3>1. UNCHANGED <<program_status, platform_version, runner_platform,
                      provision_called>>
      BY <1>4, <2>5, Zenon DEF Environment, set_deployment_desired_status,
         update_pipeline_runtime_config, delete_pipeline,
         runtime_provisioned, remote_initialized, remote_fails,
         runtime_crashes, tick, task, store
    <3>2. QED
      BY <3>1 DEF ProvisionedForRunnerPlatform
  <2>6. QED
    BY <2>1, <2>2, <2>3, <2>4, <2>5
<1>5. CASE UNCHANGED vars
  BY <1>5 DEF vars, store, task, ProvisionedForRunnerPlatform
<1>6. QED
  BY <1>1, <1>2, <1>3, <1>4, <1>5 DEF Next

(* For every value of the constants, provision() is called only for a     *)
(* Success program of the calling runner's platform, although the Shutdown *)
(* handler's check and the call are separated by writes, edits,            *)
(* compilations and controller restarts as newer platforms.               *)
THEOREM ProvisionsForRunner ==
  Spec => []ProvisionedForRunnerPlatform
<1>1. Init => ProvisionedForRunnerPlatform
  BY DEF Init, ProvisionedForRunnerPlatform
<1>2. IInv /\ ProvisionedForRunnerPlatform /\ [Next]_vars
        => ProvisionedForRunnerPlatform'
  BY ProvisionedStep
<1>3. QED
  BY <1>1, <1>2, IInvInit, IInvStep, PTL DEF Spec
=============================================================================
