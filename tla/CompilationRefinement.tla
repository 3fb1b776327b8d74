------------------------ MODULE CompilationRefinement ------------------------
(***************************************************************************)
(* Proof that PipelineAutomaton implements CompilationLifecycle under the  *)
(* mapping Compilation of PipelineAutomaton: the descriptor's program      *)
(* status, program version and platform version and the runner's platform *)
(* are the hand-off's, and the deployment status is folded into a stage.   *)
(* The step proof rests on the inductive invariant IInv of                 *)
(* PipelineAutomatonProofs: a stored recompilation request whose guard     *)
(* matches is for a Success program of another platform, taken at          *)
(* Shutdown, and a stored Provisioning whose guard matches is for a        *)
(* Success program of the runner's platform.                               *)
(***************************************************************************)
EXTENDS PipelineAutomatonProofs

USE ConstantsAssumption

(* A handler, the end of the task and the steps of the user, time and the  *)
(* runtime that touch neither the program nor the deployment status are    *)
(* stutters of the hand-off.                                               *)
LEMMA StutterStep ==
  ASSUME UNCHANGED <<program_status, program_version, platform_version,
                     runner_platform, deployment_status>>
  PROVE  UNCHANGED Compilation!cvars
BY DEF Compilation!cvars, DeploymentStage

(* A stored status transition moves the hand-off's stage, if at all, along *)
(* a Move: entering Deploying is a stored Provisioning decided at Shutdown *)
(* whose guard matched, hence for a Success program of the runner's        *)
(* platform; the other deploying statuses are entered from a deploying one. *)
LEMMA StatusWrite ==
  ASSUME IInv, Write,
         transit_deployment_status(pending.to, pending.cfg),
         pending.to \notin {"Unchanged", "ProgramPending"},
         pending.guard = version
  PROVE  [Compilation!Next]_Compilation!cvars
<1>1. UNCHANGED <<program_status, program_version, platform_version,
                  runner_platform>>
  BY DEF transit_deployment_status, Write
<1>2. /\ phase = "Writing"
      /\ pending.from = deployment_status
      /\ deployment_status' = pending.to
      /\ pending.to \in PipelineStatus
      /\ pending.to \in Lifecycle!Successors[deployment_status]
  <2>1. phase = "Writing" /\ deployment_status' = pending.to
    BY DEF Write, transit_deployment_status
  <2>2. pending.to \in PipelineStatus
    BY DEF IInv, TypeOK, PendingTransition, Transition, PipelineStatus
  <2>3. QED
    BY <2>1, <2>2 DEF IInv, PendingCarries
<1>3. CASE DeploymentStage' = DeploymentStage
  BY <1>1, <1>3 DEF Compilation!cvars
<1>4. CASE DeploymentStage' # DeploymentStage
  <2>1. DeploymentStage' \in Compilation!Stage
    BY DEF DeploymentStage, Compilation!Stage
  <2>2. DeploymentStage' = "Deploying" =>
          /\ DeploymentStage = "Shutdown"
          /\ program_status = "Success"
          /\ platform_version = runner_platform
    <3> SUFFICES ASSUME DeploymentStage' = "Deploying"
                 PROVE  /\ DeploymentStage = "Shutdown"
                        /\ program_status = "Success"
                        /\ platform_version = runner_platform
      OBVIOUS
    <3>1. pending.to \in Deploying
      BY <1>2 DEF DeploymentStage
    <3>2. CASE pending.to = "Provisioning"
      <4>1. deployment_status = "Shutdown"
        BY <1>2, <3>2, SuccessorFacts DEF IInv, TypeOK
      <4>2. DeploymentStage = "Shutdown"
        BY <4>1 DEF DeploymentStage, Deploying
      <4>3. program_status = "Success" /\ platform_version = runner_platform
        BY <1>2, <3>2 DEF IInv, PendingCarries
      <4>4. QED
        BY <4>2, <4>3
    <3>3. CASE pending.to # "Provisioning"
      <4>1. deployment_status \in Deploying
        BY <1>2, <3>1, <3>3 DEF IInv, PendingCarries
      <4>2. DeploymentStage = "Deploying"
        BY <4>1 DEF DeploymentStage, Deploying
      <4>3. QED
        BY <1>4, <4>2
    <3>4. QED
      BY <3>2, <3>3
  <2>3. QED
    BY <1>1, <1>4, <2>1, <2>2
    DEF Compilation!Next, Compilation!Move
<1>5. QED
  BY <1>3, <1>4

(* Every step of the automaton, the store, the user, the compiler, the     *)
(* runtime and a restart is a step or a stutter of the hand-off.           *)
LEMMA CompilationStep ==
  ASSUME IInv, [Next]_vars
  PROVE  [Compilation!Next]_Compilation!cvars
<1>1. CASE do_run_decide
  <2>1. UNCHANGED <<store, runner_platform>>
    BY <1>1, DecideStepShape DEF IInv, DecideShape
  <2>2. QED
    BY <2>1, StutterStep DEF store
<1>2. CASE Write
  <2>1. UNCHANGED runner_platform
    BY <1>2 DEF Write
  <2>2. CASE UNCHANGED store
    BY <2>1, <2>2, StutterStep DEF store
  <2>3. CASE /\ transit_program_status_to_pending
             /\ pending.to = "ProgramPending"
             /\ pending.guard = program_version
    <3>1. /\ phase = "Writing"
          /\ deployment_status = "Shutdown"
          /\ program_status = "Success"
          /\ platform_version # runner_platform
      BY <1>2, <2>3 DEF Write, IInv, PendingCarries
    <3>2. DeploymentStage = "Shutdown" /\ DeploymentStage' = "Shutdown"
      BY <2>3, <3>1 DEF transit_program_status_to_pending, DeploymentStage,
         Deploying
    <3>3. Compilation!Recompile
      BY <2>1, <2>3, <3>1, <3>2
      DEF Compilation!Recompile, transit_program_status_to_pending
    <3>4. QED
      BY <3>3 DEF Compilation!Next
  <2>4. CASE /\ transit_deployment_status(pending.to, pending.cfg)
             /\ pending.to \notin {"Unchanged", "ProgramPending"}
             /\ pending.guard = version
    BY <1>2, <2>4, StatusWrite
  <2>5. QED
    BY <1>2, <2>2, <2>3, <2>4, WriteStore
<1>3. CASE do_run_ends
  BY <1>3, DoRunEndsFacts, StutterStep DEF IInv, store
<1>4. CASE Environment
  <2>1. CASE update_pipeline_program
    <3>1. DeploymentStage = "Shutdown" /\ DeploymentStage' = "Shutdown"
      BY <2>1 DEF update_pipeline_program, EditAllowed, DeploymentStage,
         Deploying
    <3>2. Compilation!Edit
      BY <2>1, <3>1 DEF update_pipeline_program, task, Compilation!Edit
    <3>3. QED
      BY <3>2 DEF Compilation!Next
  <2>2. CASE compile_start
    <3>1. DeploymentStage = "Shutdown" /\ DeploymentStage' = "Shutdown"
      BY <2>2 DEF compile_start, next_sql_compilation, DeploymentStage,
         Deploying
    <3>2. Compilation!Pickup
      BY <2>2, <3>1
      DEF compile_start, next_sql_compilation, task, Compilation!Pickup
    <3>3. QED
      BY <3>2 DEF Compilation!Next
  <2>3. CASE compile_done
    <3>1. Compilation!Finish
      BY <2>3, StutterStep
      DEF compile_done, task, Compilation!Finish, DeploymentStage
    <3>2. QED
      BY <3>1 DEF Compilation!Next
  <2>4. CASE controller_restart
    <3>1. UNCHANGED <<deployment_status, program_version>>
      BY <2>4 DEF controller_restart
    <3>2. runner_platform' \in Nat /\ runner_platform <= runner_platform'
      BY <2>4 DEF controller_restart, IInv, TypeOK
    <3>3. Compilation!Upgrade
      BY <2>4, <3>1, <3>2
      DEF controller_restart, clear_ongoing_compilation, Compilation!Upgrade,
          DeploymentStage
    <3>4. QED
      BY <3>3 DEF Compilation!Next
  <2>5. CASE ~update_pipeline_program /\ ~compile_start /\ ~compile_done
             /\ ~controller_restart
    <3>1. UNCHANGED <<program_status, program_version, platform_version,
                      runner_platform, deployment_status>>
      BY <1>4, <2>5 DEF Environment, set_deployment_desired_status,
         update_pipeline_runtime_config, delete_pipeline,
         runtime_provisioned, remote_initialized, remote_fails,
         runtime_crashes, tick, task, store
    <3>2. QED
      BY <3>1, StutterStep
  <2>6. QED
    BY <2>1, <2>2, <2>3, <2>4, <2>5
<1>5. CASE UNCHANGED vars
  BY <1>5, StutterStep DEF vars, store, task
<1>6. QED
  BY <1>1, <1>2, <1>3, <1>4, <1>5 DEF Next

(* The automaton, the user, the compiler and controller restarts together  *)
(* implement the compiler hand-off (run compilation checks it on a small   *)
(* instance with faults, edits, an upgrade restart and deletion).          *)
THEOREM CompilationRefinement ==
  Spec => CompilationSpec
<1>1. Init => Compilation!Init
  BY DEF Init, Compilation!Init, DeploymentStage, Deploying
<1>2. IInv /\ [Next]_vars => [Compilation!Next]_Compilation!cvars
  BY CompilationStep
<1>3. QED
  BY <1>1, <1>2, IInvInit, IInvStep, PTL DEF Spec, CompilationSpec,
     Compilation!Spec

(* A compilation in progress is always for the runner's platform, for     *)
(* every value of the constants: the hand-off promises it (HandOffSafe of  *)
(* CompilationLifecycle) and the implementation refines the hand-off.      *)
THEOREM CompilesForRunner ==
  Spec => []CompilingForRunnerPlatform
<1>1. Compilation!CompiledWhileDeploying => CompilingForRunnerPlatform
  BY DEF Compilation!CompiledWhileDeploying, CompilingForRunnerPlatform
<1>2. CompilationSpec => []Compilation!CompiledWhileDeploying
  BY Compilation!HandOffSafe DEF CompilationSpec
<1>3. QED
  BY <1>1, <1>2, CompilationRefinement, PTL
=============================================================================
