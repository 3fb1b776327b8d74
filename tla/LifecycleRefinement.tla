------------------------- MODULE LifecycleRefinement -------------------------
(***************************************************************************)
(* Proof that PipelineAutomaton implements DeploymentLifecycle under the   *)
(* mapping Lifecycle of PipelineAutomaton: the descriptor's fields are the *)
(* lifecycle's, and resources are held while the executor has a runtime.   *)
(* The step proof rests on the inductive invariant IInv of                 *)
(* PipelineAutomatonProofs: a stored transition was decided in the status  *)
(* still stored, along an edge of the lifecycle, with the config of its    *)
(* own guard, and a Shutdown only once the runtime was released.           *)
(***************************************************************************)
EXTENDS PipelineAutomatonProofs

USE ConstantsAssumption

(* A handler acts on an existing descriptor, and the only runtime it       *)
(* brings up is the one provision() starts for a Provisioning pipeline     *)
(* that had none; otherwise it leaves the runtime alone or shuts it down.  *)
LEMMA DecideRuntime ==
  ASSUME TypeOK, do_run_decide
  PROVE  /\ ~deleted
         /\ \/ runtime' \in {runtime, "Absent"}
            \/ deployment_status = "Provisioning" /\ runtime = "Absent"
<1>1. ~deleted
  BY DEF do_run_decide, unchanged_rows, transit_to_shutting_down,
     transit_shutdown_to_paused_or_running_phase_early_start,
     transit_shutdown_to_paused_or_running_phase_ready,
     transit_provisioning_to_paused_or_running_phase_call_provision,
     transit_provisioning_to_paused_or_running_phase_awaiting,
     transit_initializing_to_paused_or_running,
     perform_action_initialized_pipeline, probe_initialized_pipeline,
     transit_shutting_down_to_shutdown_ok,
     transit_shutting_down_to_shutdown_error, CycleStart
<1>2. \/ runtime' \in {runtime, "Absent"}
      \/ deployment_status = "Provisioning" /\ runtime = "Absent"
  <2> USE DEF do_run_decide
  <2>1. CASE transit_provisioning_to_paused_or_running_phase_call_provision
    <3>1. deployment_status = "Provisioning"
      BY <2>1
      DEF transit_provisioning_to_paused_or_running_phase_call_provision,
          CycleStart
    <3>2. CASE runtime = "Absent"
      BY <3>1, <3>2
    <3>3. CASE runtime # "Absent"
      BY <2>1, <3>3
      DEF transit_provisioning_to_paused_or_running_phase_call_provision
    <3>4. QED
      BY <3>2, <3>3
  <2>2. CASE transit_shutting_down_to_shutdown_ok
    BY <2>2 DEF transit_shutting_down_to_shutdown_ok
  <2>3. CASE perform_action_initialized_pipeline
    BY <2>3 DEF perform_action_initialized_pipeline
  <2>4. CASE unchanged_rows
    BY <2>4 DEF unchanged_rows, env
  <2>5. CASE transit_to_shutting_down
    BY <2>5 DEF transit_to_shutting_down, env
  <2>6. CASE transit_shutdown_to_paused_or_running_phase_early_start
    BY <2>6 DEF transit_shutdown_to_paused_or_running_phase_early_start, env
  <2>7. CASE transit_shutdown_to_paused_or_running_phase_ready
    BY <2>7 DEF transit_shutdown_to_paused_or_running_phase_ready, env
  <2>8. CASE transit_provisioning_to_paused_or_running_phase_awaiting
    BY <2>8 DEF transit_provisioning_to_paused_or_running_phase_awaiting, env
  <2>9. CASE transit_initializing_to_paused_or_running
    BY <2>9 DEF transit_initializing_to_paused_or_running, env
  <2>10. CASE probe_initialized_pipeline
    BY <2>10 DEF probe_initialized_pipeline, env
  <2>11. CASE transit_shutting_down_to_shutdown_error
    BY <2>11 DEF transit_shutting_down_to_shutdown_error, env
  <2>12. QED
    BY <2>1, <2>2, <2>3, <2>4, <2>5, <2>6, <2>7, <2>8, <2>9, <2>10, <2>11
<1>3. QED
  BY <1>1, <1>2

(* A step that leaves the descriptor alone and at most releases the        *)
(* runtime is a lifecycle stutter or a Release.                            *)
LEMMA ReleaseOrStutter ==
  ASSUME UNCHANGED <<deployment_status, deployment_desired_status, version,
                     deployment_config, deleted>>,
         runtime' \in {runtime, "Absent"}
  PROVE  [Lifecycle!Next]_Lifecycle!vars
<1>1. CASE runtime' = runtime
  BY <1>1 DEF Lifecycle!vars
<1>2. CASE runtime' = "Absent" /\ runtime # "Absent"
  <2>1. Lifecycle!Release
    BY <1>2 DEF Lifecycle!Release
  <2>2. QED
    BY <2>1 DEF Lifecycle!Next
<1>3. QED
  BY <1>1, <1>2

(* A step of the automaton, the store or the environment is a step of the  *)
(* lifecycle or leaves it alone: the user's requests are Desire, Edit and  *)
(* Delete, a stored status transition is Advance, provision() is Acquire,  *)
(* and shutdown(), a crash or a dropped handle is Release.                 *)
LEMMA RefinementStep ==
  ASSUME IInv, [Next]_vars
  PROVE  [Lifecycle!Next]_Lifecycle!vars
<1>1. CASE do_run_decide
  <2>1. /\ UNCHANGED store
        /\ ~deleted
        /\ \/ runtime' \in {runtime, "Absent"}
           \/ deployment_status = "Provisioning" /\ runtime = "Absent"
    BY <1>1, DecideStepFacts, DecideRuntime DEF IInv, HandlerFacts
  <2>2. UNCHANGED <<deployment_status, deployment_desired_status, version,
                   deployment_config, deleted>>
    BY <2>1 DEF store
  <2>3. CASE runtime' \in {runtime, "Absent"}
    BY <2>2, <2>3, ReleaseOrStutter
  <2>4. CASE runtime' \notin {runtime, "Absent"}
    <3>1. Lifecycle!Acquire
      BY <2>1, <2>2, <2>4 DEF Lifecycle!Acquire
    <3>2. QED
      BY <3>1 DEF Lifecycle!Next
  <2>5. QED
    BY <2>3, <2>4
<1>2. CASE Write
  <2>1. runtime' \in {runtime, "Absent"}
    BY <1>2, WriteTask, RunReturnsTypeOK DEF IInv, env
  <2>2. CASE UNCHANGED store
    BY <2>1, <2>2, ReleaseOrStutter DEF store
  <2>3. CASE transit_program_status_to_pending /\ UNCHANGED <<alive, env>>
    BY <2>1, <2>3, ReleaseOrStutter DEF transit_program_status_to_pending
  <2>4. CASE /\ transit_deployment_status(pending.to, pending.cfg)
             /\ pending.to \notin {"Unchanged", "ProgramPending"}
             /\ pending.guard = version
             /\ ~deleted
             /\ UNCHANGED <<alive, env>>
    <3>a. phase = "Writing"
      BY <1>2 DEF Write
    <3>b. pending.from = deployment_status
      BY <3>a DEF IInv, PendingCarries
    <3>c. pending.to \in PipelineStatus
      BY <2>4 DEF IInv, TypeOK, PendingTransition, Transition, PipelineStatus
    <3>1. /\ phase = "Writing"
          /\ pending.from = deployment_status
          /\ pending.to \in PipelineStatus
      BY <3>a, <3>b, <3>c
    <3>2. /\ pending.to \in Lifecycle!Successors[deployment_status]
          /\ pending.to = "Shutdown" => runtime = "Absent"
          /\ pending.to = "Provisioning" => pending.cfg = version
      BY <2>4, <3>1 DEF IInv, PendingCarries
    <3>3. Lifecycle!Advance(pending.to)
      BY <2>4, <3>2 DEF Lifecycle!Advance, transit_deployment_status, env,
         NoConfig, Lifecycle!NoConfig
    <3>4. pending.to \in Lifecycle!Status
      BY <3>1 DEF PipelineStatus, Lifecycle!Status
    <3>5. QED
      BY <3>3, <3>4 DEF Lifecycle!Next
  <2>5. QED
    BY <1>2, <2>2, <2>3, <2>4, WriteStore
<1>3. CASE do_run_ends
  BY <1>3, DoRunEndsFacts, ReleaseOrStutter DEF IInv, store
<1>4. CASE Environment
  <2> USE DEF Lifecycle!Next
  <2>1. CASE \E d \in PipelineDesiredStatus : set_deployment_desired_status(d)
    <3>1. PICK d \in PipelineDesiredStatus : set_deployment_desired_status(d)
      BY <2>1
    <3>2. Lifecycle!Desire(d) /\ d \in Lifecycle!Desired
      BY <3>1 DEF set_deployment_desired_status, Lifecycle!Desire, env,
         PipelineDesiredStatus, Lifecycle!Desired
    <3>3. QED
      BY <3>2
  <2>2. CASE update_pipeline_runtime_config
    BY <2>2 DEF update_pipeline_runtime_config, EditAllowed, Lifecycle!Edit,
       env
  <2>3. CASE update_pipeline_program
    BY <2>3 DEF update_pipeline_program, EditAllowed, Lifecycle!Edit, env
  <2>4. CASE delete_pipeline
    BY <2>4 DEF delete_pipeline, Lifecycle!Delete, env
  <2>5. CASE runtime_crashes
    BY <2>5 DEF runtime_crashes, Lifecycle!Release, store
  <2>6. CASE runtime_provisioned
    BY <2>6 DEF runtime_provisioned, store, Lifecycle!vars
  <2>7. CASE remote_initialized \/ remote_fails
    BY <2>7 DEF remote_initialized, remote_fails, store, Lifecycle!vars
  <2>8. CASE compile_start \/ compile_done \/ tick
    BY <2>8 DEF compile_start, compile_done, tick, env, Lifecycle!vars
  <2>9. CASE controller_restart
    BY <2>9 DEF controller_restart, env, Lifecycle!vars
  <2>10. QED
    BY <1>4, <2>1, <2>2, <2>3, <2>4, <2>5, <2>6, <2>7, <2>8, <2>9
    DEF Environment
<1>5. CASE UNCHANGED vars
  BY <1>5 DEF vars, store, env, Lifecycle!vars
<1>6. QED
  BY <1>1, <1>2, <1>3, <1>4, <1>5 DEF Next

(* The automaton implements the lifecycle of spec section 3: in every      *)
(* behaviour, for every bound, the stored status moves only along the      *)
(* lifecycle's edges, Provisioning installs the config of the version then *)
(* current, a runtime is brought up only for a Provisioning pipeline,      *)
(* Shutdown is stored only without one, only a shut-down pipeline is       *)
(* edited, and a deleted descriptor never changes.                         *)
THEOREM Refinement ==
  Spec => LifecycleSpec
<1>1. Init => Lifecycle!Init
  BY DEF Init, Lifecycle!Init, NoConfig, Lifecycle!NoConfig
<1>2. IInv /\ [Next]_vars => [Lifecycle!Next]_Lifecycle!vars
  BY RefinementStep
<1>3. QED
  BY <1>1, <1>2, IInvInit, IInvStep, PTL DEF Spec, LifecycleSpec,
     Lifecycle!Spec
=============================================================================
