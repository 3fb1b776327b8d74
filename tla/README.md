# Verification of the pipeline deployment automaton

These TLA+ modules model the deployment lifecycle of a Feldera pipeline:
- the per-pipeline automaton in
  `src/crates/pipeline-manager/src/runner/pipeline_automata.rs`;
- the descriptor store it shares with the user API (`db/storage.rs`);
- the runtime behind the executor, the pipeline's own HTTP server, the
  compiler and controller restarts.

TLC checks the model on small instances. TLAPS proves, for every value of
the bounds:
- type correctness;
- the two main safety invariants;
- that the model implements an abstract specification of the deployment
  lifecycle.

## The system

The **automaton** (`PipelineAutomaton::run`, lines 164-205) loops forever.
Each cycle it waits for a notification or the poll timeout, then runs
`do_run` (207-547):
1. Read the descriptor (`get_pipeline_by_id_for_runner`). On the first
   cycle, call `init()` on the executor.
2. Match `(deployment_status, deployment_desired_status)` and call the
   handler of that row. The handler performs the side effects:
   - executor: `provision()`, `is_provisioned()`, `check()`, `shutdown()`;
   - HTTP: `/stats`, `/start`, `/pause`.
   It returns a `State` transition, which carries the version read in
   step 1 as its `version_guard`.
3. Store the transition with the matching `transit_deployment_status_to_X`.
   - An `OutdatedPipelineVersion` on the way to Provisioning is swallowed:
     the pipeline stays Shutdown and the next cycle retries.
   - Any other database error is returned, and `run` ends. The automaton
     task is gone until the runner restarts.
   - A deleted descriptor (`UnknownPipeline`, at the read or at the write)
     also ends `run`.
   - Dropping the ended automaton drops its pipeline handle. The comment at
     line 197 says this shuts the runtime down.
4. Return the poll timeout of the status read in step 1.

The automaton keeps two fields between cycles: `first_run_cycle` and
`provision_called`. Both are lost when the controller restarts.

**Other parties** change the descriptor:
- the user sets the desired status and edits the pipeline. An edit bumps
  `version`; an edit of the program also bumps `program_version` and sends
  the program back to compilation;
- the user may delete the pipeline at any time: the trait puts no
  condition on it;
- the compiler moves the program status through Compiling to Success or an
  error. `get_next_sql_compilation` picks up only Pending programs of the
  runner's platform version;
- a controller restart runs `clear_ongoing_*_compilation`. An interrupted
  compilation goes back to Pending, and a Pending program moves to the new
  platform.

The runtime behind the executor starts, becomes reachable, initializes and
may crash or fail.

## Modules

| Module | What it is |
|---|---|
| `PipelineAutomaton` | The whole model: store, automaton task, runtime and environment. It also holds the properties and the mutants. |
| `MCPipelineAutomaton` | The TLC instance. The constants come from the `.cfg` files. |
| `PipelineAutomatonProofs` | The TLAPS proofs: type correctness, the inductive invariant, the safety invariants and the action properties. |
| `DeploymentLifecycle` | The abstract specification: the status follows the edges of the lifecycle (spec section 3); Provisioning fixes the config of the current version; Shutdown is entered only without runtime resources; edits happen only when shut down; a deleted descriptor changes no more. |
| `LifecycleRefinement` | The TLAPS proof that `PipelineAutomaton` implements `DeploymentLifecycle`. |
| `CompilationLifecycle` | The abstract specification of the hand-off between the compiler and the deployment: the compiler picks up a Pending program only at Shutdown and at the runner's platform (`Pickup`) and finishes it (`Finish`); the user's edit (`Edit`) and the automaton's recompilation request (`Recompile`) send the program back to Pending at Shutdown; a restart (`Upgrade`) hands unfinished programs back at the new platform; the deployment starts deploying only a Success program of the runner's platform (`Move`). It holds the theorem `HandOffSafe` about itself. |
| `CompilationRefinement` | The TLAPS proof that `PipelineAutomaton` implements `CompilationLifecycle`. |

### State

| Variables | Code |
|---|---|
| `deployment_status`, `deployment_desired_status`, `version`, `program_status`, `program_version`, `platform_version`, `deployment_config`, `deployment_location`, `runtime_config_valid`, `status_age` | the descriptor |
| `runner_platform` | `PipelineAutomaton::platform_version` |
| `first_run_cycle`, `provision_called` | the automaton's fields |
| `alive` | `run` has not returned |
| `deleted` | the descriptor has been deleted |
| `poll_timeout` | the local of `run` |
| `phase`, `pending` | a transition decided and not yet stored |
| `restarts` | the bound on controller restarts |
| `runtime` | what the executor has provisioned |
| `remote` | what `/stats` would report |

Further notes on the state:
- `deployment_config` is `0` (`None`) or the version it was generated from.
  This is what the version guard is about.
- `status_age` abstracts `now - deployment_status_since`.

### Actions

Each handler of `do_run` is one action. Each takes the whole handler with
its early returns, and decides the transition:
- `unchanged_rows`
- `transit_to_shutting_down`
- `transit_shutdown_to_paused_or_running_phase_early_start`
- `transit_shutdown_to_paused_or_running_phase_ready`
- `transit_provisioning_to_paused_or_running_phase_call_provision`
- `transit_provisioning_to_paused_or_running_phase_awaiting`
- `transit_initializing_to_paused_or_running`
- `perform_action_initialized_pipeline`
- `probe_initialized_pipeline`
- `transit_shutting_down_to_shutdown_ok` and
  `transit_shutting_down_to_shutdown_error`

Two actions end the task instead of deciding:
- `do_run_unknown_pipeline`: the read finds no descriptor;
- `do_run_panics`: the store answered the monitoring view where the code
  expects the complete one (lines 264 and 294). This needs
  `MonitoringViewPossible`.

Both end in `run_returns`, which models `run` returning and the automaton
being dropped. With `HandleDropShutsDown`, the drop also releases the
runtime, as the comment at line 197 says. Without it, the drop detaches, as
spec sections 134 and 187 say.

`Write` is the second half of `do_run`: the guarded store call, the
swallowed outdated version, the fatal error, and the poll timeout.

Reading the descriptor and deciding are one step. Writing is a separate
step, so user edits, runtime events and restarts fall between a side effect
and the write that records it.

Data is abstracted:
- configs, locations and error bodies are not modelled as values;
- the reply of `/stats` is its `StatusCheckResult` class;
- an HTTP request may take effect with its reply lost (with `Faults`).

The store operations are modelled on the trait in `db/storage.rs`. The
version-guard semantics come from the spec, because `storage_postgres` is
not in this tree.

The constants `Faults`, `Deletion`, `HandleDropShutsDown` and
`MonitoringViewPossible` switch each fault model on or off. Edits are allowed only to a pipeline that is Shutdown and
desired Shutdown (`EditAllowed`).

## Runs

| Run | Config | Result | Shows |
|---|---|---|---|
| `faults` | `MCFaults.cfg` | pass, 47,241 states | With all HTTP and runtime faults, `DeployedConfigCurrent`, `ShutdownReleasesRuntime`, `ProvisionCalledOnlyWhileDeployed`, `ProgramCompiledWhileDeployed`, `LocationKnownWhileInitialized`, `IInv` and `TypeOK` hold. `provision()` is called only for a Success program of the runner's platform, even across an upgrade restart (`ProvisionedForRunnerPlatform`). Every Shutdown-to-Provisioning step has a Success program of the controller's platform (`ProvisioningOnlyFromCompiledProgram`, spec invariant 5). `ShutdownDominance` also holds: desiring Shutdown reaches Shutdown. |
| `convergence` | `MCConvergence.cfg` | pass, 579 states | Without faults, a desired Paused or Running that settles is reached and kept (`Convergence`), across a controller restart. |
| `deletion` | `MCDeletion.cfg` | pass, 22,185 states | With deletion and the handle drop that shuts down, a deleted pipeline's task ends and its runtime is released (`DeletionReleasesRuntime`). |
| `refinement` | `MCRefinement.cfg` | pass, 101,799 states | With every fault model on, the model implements `DeploymentLifecycle` (`LifecycleSpec`). |
| `never_terminates` | `MC_AutomatonNeverTerminates.cfg` | violation | The automaton task can end on a stale version guard. |
| `spec_config_present` | `MC_SpecConfigPresent.cfg` | violation | Failed without a deployment config, against spec section 3. |
| `poll_timeout` | `MC_PollTimeoutFollowsNewStatus.cfg` | violation | The poll period follows the old status. |
| `monitoring_view` | `MC_AutomatonEndsOnlyOnStoreError.cfg` | violation | A store answering the monitoring view, as the spec allows, makes the automaton panic. |
| `drop_detaches` | `MC_DeletionReleasesRuntime.cfg` | violation | If dropping the handle detaches, as the spec says, a deleted pipeline's runtime is never released. |
| `deletion_across_restart` | `MC_DeletionAcrossRestart.cfg` | violation | Even when the drop shuts down, a restart between the deletion and the next cycle leaks the runtime. |
| `compilation` | `MCCompilation.cfg` | pass, 101,799 states | With faults, edits, an upgrade restart, deletion and the monitoring view, the model implements the compiler hand-off (`CompilationSpec`), and a compilation in progress is always for the runner's platform (`CompilingForRunnerPlatform`). |
| `recompilation_progresses` | `MC_RecompilationProgresses.cfg` | violation | After a platform upgrade, the requested recompilation is never picked up (`RecompilationProgresses`). |

**Bounds.** `MCFaults` has:
- two descriptor versions: one edit, enough to make a guard stale;
- two platform versions and one restart: an upgrade in the middle of a
  deployment;
- a status age of 2 against timeouts of 1: both timeouts can fire, and
  they can also not fire.

`MCRefinement` and `MCCompilation` have the same bounds with deletion, the
monitoring view and the drop on, so every path of the model meets both
refinements.
`MCDeletion` has no restart: a restart after a deletion is the
`deletion_across_restart` case.

Every action and every branch of `Write` fires in the passing runs. The
`convergence` run has no faults and no edits. Its one restart is the case
where the code must re-provision after `provision_called` is lost. It has a
single platform version, because of finding 7.

`MCDeletion`, `MCRefinement` and `MCCompilation` set `CHECK_DEADLOCK FALSE`. A deleted
pipeline whose task has ended really stops: nothing in the system acts on it
any more.

**Fairness**, from the code's scheduling:
- `do_run_decide \/ do_run_ends` and `Write` are weakly fair: `run` loops
  on a timeout while the task is alive, and each cycle decides or ends;
- `transit_shutting_down_to_shutdown_ok` is strongly fair: `shutdown()`
  is retried every cycle and assumed to succeed eventually;
- provisioning, initialization and the compiler are weakly fair: the
  executor and the compiler make progress;
- the user, faults, time, deletion and restarts are not fair.

## Findings

1. **The automaton can end on a user edit** (`pipeline_automata.rs:490`).
   The comment at line 420 says every guard other than the one on
   Provisioning always matches. This is false: a Failed decision taken from
   Shutdown (compilation error, invalid runtime config) races a
   shutdown-and-edit exactly as in that comment's scenario. The guarded
   write fails and `run` returns. The same holds for the `program_version`
   guard of the recompilation request (line 718).
2. **Poll period** (line 535). The next poll period is chosen from the
   status read, not from the status stored.
3. **Spec invariant 2** (config present from Provisioning to Failed) does
   not hold. Shutdown goes to Failed without a config.
4. **Monitoring view** (line 264). Spec section 2 lets a store always
   answer the monitoring view. The code then panics at line 264 or 294 and
   the automaton task ends.
5. **Handle drop** (line 197). The spec says dropping a handle detaches.
   The comment says it shuts the runtime down. Only the comment's reading
   releases a deleted pipeline's runtime.
6. **Deletion across a restart** (line 189). A restart between a deletion
   and the next store call ends the task without its drop. The new
   controller spawns no automaton for a deleted descriptor, so the runtime
   is left running.
7. **Recompilation after an upgrade** (line 714). The automaton sets the
   program back to Pending without the platform bump; the comment at 712
   leaves the bump to the compiler. The trait's `get_next_sql_compilation`
   selects only programs of the current platform. So a program that was
   Success at the upgrade stays Pending until the next restart, and the
   pipeline never starts.

## Proofs

All of these hold for every value of the constants that satisfies
`ConstantsAssumption`.

In `PipelineAutomatonProofs`:
- `TypeCorrect`: `Spec => []TypeOK`. TypeOK alone is not inductive: an
  edit of the program bumps `program_version`, which stays within
  `1..MaxVersion` only because `program_version <= version`. The proof
  shows:
  - each handler has the shape `DecideShape` (`DecideStepShape`);
  - `Write`, the task's end and the environment keep the types.
- `ConfigIsCurrent`: `Spec => []DeployedConfigCurrent`.
- `ShutdownIsReleased`: `Spec => []ShutdownReleasesRuntime`.
- `ProvisionFlagIsFresh`: `Spec => []ProvisionCalledOnlyWhileDeployed`.
  The automaton's `provision_called` is never set at Shutdown, so a start
  from Shutdown always calls `provision()` again.
- `ProgramIsCompiled`: `Spec => []ProgramCompiledWhileDeployed`. A
  deploying pipeline always has a Success program.
- `LocationIsKnown`: `Spec => []LocationKnownWhileInitialized`. From
  Initializing on, the location is stored. At Shutdown and Provisioning
  there is none. So the "location missing" arms of
  `get_required_deployment_location` are unreachable.
- `IInvHolds`: `Spec => []IInv`.
- `ProvisionsCompiledProgram`: `Spec => ProvisioningOnlyFromCompiledProgram`
  (spec section 3, invariant 5). This is an action property. Its step
  lemma `ProvisioningStep` uses `IInv`. Only the write of a pending
  Provisioning moves Shutdown to Provisioning. That write needs a
  matching guard, and `PendingCarries` says a matching Provisioning
  guard comes with a Success program of the runner's platform. A restart,
  the only step that changes either platform version, drops the pending
  transition.
- `ProvisionsForRunner`: `Spec => []ProvisionedForRunnerPlatform`.
  `provision_called` holds only with a Success program of the runner's
  platform. It is not inductive alone, so `ProvisionedStep` assumes
  `IInv` as well:
  - `call_provision` sets the flag only in Provisioning, where
    `ProgramCompiledWhileDeployed` gives a Success program, and only after
    its own platform check. Among the handlers, only it sets the flag
    (`DecideFlag`);
  - the program and its platform change only at Shutdown (an edit, the
    recompilation request, a compile start), where
    `ProvisionCalledOnlyWhileDeployed` says the flag is clear;
  - `compile_done` needs a Compiling program, which the invariant excludes
    while the flag is set;
  - a restart, which may raise the runner's platform, clears the flag.
  The Shutdown handler's check alone would not suffice. An upgrade
  restart between that check and `provision()` leaves a Success program
  of the old platform in Provisioning. Only `call_provision`'s own check
  (lines 828-841) refuses it, and the mutant without that check breaks
  the invariant in eight states.

The invariants rest on `IInv`, whose `PendingCarries` part says what a
pending transition carries from its decision to its write:
- it was taken in the status still stored;
- its version guard is not ahead of the descriptor version. So an edit,
  which bumps the version, always makes a pending guard stale;
- a recompilation request is taken at Shutdown. While its program-version
  guard matches, the program is Success and of another platform than the
  runner's;
- it follows an edge of the abstract lifecycle;
- a Provisioning transition carries the config of its own version guard.
  While that guard still matches, the program is Success and of the
  runner's platform;
- a transition into a deploying status other than Provisioning leaves a
  deploying status;
- Shutdown is decided only after the runtime is released and
  `provision_called` is reset.

`ProgramCompiledWhileDeployed` is not inductive without the last facts.
The user may shut down, edit the program and start again between the
automaton's Provisioning decision and its write. The invariant then holds
only because the edit made the guard stale.

The lemma `DecideGuardFacts` gives the guard each handler decides with.
`SuccessorFacts` gives two facts about the lifecycle's edges, which
`LocationKnownWhileInitialized` needs: only Shutdown leads to
Provisioning, and Paused, Running and Unavailable are entered only from
an initialized status.

`ShutdownHasNoConfig` makes edits harmless: an edit is allowed only when
Shutdown, where no config is held.

The step proof has one lemma per part of `Next`:
- `IInvDecide`, through `HandlerFacts`, proved per handler;
- `IInvWrite`, split by `WriteStore` on the three ways the store changes,
  and by `WriteTask` on whether the task survives;
- `IInvEnds`;
- `IInvEnvironment`. Both kinds of edit go through `EditStep`: a
  Shutdown pipeline holds no config, and the bumped version (and program
  version) makes every pending guard stale.

In `LifecycleRefinement`, `Refinement` proves `Spec => LifecycleSpec`:
- the initial state maps to the abstract initial state;
- under `IInv`, every step maps to an abstract step or a stutter
  (`RefinementStep`):
  - a stored transition is `Advance`, because `PendingCarries` puts it on
    an edge from the stored status;
  - a decision acquires a runtime only while Provisioning and otherwise
    keeps or releases it (`DecideRuntime`);
  - user actions are `Desire`, `Edit` and `Delete`;
  - crashes, restarts and the drop are `Release`.

The mapping `Compilation` of `PipelineAutomaton` maps the program fields
and the runner's platform to `CompilationLifecycle`'s. It folds the
deployment status into a stage (`DeploymentStage`): Shutdown, Deploying
(Provisioning to Unavailable) or Other.

In `CompilationLifecycle`, `HandOffSafe` proves `Spec =>
[]CompiledWhileDeploying` of the abstract hand-off. The invariant is
inductive as it stands: a deploying pipeline has a Success program, and a
compilation in progress is for the runner's platform.

In `CompilationRefinement`:
- `CompilationRefinement` proves `Spec => CompilationSpec`. Under `IInv`,
  every step maps to a hand-off step or a stutter (`CompilationStep`):
  - an edit of the program is `Edit`; `compile_start` is `Pickup`;
    `compile_done` is `Finish`; a restart is `Upgrade`;
  - a stored recompilation request is `Recompile`. `WriteStore` says its
    program-version guard matched, and `PendingCarries` then gives a
    Success program of another platform at Shutdown;
  - a stored status transition is a `Move` or a stutter (`StatusWrite`).
    Entering Deploying is a stored Provisioning. By `SuccessorFacts` it
    was decided at Shutdown, and by `PendingCarries` it carries a Success
    program of the runner's platform. Every other deploying status is
    entered from a deploying one.
- `CompilesForRunner` proves `Spec => []CompilingForRunnerPlatform`. It
  follows from `HandOffSafe` through the refinement: the abstract
  invariant is proved once, on the abstract module, and carried down.

TLC checks `IInv` as an invariant of the `faults` run, `LifecycleSpec` in
the `refinement` run, and `CompilationSpec` in the `compilation` run.

**Only model-checked:** the liveness properties (`ShutdownDominance`,
`Convergence`, `DeletionReleasesRuntime`, `RecompilationProgresses`).
They rest on fairness and ENABLED, which the prover does not handle.

## Not modelled

- The HTTP pass-through endpoints, configuration and metrics. They change
  no deployment state.
- The compiler's own work. It is not in this tree, so only its effect on
  the descriptor is modelled, from the store trait it calls. The SQL and
  Rust stages are merged.
- Several pipelines sharing one controller. Automata of different
  pipelines share only the store lock, and no store operation touches two
  pipelines' rows, so one pipeline is modelled.
