------------------------- MODULE DeploymentLifecycle -------------------------
(***************************************************************************)
(* What the deployment of one pipeline promises, whoever drives it: the    *)
(* abstract specification that PipelineAutomaton implements.               *)
(*                                                                         *)
(* The descriptor's status moves only along the edges of the lifecycle of  *)
(* spec section 3; entering Provisioning fixes the deployment config of    *)
(* the descriptor version current at that moment, and entering Shutdown    *)
(* clears it; runtime resources are acquired only while Provisioning and   *)
(* Shutdown is entered only once they are released; the user edits only a  *)
(* pipeline that is and is meant to be shut down; and a deleted descriptor *)
(* changes no more.  The automaton's cycles, the version guard, the        *)
(* executor and the HTTP requests are all below this level.                *)
(***************************************************************************)
EXTENDS Naturals

VARIABLES
  status,    \* the stored deployment status
  desired,   \* the stored desired status
  version,   \* the descriptor version
  config,    \* the version the deployment config was generated from, or 0
  held,      \* whether runtime resources are held for the pipeline
  deleted    \* whether the descriptor has been deleted

vars == <<status, desired, version, config, held, deleted>>

Status == {"Shutdown", "Provisioning", "Initializing", "Paused", "Running",
           "Unavailable", "Failed", "ShuttingDown"}
Desired == {"Shutdown", "Paused", "Running"}
NoConfig == 0

(* The edges of the deployment lifecycle: forward through Provisioning and *)
(* Initializing to Paused, between Paused, Running and Unavailable, to     *)
(* Failed from anywhere before ShuttingDown, and down through ShuttingDown *)
(* to Shutdown from anywhere past Shutdown.                                *)
Successors ==
  [Shutdown     |-> {"Provisioning", "Failed"},
   Provisioning |-> {"Initializing", "Failed", "ShuttingDown"},
   Initializing |-> {"Paused", "Failed", "ShuttingDown"},
   Paused       |-> {"Running", "Unavailable", "Failed", "ShuttingDown"},
   Running      |-> {"Paused", "Unavailable", "Failed", "ShuttingDown"},
   Unavailable  |-> {"Paused", "Running", "Failed", "ShuttingDown"},
   Failed       |-> {"ShuttingDown"},
   ShuttingDown |-> {"Shutdown"}]

(* Type invariant of the abstract lifecycle.                               *)
TypeOK ==
  /\ status \in Status
  /\ desired \in Desired
  /\ version \in Nat \ {0}
  /\ config \in Nat
  /\ held \in BOOLEAN
  /\ deleted \in BOOLEAN

Init ==
  /\ status = "Shutdown"
  /\ desired = "Shutdown"
  /\ version = 1
  /\ config = NoConfig
  /\ held = FALSE
  /\ deleted = FALSE

(* The user sets the desired status.                                       *)
Desire(d) ==
  /\ ~deleted
  /\ desired' = d
  /\ UNCHANGED <<status, version, config, held, deleted>>

(* The user edits a shut-down pipeline, making a new version.              *)
Edit ==
  /\ ~deleted
  /\ status = "Shutdown"
  /\ desired = "Shutdown"
  /\ version' = version + 1
  /\ UNCHANGED <<status, desired, config, held, deleted>>

(* The user deletes the pipeline.                                          *)
Delete ==
  /\ ~deleted
  /\ deleted' = TRUE
  /\ UNCHANGED <<status, desired, version, config, held>>

(* The status moves along an edge of the lifecycle.                        *)
Advance(to) ==
  /\ ~deleted
  /\ to \in Successors[status]
  /\ to = "Shutdown" => ~held
  /\ status' = to
  /\ config' = CASE to = "Provisioning" -> version
                 [] to = "Shutdown"     -> NoConfig
                 [] OTHER               -> config
  /\ UNCHANGED <<desired, version, held, deleted>>

(* Resources are acquired for a Provisioning pipeline, and released at any *)
(* time (a shutdown, a crash, a dropped handle).                           *)
Acquire ==
  /\ ~deleted
  /\ status = "Provisioning"
  /\ ~held
  /\ held' = TRUE
  /\ UNCHANGED <<status, desired, version, config, deleted>>

Release ==
  /\ held
  /\ held' = FALSE
  /\ UNCHANGED <<status, desired, version, config, deleted>>

Next ==
  \/ \E d \in Desired : Desire(d)
  \/ Edit
  \/ Delete
  \/ \E to \in Status : Advance(to)
  \/ Acquire
  \/ Release

Spec == Init /\ [][Next]_vars
=============================================================================
