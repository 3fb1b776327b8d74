------------------------- MODULE CompilationLifecycle -------------------------
(***************************************************************************)
(* What the hand-off between the compiler and the deployment of one        *)
(* pipeline promises: the abstract specification of the program status     *)
(* that PipelineAutomaton implements.                                      *)
(*                                                                         *)
(* The compiler owns a program while it is Pending or Compiling, and only  *)
(* while the pipeline is shut down: it picks up a Pending program of the   *)
(* runner's platform version and finishes it with Success or an error.     *)
(* The user sends the program back to Pending by editing a shut-down       *)
(* pipeline; the deployment sends a Success program of an older platform   *)
(* back, at Shutdown, and starts deploying only a Success program of the   *)
(* runner's platform; a controller restart may raise the runner's platform *)
(* and hands every unfinished program back to Pending at that platform.    *)
(* The deployment's own statuses are folded into three stages.             *)
(***************************************************************************)
EXTENDS Naturals, TLAPS

VARIABLES
  program,   \* the program status
  pversion,  \* the program version
  platform,  \* the platform version the program is (being) compiled for
  current,   \* the runner's platform version
  stage      \* Shutdown, Deploying (Provisioning to Unavailable) or Other

cvars == <<program, pversion, platform, current, stage>>

Program == {"Pending", "Compiling", "Success", "CompilationError"}
Stage == {"Shutdown", "Deploying", "Other"}

(* Type invariant of the abstract hand-off.                                *)
TypeOK ==
  /\ program \in Program
  /\ pversion \in Nat
  /\ platform \in Nat
  /\ current \in Nat
  /\ stage \in Stage

Init ==
  /\ program = "Pending"
  /\ pversion = 1
  /\ platform = 1
  /\ current = 1
  /\ stage = "Shutdown"

(* The compiler picks up a Pending program of a shut-down pipeline at the  *)
(* runner's platform, and finishes it.                                     *)
Pickup ==
  /\ stage = "Shutdown"
  /\ program = "Pending"
  /\ platform = current
  /\ program' = "Compiling"
  /\ UNCHANGED <<pversion, platform, current, stage>>

Finish ==
  /\ program = "Compiling"
  /\ program' \in {"Success", "CompilationError"}
  /\ UNCHANGED <<pversion, platform, current, stage>>

(* The user edits the program of a shut-down pipeline.                     *)
Edit ==
  /\ stage = "Shutdown"
  /\ program' = "Pending"
  /\ pversion' = pversion + 1
  /\ UNCHANGED <<platform, current, stage>>

(* The deployment requests recompilation of a program compiled for another *)
(* platform, at Shutdown.                                                  *)
Recompile ==
  /\ stage = "Shutdown"
  /\ program = "Success"
  /\ platform # current
  /\ program' = "Pending"
  /\ UNCHANGED <<pversion, platform, current, stage>>

(* A restart at a platform no older than the current one: unfinished      *)
(* programs go back to Pending at that platform, finished ones stay as     *)
(* they are.                                                               *)
Upgrade ==
  /\ current' \in Nat
  /\ current <= current'
  /\ IF program \in {"Pending", "Compiling"}
       THEN program' = "Pending" /\ platform' = current'
       ELSE UNCHANGED <<program, platform>>
  /\ UNCHANGED <<pversion, stage>>

(* The deployment changes stage; it starts deploying only from Shutdown    *)
(* and only a Success program of the runner's platform.                    *)
Move(s) ==
  /\ s # stage
  /\ s = "Deploying" =>
       stage = "Shutdown" /\ program = "Success" /\ platform = current
  /\ stage' = s
  /\ UNCHANGED <<program, pversion, platform, current>>

Next ==
  \/ Pickup
  \/ Finish
  \/ Edit
  \/ Recompile
  \/ Upgrade
  \/ \E s \in Stage : Move(s)

Spec == Init /\ [][Next]_cvars

(* What the hand-off promises the deployment: a deploying pipeline always  *)
(* has a Success program, and a compilation in progress is always for the *)
(* runner's current platform.                                              *)
CompiledWhileDeploying ==
  /\ stage = "Deploying" => program = "Success"
  /\ program = "Compiling" => platform = current

(* The promise holds of every behaviour of the hand-off: deploying needs a *)
(* Success program, the compiler and the user touch the program only at    *)
(* Shutdown, and a restart hands back only unfinished programs, moving     *)
(* them to the new platform.                                               *)
THEOREM HandOffSafe ==
  Spec => []CompiledWhileDeploying
<1>1. Init => CompiledWhileDeploying
  BY DEF Init, CompiledWhileDeploying
<1>2. CompiledWhileDeploying /\ [Next]_cvars => CompiledWhileDeploying'
  <2> SUFFICES ASSUME CompiledWhileDeploying, [Next]_cvars
               PROVE  CompiledWhileDeploying'
    OBVIOUS
  <2>1. CASE Pickup
    BY <2>1 DEF Pickup, CompiledWhileDeploying
  <2>2. CASE Finish
    BY <2>2 DEF Finish, CompiledWhileDeploying
  <2>3. CASE Edit
    BY <2>3 DEF Edit, CompiledWhileDeploying
  <2>4. CASE Recompile
    BY <2>4 DEF Recompile, CompiledWhileDeploying
  <2>5. CASE Upgrade
    BY <2>5 DEF Upgrade, CompiledWhileDeploying
  <2>6. ASSUME NEW s \in Stage, Move(s) PROVE CompiledWhileDeploying'
    BY <2>6 DEF Move, CompiledWhileDeploying
  <2>7. CASE UNCHANGED cvars
    BY <2>7 DEF cvars, CompiledWhileDeploying
  <2>8. QED
    BY <2>1, <2>2, <2>3, <2>4, <2>5, <2>6, <2>7 DEF Next
<1>3. QED
  BY <1>1, <1>2, PTL DEF Spec
=============================================================================
