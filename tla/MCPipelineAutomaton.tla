------------------------ MODULE MCPipelineAutomaton ------------------------
(***************************************************************************)
(* Model-checking instance of PipelineAutomaton.  The constants are given  *)
(* as numbers and a Boolean in the .cfg files: MCFaults.cfg injects every  *)
(* fault the code handles, MCConvergence.cfg checks liveness without them, *)
(* and the MC_<property>.cfg files each check one property the code is     *)
(* expected to keep and does not.                                          *)
(***************************************************************************)
EXTENDS PipelineAutomaton

=============================================================================
