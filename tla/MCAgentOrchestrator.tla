------------------------ MODULE MCAgentOrchestrator ------------------------
(* The orchestrator on a few tasks. *)
EXTENDS AgentOrchestrator, TLC

TaskSymmetry == Permutations(Task)
=============================================================================
