----------------------------- MODULE MCAgentLoop -----------------------------
(* One run of a few iterations with replies of a few tool calls. *)
EXTENDS AgentLoop
==============================================================================
