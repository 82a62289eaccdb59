--------------------------- MODULE MCAgentSessions ---------------------------
(* One session, its start command, its agent process and two commands. *)
EXTENDS AgentSessions, TLC

Symmetry == Permutations(Commands)

(* The invariants are about undisturbed behaviours, and calm never becomes *)
(* TRUE again: states after a disturbance need no successors.              *)
Undisturbed == calm
==============================================================================
