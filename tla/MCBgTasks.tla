------------------------------ MODULE MCBgTasks ------------------------------
(* One task, the process that created it and commands of other processes. *)
EXTENDS BgTasks

(* The properties are about undisturbed behaviours, and calm never becomes *)
(* TRUE again.                                                             *)
Undisturbed == calm
==============================================================================
