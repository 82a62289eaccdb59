--------------------------- MODULE MCBridgeSessions ---------------------------
(* Two clients of the bridge, two sessions and a few accepted prompts. *)
EXTENDS BridgeSessions, TLC

(* Clients, session ids and prompts are interchangeable; only the run      *)
(* without liveness properties uses it.                                    *)
Symmetry == Permutations(Connections) \cup Permutations(Sessions)
               \cup Permutations(Runs)
==============================================================================
