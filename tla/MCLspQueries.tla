----------------------------- MODULE MCLspQueries -----------------------------
(* Two queries of one agent run. *)
EXTENDS LspQueries
==============================================================================
