----------------------------- MODULE MCFileLocks -----------------------------
(* Two sessions and one CLI process over two files. *)
EXTENDS FileLocks, TLC

(* Sessions and files are interchangeable. *)
Symmetry == Permutations(Sessions) \cup Permutations(Paths)
==============================================================================
