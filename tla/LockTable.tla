------------------------------ MODULE LockTable ------------------------------
(***************************************************************************)
(* What the advisory file locks of ApeironCode promise (docs/sessions.md,  *)
(* "File Locks"): a table of who owns which file, changed one whole        *)
(* operation at a time.  A session that runs a modifying tool on a file    *)
(* owns that file for as long as the tool runs, and nobody else does.      *)
(* Advisory means that the promise can end: a lock operation that is       *)
(* disturbed releases the table from it for good.  FileLocks is the same   *)
(* thing as the code does it, with locks.json loaded and saved in separate *)
(* steps.                                                                  *)
(***************************************************************************)

CONSTANTS
    Sessions,   \* agent sessions
    Paths,      \* files that tools modify
    NoPath      \* "no tool is running"

VARIABLES
    owns,       \* the pairs <<file, owner>>
    using,      \* using[s]: the file the running tool of s modifies, or NoPath
    kept        \* the promise is being kept

ownership == <<owns, using>>

tableVars == <<owns, using, kept>>

TableTypeOK ==
    /\ owns \subseteq Paths \X Sessions
    /\ using \in [Sessions -> Paths \cup {NoPath}]

Init ==
    /\ owns = {}
    /\ using = [s \in Sessions |-> NoPath]
    /\ kept = TRUE

(* A session takes a file nobody else owns; taking it again is allowed. *)
Take(s, p) ==
    /\ \A t \in Sessions \ {s} : <<p, t>> \notin owns
    /\ owns' = owns \cup {<<p, s>>}
    /\ UNCHANGED using

(* A tool of s starts on a file that s owns. *)
Use(s, p) ==
    /\ <<p, s>> \in owns
    /\ using[s] = NoPath
    /\ using' = [using EXCEPT ![s] = p]
    /\ UNCHANGED owns

(* The tool of s ends, by itself or with the process; s keeps the file. *)
Done(s) ==
    /\ using[s] # NoPath
    /\ using' = [using EXCEPT ![s] = NoPath]
    /\ UNCHANGED owns

(* Files no tool of their owner is using are given back or taken away. *)
GiveBack(pairs) ==
    /\ pairs # {}
    /\ \A s \in Sessions : <<using[s], s>> \notin pairs
    /\ owns' = owns \ pairs
    /\ UNCHANGED using

Step ==
    \/ \E s \in Sessions, p \in Paths : Take(s, p) \/ Use(s, p)
    \/ \E s \in Sessions : Done(s)
    \/ \E pairs \in SUBSET owns : GiveBack(pairs)

(* Once disturbed the table may become anything, and no promise returns. *)
Disturbed == kept' = FALSE

Next == (kept /\ Step /\ UNCHANGED kept) \/ Disturbed

Spec == Init /\ [][Next]_tableVars

(* A file has at most one owner. *)
SingleOwner ==
    \A p \in Paths, s, t \in Sessions :
        <<p, s>> \in owns /\ <<p, t>> \in owns => s = t

(* The tool of a session runs on a file of that session's own. *)
UsersOwn ==
    \A s \in Sessions : using[s] # NoPath => <<using[s], s>> \in owns

(* No two sessions modify the same file at the same time. *)
Exclusive ==
    \A s, t \in Sessions :
        using[s] # NoPath /\ using[s] = using[t] => s = t
==============================================================================
