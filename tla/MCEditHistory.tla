---------------------------- MODULE MCEditHistory ----------------------------
EXTENDS EditHistory, FiniteSets, TLC

CONSTANTS lines, second

TextSet == {Empty, lines}
OneLineTexts == {Empty}

Busy == {x \in Processes : process[x].pc # "idle"}

Unused(x) ==
    /\ disk[x] = Absent /\ x \notin touched
    /\ \A i \in DOMAIN history.records : history.records[i].file # x
    /\ \A y \in Busy : process[y].edit.file # x

(* Two calls overlap, with each other in one file or two, or with the user *)
(* in one file; or three calls follow one another in one file.             *)
Small ==
    /\ disk[second] \in {Absent, EmptyFile}
    /\ edits > 0 => calls <= 2
    /\ calls = 3 => Cardinality(Busy) <= 1
    /\ edits > 0 \/ calls = 3 => Unused(second)

Symmetry == Permutations(Processes)
==============================================================================
