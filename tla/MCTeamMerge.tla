----------------------------- MODULE MCTeamMerge -----------------------------
EXTENDS TeamMerge

CONSTANTS a, b, c

SimilarTexts == {{a, b}}

SmallProjects == {<<a, Absent, Absent>>, <<a, b, Absent>>}

TwoFiles == {<<a, Absent>>}

ThirdUnused ==
    /\ main[3] = Absent
    /\ \A w \in Workspaces : tree[w][3] = Absent
    /\ resolution[3] = "apply" /\ job.file # 3

(* The choice between renames takes three files and one workspace; two     *)
(* workspaces meet in two files, the second not in main at first.          *)
Small ==
    \/ origin[2] = Empty /\ acts + 1 < MaxActs
    \/ ThirdUnused /\ origin[1][2] = Absent
==============================================================================
