------------------------------ MODULE TeamMerge ------------------------------
(***************************************************************************)
(* The isolated workspaces of one team run and their merge into the main   *)
(* workspace.  Sources: src/src/agents/teamRunner.ts, the files of         *)
(* src/src/agents/workspace/ and src/src/cli/setup/agentsHandlers.ts.      *)
(*                                                                         *)
(* Each step of a run gets a copy of main, then a snapshot of main is      *)
(* taken as the base of the merge, then a subagent works in the copy.      *)
(* Nothing is merged until the user applies the run: one workspace after   *)
(* the other is compared with its base and with main as it is now, and     *)
(* unless there is a conflict its files are copied one by one.  The user   *)
(* may edit main between any two of these steps.                           *)
(*                                                                         *)
(* A file is known by the place of its path in the order of paths, a       *)
(* content by what the merge tells apart.  The commands about a run come   *)
(* when it has ended, and one apply runs at a time.  Ignored files are not *)
(* files here, and a run in mode "main" has nothing to merge.              *)
(***************************************************************************)
EXTENDS Naturals, FiniteSets, Functions

CONSTANTS
    Files,     \* paths, as numbers in their order
    Contents,  \* what a file can contain
    Binary,    \* those of them that have a zero byte
    Similar,   \* pairs {c, d} of texts that are similar, but not the same
    Absent,    \* the hash of a file that is not there
    Torn,      \* what a write that was cut short leaves
    All,       \* an apply without --file
    Steps,     \* the steps of a team run, each with its workspace
    Projects,  \* what main may be at first
    MaxActs    \* bound: edits and commands of the user after team run

ASSUME TeamMergeAssumption ==
    /\ Files \subseteq Nat /\ IsFiniteSet(Files)
    /\ Absent \notin Contents /\ Torn \notin Contents \cup {Absent}
    /\ All \notin Files
    /\ Binary \subseteq Contents
    /\ Steps \in Nat \ {0} /\ MaxActs \in Nat
    /\ Projects \subseteq [Files -> Contents \cup {Absent}]

Workspaces == 1..Steps
Trees == [Files -> Contents \cup {Absent}]
Empty == [f \in Files |-> Absent]

VARIABLES
    main,       \* the main workspace
    turn,       \* the step of the run
    stage,      \* what the run does in this step
    status,     \* of each workspace in workspaces.json, or "none"
    base,       \* its baseSnapshot
    tree,       \* what its subagent has left in it
    gone,       \* workspaces whose directory has been removed
    resolution, \* the recorded merge resolution of each file
    job,        \* the team apply that is running
    acts,       \* number of edits and commands of the user
    origin      \* history: main when each workspace was copied from it

vars == <<main, turn, stage, status, base, tree, gone, resolution, job,
          acts, origin>>

Listed == {w \in Workspaces : status[w] # "none"}

(* The files below workspaceRoot. *)
Tree(w) == IF w \in gone THEN Empty ELSE tree[w]

Operations ==
    [do : {"write", "remove"}, file : Files]
        \cup [do : {"move"}, file : Files, from : Files]

(* The files of main that an operation changes. *)
Touched(o) == {o.file} \cup (IF o.do = "move" THEN {o.from} ELSE {})

(* steady: main and the workspaces' directories are as at the review.      *)
(* fresh: the user has not edited main since the workspace was compared.   *)
Jobs ==
    [phase : {"idle", "reviewed", "planning", "writing"},
     file : Files \cup {All},
     reviewed : SUBSET Files,
     left : SUBSET Workspaces,
     skipped : SUBSET Files,
     now : Workspaces,
     todo : SUBSET Operations,
     steady : BOOLEAN,
     fresh : BOOLEAN]

Idle == [phase |-> "idle", file |-> All, reviewed |-> {}, left |-> {},
         skipped |-> {}, now |-> 1, todo |-> {}, steady |-> TRUE, fresh |-> TRUE]

TypeOK ==
    /\ main \in [Files -> Contents \cup {Absent, Torn}]
    /\ turn \in Workspaces
    /\ stage \in {"copy", "snapshot", "work", "over"}
    /\ status \in [Workspaces -> {"none", "active", "applied", "discarded"}]
    /\ base \in [Workspaces -> Trees]
    /\ tree \in [Workspaces -> Trees]
    /\ gone \subseteq Workspaces
    /\ resolution \in [Files -> {"apply", "skip", "manual"}]
    /\ job \in Jobs
    /\ acts \in 0..MaxActs
    /\ origin \in [Workspaces -> Trees]

Init ==
    /\ main \in Projects
    /\ turn = 1 /\ stage = "copy"
    /\ status = [w \in Workspaces |-> "none"]
    /\ base = [w \in Workspaces |-> Empty]
    /\ tree = base /\ origin = base
    /\ gone = {}
    /\ resolution = [f \in Files |-> "apply"]
    /\ job = Idle
    /\ acts = 0

------------------------------------------------------------------------------
(* runTeamSequential.                                                      *)

(* createTempWorkspace, or git worktree add: as main has no changes of      *)
(* tracked files then, that is a copy without the untracked ones, one of   *)
(* the trees a subagent may leave.                                         *)
CopyMain ==
    /\ stage = "copy"
    /\ tree' = [tree EXCEPT ![turn] = main]
    /\ origin' = [origin EXCEPT ![turn] = main]
    /\ stage' = "snapshot"
    /\ UNCHANGED <<main, turn, status, base, gone, resolution, job, acts>>

(* The rest of createWorkspace. *)
TakeSnapshot ==
    /\ stage = "snapshot"
    /\ base' = [base EXCEPT ![turn] = main]
    /\ status' = [status EXCEPT ![turn] = "active"]
    /\ stage' = "work"
    /\ UNCHANGED <<main, turn, tree, gone, resolution, job, acts, origin>>

(* The subagent leaves any tree, and the next step begins. *)
AgentWorks ==
    /\ stage = "work"
    /\ \E t \in Trees : tree' = [tree EXCEPT ![turn] = t]
    /\ IF turn < Steps
       THEN turn' = turn + 1 /\ stage' = "copy"
       ELSE stage' = "over" /\ UNCHANGED turn
    /\ UNCHANGED <<main, status, base, gone, resolution, job, acts, origin>>

(* After a failed step, with a worktree refused or with the process dead,  *)
(* the run goes no further.                                                *)
RunEnds ==
    /\ stage # "over"
    /\ stage' = "over"
    /\ UNCHANGED <<main, turn, status, base, tree, gone, resolution, job,
                   acts, origin>>

Act == acts < MaxActs /\ acts' = acts + 1

(* The user changes, creates or deletes a file of main. *)
UserEdits ==
    /\ Act
    /\ \E f \in Files, c \in Contents \cup {Absent} :
          /\ c # main[f]
          /\ main' = [main EXCEPT ![f] = c]
    /\ job' = IF job = Idle THEN Idle
              ELSE [job EXCEPT !.steady = FALSE, !.fresh = FALSE]
    /\ UNCHANGED <<turn, stage, status, base, tree, gone, resolution, origin>>

------------------------------------------------------------------------------
(* What the merge of workspace w with main would do.                       *)

(* collectWorkspaceDiff. *)
Diff(w) == {f \in Files : main[f] # Tree(w)[f]}

(* Mutant of Selected: --file filters the review, not the merge. *)
SelectedWithoutFile(w, file, skipped) == Diff(w) \ skipped

(* Mutant of Selected: a skipped file is left out of the export alone. *)
SelectedWithSkipped(w, file, skipped) ==
    IF file = All THEN Diff(w) ELSE Diff(w) \cap {file}

(* filteredDiff: a full apply leaves out the files that are skipped. *)
Selected(w, file, skipped) ==
    IF file = All THEN Diff(w) \ skipped ELSE Diff(w) \cap {file}

AddedIn(w, S) == {f \in S : Tree(w)[f] # Absent /\ base[w][f] = Absent}
DeletedIn(w, S) == {f \in S : Tree(w)[f] = Absent}

(* textSimilarity in three classes: the same, at least 0.82, less. *)
Similarity(c, d) ==
    CASE {c, d} \cap Binary # {} -> 0
      [] c = d -> 2
      [] {c, d} \in Similar -> 1
      [] OTHER -> 0

Score(w, old, new) ==
    IF base[w][old] # Absent /\ base[w][old] = Tree(w)[new]
    THEN 2
    ELSE Similarity(main[old], Tree(w)[new])

(* detectRenames: in the order of paths each deleted file is paired with    *)
(* the first of the best matching added files that are not yet taken.      *)
IsRenaming(w, S, renamed) ==
    \A old \in DeletedIn(w, S) :
       LET free == {new \in AddedIn(w, S) :
                      \A d \in DOMAIN renamed : d < old => renamed[d] # new}
           matches == {new \in free : Score(w, old, new) > 0}
       IN  /\ old \in DOMAIN renamed <=> matches # {}
           /\ old \in DOMAIN renamed =>
                /\ renamed[old] \in matches
                /\ \A new \in matches \ {renamed[old]} :
                      \/ Score(w, old, new) < Score(w, old, renamed[old])
                      \/ /\ Score(w, old, new) = Score(w, old, renamed[old])
                         /\ new > renamed[old]

Renamings(w, S) ==
    {renamed \in UNION {[D -> AddedIn(w, S)] : D \in SUBSET DeletedIn(w, S)} :
        IsRenaming(w, S, renamed)}

(* Mutant of Others: the paths of renames are merged by themselves, too. *)
OthersAll(S, renamed) == S

Others(S, renamed) == S \ (DOMAIN renamed \cup Range(renamed))

IsBinary(w, f) == {base[w][f], main[f], Tree(w)[f]} \cap Binary # {}

(* Mutant of Clashes: a deletion is not compared with main. *)
ClashesUnlessDeleted(w, f) ==
    \/ IsBinary(w, f)
    \/ /\ main[f] # Absent /\ Tree(w)[f] # Absent /\ base[w][f] # Absent
       /\ main[f] # base[w][f] /\ Tree(w)[f] # base[w][f]

(* The conflicts of a file by itself: binary; deleted in the workspace and *)
(* changed in main; changed in both since the base, if the base has it.    *)
Clashes(w, f) ==
    \/ IsBinary(w, f)
    \/ Tree(w)[f] = Absent /\ main[f] # base[w][f]
    \/ /\ main[f] # Absent /\ Tree(w)[f] # Absent /\ base[w][f] # Absent
       /\ main[f] # base[w][f] /\ Tree(w)[f] # base[w][f]

(* Mutant of KeepsMain: main is never kept. *)
NeverKeepsMain(w, f) == FALSE

(* Mutant of KeepsMain: a file the base does not have counts as changed in *)
(* main alone.                                                             *)
KeepsMainWithoutBase(w, f) ==
    main[f] # Absent /\ Tree(w)[f] # Absent /\ main[f] # base[w][f]

(* skippedFiles: changed in main alone.  A file that is not in main is     *)
(* added, whatever the base has.                                           *)
KeepsMain(w, f) ==
    /\ main[f] # Absent /\ Tree(w)[f] # Absent /\ base[w][f] # Absent
    /\ main[f] # base[w][f]

(* createMergePlan throws its caller off if there is a conflict. *)
Conflicting(w, S, renamed) ==
    \/ \E old \in DOMAIN renamed :
          main[old] # base[w][old] \/ main[renamed[old]] # Absent
    \/ \E f \in Others(S, renamed) : Clashes(w, f)

(* What applyMergePlan does for the cleanFiles. *)
CleanFiles(w, S, renamed) ==
    {[do |-> "move", file |-> renamed[old], from |-> old] : old \in DOMAIN renamed}
    \cup {[do |-> IF Tree(w)[f] = Absent THEN "remove" ELSE "write", file |-> f] :
             f \in {g \in Others(S, renamed) : ~KeepsMain(w, g)}}

------------------------------------------------------------------------------
(* team apply.                                                             *)

(* teamApply shows what is going to be merged, for the run or one file ... *)
Review ==
    /\ stage = "over" /\ job = Idle
    /\ Act
    /\ \E file \in Files \cup {All} :
          job' = [Idle EXCEPT !.phase = "reviewed", !.file = file,
                    !.reviewed = IF file = All THEN UNION {Diff(w) : w \in Listed}
                                 ELSE {file}]
    /\ UNCHANGED <<main, turn, stage, status, base, tree, gone, resolution,
                   origin>>

(* ... and goes on at once or is blocked: by a failed validation of the    *)
(* patch, by the approval mode, by a file to be resolved by hand.          *)
Blocked ==
    /\ job.phase = "reviewed"
    /\ job' = Idle
    /\ UNCHANGED <<main, turn, stage, status, base, tree, gone, resolution,
                   acts, origin>>

Resolved(action) == {f \in Files : resolution[f] = action}

BeginApply ==
    /\ job.phase = "reviewed"
    /\ job.file = All => Resolved("manual") = {}
    /\ job' = [job EXCEPT !.phase = "planning", !.left = Listed,
                          !.skipped = Resolved("skip")]
    /\ UNCHANGED <<main, turn, stage, status, base, tree, gone, resolution,
                   acts, origin>>

(* The next workspace is compared with main as it is now.  A conflict ends *)
(* the command; what the workspaces before have changed stays.             *)
PlanWorkspace(w) ==
    /\ job.phase = "planning"
    /\ w \in job.left /\ \A v \in job.left : w <= v
    /\ LET S == Selected(w, job.file, job.skipped)
       IN  \E renamed \in Renamings(w, S) :
              job' = IF Conflicting(w, S, renamed) THEN Idle
                     ELSE [job EXCEPT !.phase = "writing", !.now = w,
                             !.left = @ \ {w}, !.fresh = TRUE,
                             !.todo = CleanFiles(w, S, renamed)]
    /\ UNCHANGED <<main, turn, stage, status, base, tree, gone, resolution,
                   acts, origin>>

(* One of the files, in any order: they are different ones.  A file that   *)
(* is no longer in the workspace is passed over.  A rename writes the new  *)
(* file and then removes the old one.                                      *)
ApplyFile(o) ==
    /\ job.phase = "writing" /\ o \in job.todo
    /\ LET content == Tree(job.now)[o.file]
           next == IF o.do = "move" /\ content # Absent
                   THEN {[do |-> "remove", file |-> o.from]} ELSE {}
       IN  /\ job' = [job EXCEPT !.todo = (@ \ {o}) \cup next]
           /\ main' = CASE o.do = "remove" -> [main EXCEPT ![o.file] = Absent]
                        [] o.do # "remove" /\ content # Absent ->
                             [main EXCEPT ![o.file] = content]
                        [] OTHER -> main
    /\ UNCHANGED <<turn, stage, status, base, tree, gone, resolution, acts,
                   origin>>

(* The workspace is done: a full apply marks its record, if it is there. *)
MarkWorkspace ==
    /\ job.phase = "writing" /\ job.todo = {}
    /\ status' = IF job.file = All /\ job.now \in Listed
                 THEN [status EXCEPT ![job.now] = "applied"] ELSE status
    /\ job' = [job EXCEPT !.phase = "planning"]
    /\ UNCHANGED <<main, turn, stage, base, tree, gone, resolution, acts,
                   origin>>

ApplyEnds ==
    /\ job.phase = "planning" /\ job.left = {}
    /\ job' = Idle
    /\ UNCHANGED <<main, turn, stage, status, base, tree, gone, resolution,
                   acts, origin>>

(* The process dies, maybe in the middle of writing a file. *)
Crash ==
    /\ job # Idle
    /\ job' = Idle
    /\ main' \in {main} \cup {[main EXCEPT ![o.file] = Torn] :
                                o \in {p \in job.todo :
                                         /\ p.do # "remove"
                                         /\ Tree(job.now)[p.file] # Absent}}
    /\ UNCHANGED <<turn, stage, status, base, tree, gone, resolution, acts,
                   origin>>

------------------------------------------------------------------------------
(* The other commands.                                                     *)

Resolve ==
    /\ stage = "over"
    /\ Act
    /\ \E f \in Files, action \in {"apply", "skip", "manual"} :
          resolution' = [resolution EXCEPT ![f] = action]
    /\ UNCHANGED <<main, turn, stage, status, base, tree, gone, job, origin>>

Remove(ws) ==
    /\ gone' = gone \cup ws
    /\ job' = IF job = Idle THEN Idle ELSE [job EXCEPT !.steady = FALSE]

Discard ==
    /\ stage = "over"
    /\ Act
    /\ Remove(Listed)
    /\ status' = [w \in Workspaces |-> IF w \in Listed THEN "discarded" ELSE "none"]
    /\ UNCHANGED <<main, turn, stage, base, tree, resolution, origin>>

(* cleanupDiscarded: the records go, too. *)
Cleanup ==
    /\ stage = "over"
    /\ Act
    /\ LET old == {w \in Workspaces : status[w] \in {"applied", "discarded"}}
       IN  /\ Remove(old)
           /\ status' = [w \in Workspaces |-> IF w \in old THEN "none" ELSE status[w]]
    /\ UNCHANGED <<main, turn, stage, base, tree, resolution, origin>>

Next ==
    \/ CopyMain \/ TakeSnapshot \/ AgentWorks \/ RunEnds
    \/ UserEdits
    \/ Review \/ Blocked \/ BeginApply
    \/ \E w \in Workspaces : PlanWorkspace(w)
    \/ \E o \in job.todo : ApplyFile(o)
    \/ MarkWorkspace \/ ApplyEnds \/ Crash
    \/ Resolve \/ Discard \/ Cleanup

Spec == Init /\ [][Next]_vars

------------------------------------------------------------------------------
(* A file of main that the apply of a workspace changes in this step, with *)
(* main not edited since the comparison and the file not edited between    *)
(* the copy and the snapshot of the workspace.                             *)
Applied(f) ==
    /\ job.phase = "writing" /\ acts' = acts /\ job.fresh
    /\ base[job.now][f] = origin[job.now][f]
    /\ main'[f] # main[f]

(* What became of a file in main since the workspace was isolated - an     *)
(* edit of the user, a change from another workspace, a write cut short -  *)
(* is not overwritten and not removed.  A file that was deleted or that    *)
(* did not exist is not covered: see ChangesConflict.                      *)
EditsSurvive ==
    [][\A f \in Files : Applied(f) /\ origin[job.now][f] # Absent =>
          main[f] \in {origin[job.now][f], Absent}]_vars

(* Applying a workspace changes only what is not there as it was in main   *)
(* when the workspace was isolated, but for a file that main no longer has *)
(* and for a workspace that has been removed.                              *)
OnlyAgentsChanges ==
    [][\A f \in Files : Applied(f) =>
          \/ tree[job.now][f] # origin[job.now][f]
          \/ main[f] = Absent
          \/ job.now \in gone]_vars

(* When a full apply is done with a workspace, everything its subagent has *)
(* changed is in main as the subagent left it, but for the skipped files:  *)
(* whatever the plan takes for a rename, a deletion or unchanged, and      *)
(* whichever part a crashed apply had done before.                         *)
WorkArrives ==
    /\ job.phase = "writing" /\ job.todo = {} /\ job.fresh
    /\ job.file = All /\ job.now \notin gone
    => \A f \in Files \ job.skipped :
          tree[job.now][f] # base[job.now][f] => main[f] = tree[job.now][f]

(* docs/merge-resolution.md: skip excludes the file from full apply.  It   *)
(* is neither written, removed nor renamed by any workspace of the run.    *)
SkippedKept ==
    [][job.phase = "writing" /\ job.file = All /\ acts' = acts =>
          \A f \in job.skipped : main'[f] = main[f]]_vars

(* The merge is planned anew after the review, for each workspace on what  *)
(* those before it have made of main.  It still changes no file that the   *)
(* review did not list, unless main was edited or a workspace removed.     *)
OnlyReviewedFiles ==
    [][job.phase = "writing" /\ job.steady /\ acts' = acts =>
          \A f \in Files \ job.reviewed : main'[f] = main[f]]_vars

(* docs/team.md: apply uses base, workspace and main, and detects          *)
(* main-changed and deleted-file conflicts.  So it changes only files that *)
(* are in main as they were when the workspace was isolated.               *)
ChangesConflict ==
    [][\A f \in Files : Applied(f) => main[f] = origin[job.now][f]]_vars

------------------------------------------------------------------------------
(* The inductive invariant from which the above follow.                    *)

(* The merge begins when no subagent works any more, and before it nothing *)
(* has been cut short.                                                     *)
RunIsOver ==
    /\ job # Idle => stage = "over"
    /\ stage # "over" => main \in Trees

Writing == job.phase = "writing"

(* No two operations that are still to be done touch the same file, and    *)
(* none touches a file that is skipped.                                    *)
TodoApart ==
    \A o, p \in job.todo : o = p \/ Touched(o) \cap Touched(p) = {}

TodoSelected ==
    Writing => \A o \in job.todo :
                  Touched(o) \cap job.skipped = {} \/ job.file # All

(* Until main is edited, a file that is still to be changed is in main as  *)
(* it was found by the comparison: as in the base, or only in one of them; *)
(* and the subagent has changed it, unless main has lost it.               *)
TodoFound ==
    Writing /\ job.fresh =>
        \A o \in job.todo : \A f \in Touched(o) :
            /\ \/ main[f] \in {base[job.now][f], Absent}
               \/ base[job.now][f] = Absent
            /\ \/ tree[job.now][f] # base[job.now][f]
               \/ main[f] = Absent
               \/ job.now \in gone

(* What is written is in the workspace, and what is removed is not. *)
TodoFits ==
    Writing /\ job.now \notin gone =>
        \A o \in job.todo :
            /\ o.do = "remove" <=> tree[job.now][o.file] = Absent
            /\ o.do = "move" => tree[job.now][o.from] = Absent

(* The subagent's work on a file has arrived in main or is to be done. *)
TodoCovers ==
    Writing /\ job.fresh /\ job.file = All /\ job.now \notin gone =>
        \A f \in Files \ job.skipped :
            tree[job.now][f] # base[job.now][f] =>
                \/ main[f] = tree[job.now][f]
                \/ \E o \in job.todo : f \in Touched(o)

(* Until main is edited or a workspace removed, what may still be changed  *)
(* has been reviewed.                                                      *)
AllReviewed ==
    /\ job.phase # "idle" /\ job.file # All => job.reviewed = {job.file}
    /\ job.steady /\ job.phase # "idle" /\ job.file = All =>
          \A w \in (IF job.phase = "reviewed" THEN Listed ELSE job.left) :
              Diff(w) \subseteq job.reviewed
    /\ job.steady /\ Writing =>
          \A o \in job.todo : Touched(o) \subseteq job.reviewed

IInv ==
    /\ TypeOK
    /\ RunIsOver
    /\ TodoApart /\ TodoSelected /\ TodoFound /\ TodoFits /\ TodoCovers
    /\ AllReviewed
==============================================================================
